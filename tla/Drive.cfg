SPECIFICATION MCSpec
CONSTANTS
  album = album
  photo = photo
  a = a
  b = b
  c1 = c1
  c2 = c2
  Entries = {album, photo}
  Folders = {album}
  Names = {a, b}
  Read <- ReadPlain
  Missing = {}
  Root = Root
  Null = Null
  Slots = {c1, c2}
  Trash = Trash
  Free = Free
  MaxLost = 1
  MaxClicks = 2
CONSTRAINT FewRaces
SYMMETRY Symmetry
INVARIANTS
  StoreTypeOK
  LoadedShowsAll
  ShownIsThere
  NothingShownTwice

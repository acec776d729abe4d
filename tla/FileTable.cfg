SPECIFICATION Spec
CONSTANTS
  outer = outer
  inner = inner
  report = report
  copy = copy
  folderName = a
  plain = a
  escaped = e
  Entries = {outer, inner, report, copy}
  Folders = {outer, inner}
  Names = {a, e}
  Read <- ReadEscape
  Missing = {gone}
  Root = Root
  Null = Null
CONSTRAINTS
  FolderNames
  FewTrashed
SYMMETRY Symmetry
INVARIANTS
  TypeOK
  FoldersAcyclic
  HashTracksRow
  NamesDistinctInFolders

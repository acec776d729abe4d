SPECIFICATION Spec
CONSTANTS
  outer = outer
  inner = inner
  report = report
  copy = copy
  folderName = a
  plain = a
  escaped = e
  Entries = {outer, inner, report, copy}
  Folders = {outer, inner}
  Names = {a, b}
  Read <- ReadPlain
  Missing = {gone}
  Root = Root
  Null = Null
CONSTRAINT FolderNames
SYMMETRY Symmetry
INVARIANT
  NoDuplicateFiles

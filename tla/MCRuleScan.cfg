\* Three workers, two directories: kills, restarts and edits at any step.
SPECIFICATION Spec
CONSTANTS
  w1 = w1  w2 = w2  w3 = w3  root = root  crs = crs  extra = extra
  Workers = {w1, w2, w3}
  Recorders = {w1, w2}
  Root = root
  Subdirs <- TwoDirs
  Tree <- OneFile
  Contents = {1, 2}
  Names = {"n1", "n2"}
  Versions = {"v1", "v2"}
  Layouts <- AllLayouts
  Edits <- MetadataEdits
  MaxEdits = 1
  MaxStarts = 2
  None = None
CHECK_DEADLOCK FALSE
INVARIANTS
  ScanComplete
  RowsAgree
PROPERTIES
  ScanEnds

SPECIFICATION Spec
CONSTANTS
  None = None
  con = con
  usr = usr
  r1 = r1
  r2 = r2
  x = x
  y = y
  z = z
  stor = stor
  Blobs <- MCBlobs
  maxFileSize = 2
  DiskFills = FALSE
  MaxItems = 3
  MaxFaults = 2
  Own = own
  Others = {other}
  Tables = {hashes, headers}
  threshold = 1
  freezerBatchLimit = 1
  MaxHeight = 4
  MaxFailures = 1
INVARIANTS
  TableSound  TriesSound SnapshotSound
PROPERTY Implements
CHECK_DEADLOCK FALSE

SPECIFICATION Spec
CONSTANTS
  v1 = v1
  v2 = v2
  Vms = {v1, v2}
  Threads = {t1, t2}
  Requests <- OnTwo
  None = None
  Former = Former
  User = User
  MaxExits = 1
INVARIANTS TypeOK HostFilesAreRemoved CopyLeftOnlyByFailure OwnPasswordIsRead
PROPERTIES OlderFileKept RemovedFolderIsGone
SYMMETRY Symmetry
CHECK_DEADLOCK FALSE

CONSTANTS
  Vms = {v1}
  NoVm = NoVm
  Threads = {t1, t2}
  Jobs = {j1, j2}
  NoJob = NoJob
  MaxAttempts = 2
  Outside = TRUE
SPECIFICATION FairSpec
INVARIANTS TypeOK CopyIsAlone WorkIsOwned
PROPERTIES SourceStaysStopped ImplementsPromise EverythingEnds
CHECK_DEADLOCK FALSE

CONSTANTS
  Vms = {v1}
  NoVm = NoVm
  Threads = {t1}
  Jobs = {j1}
  NoJob = NoJob
  MaxAttempts = 2
  Outside = FALSE
SPECIFICATION Spec
PROPERTY RestoreAfterPowerOff
CHECK_DEADLOCK FALSE

CONSTANTS
  Vms = {v1, v2}
  NoVm = NoVm
  Names = {n1}
  NoName = NoName
  Threads = {t1, t2}
  MaxExtra = 1
  MaxPorts = 3
SPECIFICATION Spec
INVARIANTS TypeOK CredentialLifetime FailedCreateLeavesNothing
PROPERTIES CreatedIsWhole DiskNotDisplaced OnlyNamesakesTakeKept
SYMMETRY Symmetry
CHECK_DEADLOCK FALSE

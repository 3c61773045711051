CONSTANTS
  v1 = v1
  v2 = v2
  v3 = v3
  n1 = n1
  n2 = n2
  Vms <- MCVms
  NoVm = NoVm
  Slots <- MCSlots
  Adapters <- MCAdapters
  Names = {a}
  Ports = {p}
  NoPort = NoPort
  Threads = {t1, t2}
SPECIFICATION Spec
SYMMETRY Symmetry
INVARIANT TypeOK
PROPERTIES OnePortPerVm OlderRulesKept
CHECK_DEADLOCK FALSE

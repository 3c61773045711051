SPECIFICATION FairSpec
CONSTANTS
  Calls = {c1, c2, c3}
  Vms = {v1}
  NoVm = NoVm
  MaxConcurrentVBox = 2
INVARIANTS TypeOK NoLeakedSlot
PROPERTIES ImplementsPromise CallsReturn

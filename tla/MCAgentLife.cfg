CONSTANTS
  Launches = {l1, l2}
  Agents = {a1, a2, a3}
  Versions = {r1, r2}
  None = None
SPECIFICATION Spec
INVARIANTS TypeOK CurrentNotKilled NoStaleTab TokenIsStable
SYMMETRY Symmetry
CHECK_DEADLOCK FALSE

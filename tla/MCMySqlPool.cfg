\* Three connections for three threads, one of which may hold two: the pool runs
\* empty, connections break and are replaced, and the pool closes at any point.
CONSTANTS
  logic = logic
  rpc1 = rpc1
  rpc2 = rpc2
  con1 = con1
  con2 = con2
  con3 = con3
  Thread <- MCThread
  Nesting <- MCNesting
  Slot <- MCSlot
SPECIFICATION Spec
SYMMETRY Alike
INVARIANTS
  OnePlace
  NoneLost
  NoneForgotten
\* After a close the threads that were not woken stay.
CHECK_DEADLOCK FALSE

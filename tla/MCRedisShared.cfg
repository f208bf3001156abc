\* The use of a connection of its own the notes ask for, with two commands each.
CONSTANTS
  io1 = io1
  io2 = io2
  io3 = io3
  ctx1 = ctx1
  ctx2 = ctx2
  None = None
  Thread <- MCThread
  Ctx <- MCCtx
  Start <- MCStart
  MaxRuns = 2
SPECIFICATION Spec
INVARIANT OneUser
\* The threads may have nothing more to do.
CHECK_DEADLOCK FALSE

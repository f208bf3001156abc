\* Three threads for one connection, a command each: waits, failed PINGs,
\* reconnects and a close at any point.
CONSTANTS
  io1 = io1
  io2 = io2
  io3 = io3
  ctx1 = ctx1
  ctx2 = ctx2
  None = None
  Thread <- MCThread
  Ctx <- MCCtx
  Start <- MCStart
  MaxRuns = 1
SPECIFICATION Spec
INVARIANTS
  NoneForgotten
  NoLeak
  NeverFewer
PROPERTY CloseReturns
\* The threads may have nothing more to do.
CHECK_DEADLOCK FALSE

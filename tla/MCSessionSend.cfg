\* Two sending threads, three calls each, a queue limit of 2 (the code has
\* 1000): the queue fills, messages are dropped, and both kinds of failure
\* happen with messages queued.
CONSTANTS
  logic = logic
  rpc = rpc
  Senders <- MCSenders
  MaxSends = 3
  MAX_SENDQUE = 2
SPECIFICATION Spec
INVARIANTS
  OneWriteOfTheFront
  NoStalledQueue
  InOrder
  Bounded
  NoWriteAfterFailure
PROPERTIES
  ImplementsChannel
\* All calls are made and the queue is empty: the session is at rest.
CHECK_DEADLOCK FALSE

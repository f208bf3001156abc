\* Two io threads with a session each, two frames each.
CONSTANTS
  io1 = io1
  io2 = io2
  Producers <- MCProducers
  MaxPosts = 2
  Unknown <- MCUnknown
  HeadLen = 2
  MaxLength = 2
  SizeMax = 9
  Frames <- MCFrames
SPECIFICATION ReaderSpec
INVARIANTS
  NoLostWakeup
  InOrder
  DrainedAtExit
  ReaderTypeOK
  WholeFrames
PROPERTIES
  FrameIsTaken
  StopSeenEndsLoop
  ImplementsChannel
\* The server may be stopped, or left idle for good.
CHECK_DEADLOCK FALSE

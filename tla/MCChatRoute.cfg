\* One connection per user, each to its own server; the two servers call each other,
\* and the calls of s2 may fail.
CONSTANTS
  s1 = s1
  s2 = s2
  u1 = u1
  u2 = u2
  c1 = c1
  c2 = c2
  None = None
  Server <- MCServer
  User <- MCUser
  Conn <- MCConn
  Peer <- AllPeers
  Home <- EachHome
  RpcFails <- FailsAt2
  LookupMisses = FALSE
  Endings <- EachEndings
  MaxReq <- EachReq
  Asks <- EachAsks
SPECIFICATION Spec
INVARIANTS
  AnsweredInOrder
  SenderOrder
  OwedIsDelivered
PROPERTY Answered
\* Clients may stop sending.
CHECK_DEADLOCK FALSE

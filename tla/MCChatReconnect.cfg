\* Two connections to s1, of u1 and on the first one also of u2.
CONSTANTS
  s1 = s1
  s2 = s2
  u1 = u1
  u2 = u2
  c1 = c1
  c2 = c2
  None = None
  Server <- MCServer
  User <- MCUser
  Conn <- MCConn
  Peer <- AllPeers
  Home <- SameHome
  RpcFails <- NoFails
  LookupMisses = TRUE
  Endings <- AllEndings
  MaxReq <- OldReq
  Asks <- BothAsks
SPECIFICATION Spec
INVARIANTS
  TextsReachReceiver
  QuietEndUnbinds
PROPERTY OnlineInTurn
\* Clients may stop sending.
CHECK_DEADLOCK FALSE

\* Two connections of u1 to s1.
CONSTANTS
  s1 = s1
  s2 = s2
  u1 = u1
  u2 = u2
  c1 = c1
  c2 = c2
  None = None
  Server <- MCServer
  User <- MCUser
  Conn <- MCConn
  Peer <- AllPeers
  Home <- SameHome
  RpcFails <- NoFails
  LookupMisses = FALSE
  Endings <- ReadEndings
  MaxReq <- OldReq
  Asks <- OneAsks
SPECIFICATION Spec
INVARIANT OnlineHasBinding
\* Clients may stop sending.
CHECK_DEADLOCK FALSE

\* Two ChatServers, of which the first of the configuration may be started twice, and
\* calls for one user, one after the other.
CONSTANTS
  s1 = s1
  s2 = s2
  g1 = g1
  g2 = g2
  u1 = u1
  u2 = u2
  None = None
  ChatSrv <- MCChatSrv
  First = s1
  Caller = {g1}
  User = {u1}
  MaxStarts <- MCMaxStarts
  MaxCalls = 4
SPECIFICATION StatusSpec
INVARIANT
  LeastLoaded
\* Users may stop logging in.
CHECK_DEADLOCK FALSE

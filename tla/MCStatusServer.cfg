\* Two ChatServers, of which the first of the configuration may be started twice;
\* two calls at a time.
CONSTANTS
  s1 = s1
  s2 = s2
  g1 = g1
  g2 = g2
  u1 = u1
  u2 = u2
  None = None
  ChatSrv <- MCChatSrv
  First = s1
  Caller <- MCCaller
  User <- MCUser
  MaxStarts <- MCMaxStarts
  MaxCalls = 2
SPECIFICATION StatusSpec
INVARIANTS
  StatusTypeOK
  TokenStands
  CountIsLogins
\* Users may stop logging in.
CHECK_DEADLOCK FALSE

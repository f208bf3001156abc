\* u1 and u3 on s1, u2 on s2.
CONSTANTS
  s1 = s1
  s2 = s2
  u1 = u1
  u2 = u2
  u3 = u3
  k1 = k1
  k2 = k2
  k3 = k3
  k4 = k4
  None = None
  Server <- MCServer
  User <- MCUser
  Home <- MCHome
  DbConn <- MCDbConn
  Pool <- MCPool
  Wishes <- MCWishes
  Budgets <- MCBudgets
SPECIFICATION Spec
INVARIANTS
  TypeOK
  FriendsBothWays
  ToldIsBacked
  KnownFriends
PROPERTY HandlerEnds
\* Clients may stop sending.
CHECK_DEADLOCK FALSE

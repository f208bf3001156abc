\* Two connections share an io thread, the third has one of its own; two MySQL
\* connections.
CONSTANTS
  h1 = h1
  h2 = h2
  h3 = h3
  u1 = u1
  u2 = u2
  e1 = e1
  e2 = e2
  t1 = t1
  t2 = t2
  None = None
  Conn <- MCConn
  User <- MCUser
  Io <- MCIo
  PoolSize = 2
  Email <- MCEmail
  Tables <- MCTables
  Requests <- MCRequests
  Had <- MCHad
  MaxCodes = 2
SPECIFICATION Spec
INVARIANTS
  TypeOK
  OwnerSetsPwd
PROPERTIES
  RequestEnds
\* Clients may stop sending.
CHECK_DEADLOCK FALSE

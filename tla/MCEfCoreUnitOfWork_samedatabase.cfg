CONSTANTS
  b1 = b1
  b2 = b2
  orders = orders
  users = users
  archive = archive
  db1 = db1
  db2 = db2
  NoKey = NoKey
  Branches <- TwoBranches
  Keys <- OneDatabaseKeys
  Conns <- OneConn
  ConnOf <- OneDatabase
  Uses <- UsesSameDatabase
  MaxCtx = 3
  MaxChanges = 2
  Modes <- TransactionalOnly
  Faults <- NoFaults
SPECIFICATION Spec
CHECK_DEADLOCK FALSE
INVARIANT NoChangeLost

CONSTANTS
  b1 = b1
  b2 = b2
  orders = orders
  users = users
  archive = archive
  db1 = db1
  db2 = db2
  NoKey = NoKey
  Branches <- TwoBranches
  Keys <- ThreeKeys
  Conns <- TwoConns
  ConnOf <- TwoDatabases
  Uses <- UsesDisjoint
  MaxCtx = 4
  MaxChanges = 2
  Modes <- BothModes
  Faults <- AllFaults
SPECIFICATION Spec
CHECK_DEADLOCK FALSE
INVARIANTS TypeOK NoChangeLost NothingLeftOpen
PROPERTIES ImplementsAtomicCommit DurableAfterAllSaved

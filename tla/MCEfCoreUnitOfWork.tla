------------------------ MODULE MCEfCoreUnitOfWork ------------------------
(***************************************************************************)
(* Instances of EfCoreUnitOfWork for TLC.                                  *)
(***************************************************************************)
EXTENDS EfCoreUnitOfWork, TLC

CONSTANTS b1, b2, orders, users, archive, db1, db2

TwoBranches == {b1, b2}

\* Two context types on the first connection, one on the second.
ThreeKeys == {orders, users, archive}
TwoConns == {db1, db2}
TwoDatabases == [k \in ThreeKeys |-> IF k = archive THEN db2 ELSE db1]

OneDatabaseKeys == {orders, users}
OneConn == {db1}
OneDatabase == [k \in OneDatabaseKeys |-> db1]

UsesDisjoint == [b \in TwoBranches |-> IF b = b1 THEN {orders, users} ELSE {archive}]
UsesSameDatabase == [b \in TwoBranches |-> IF b = b1 THEN {orders} ELSE {users}]

BothModes == BOOLEAN
TransactionalOnly == {TRUE}
NoFaults == {}
AllFaults == {"begin", "save", "commit", "ack"}
=============================================================================

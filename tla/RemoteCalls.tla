---------------------------- MODULE RemoteCalls ----------------------------
(***************************************************************************)
(* What the calls of a hub promise to the application: the server runs a   *)
(* call at most once, a call settles at most once, and one that waits for  *)
(* its result does not succeed unless the server has run it to its end.    *)
(* What the server asks of the application is answered at most once.       *)
(***************************************************************************)
CONSTANTS
  Calls,       \* of the application
  Asks         \* of the server

VARIABLES
  awaited,     \* the calls that wait for a result, which send() does not; fixed
  status,      \* what the application knows of a call
  runs,        \* what the server does with it
  wanted,      \* the asks that want a result; fixed
  replies      \* how many replies an ask got

vars == <<awaited, status, runs, wanted, replies>>

Init ==
  /\ awaited \in SUBSET Calls
  /\ status = [c \in Calls |-> "none"]
  /\ runs = [c \in Calls |-> "no"]
  /\ wanted \in SUBSET Asks
  /\ replies = [a \in Asks |-> 0]

\* A call made without a connection is rejected at once.
MayBecome(c) ==
  IF status[c] = "none" THEN {"none", "pending", "rejected"}
  ELSE IF status[c] # "pending" THEN {status[c]}
  ELSE {"pending", "rejected"} \cup
       IF c \in awaited /\ runs[c] # "done" THEN {} ELSE {"resolved"}

\* Calls are made, succeed and fail, those that were sent together in one step.
Settle ==
  /\ status' \in [Calls -> {"none", "pending", "resolved", "rejected"}]
  /\ \A c \in Calls : status'[c] \in MayBecome(c)
  /\ UNCHANGED <<awaited, runs, wanted, replies>>

\* Also of calls that were rejected: the application may give up before the server.
Run ==
  /\ \E S \in SUBSET {c \in Calls : status[c] # "none" /\ runs[c] = "no"} :
       runs' = [c \in Calls |-> IF c \in S THEN "running" ELSE runs[c]]
  /\ UNCHANGED <<awaited, status, wanted, replies>>

Finish(c) ==
  /\ runs[c] = "running"
  /\ runs' = [runs EXCEPT ![c] = "done"]
  /\ UNCHANGED <<awaited, status, wanted, replies>>

Reply(a) ==
  /\ a \in wanted /\ replies[a] = 0
  /\ replies' = [replies EXCEPT ![a] = 1]
  /\ UNCHANGED <<awaited, status, runs, wanted>>

Next == \/ Settle \/ Run \/ \E c \in Calls : Finish(c)
        \/ \E a \in Asks : Reply(a)

Spec == Init /\ [][Next]_vars
=============================================================================

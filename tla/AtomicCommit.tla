---------------------------- MODULE AtomicCommit ----------------------------
(***************************************************************************)
(* What a transactional unit of work promises: the changes made in it      *)
(* become durable together, or none of them does, and the decision is      *)
(* taken once.                                                             *)
(***************************************************************************)
CONSTANT Changes

VARIABLES
  made,     \* the changes made in the unit of work
  durable,  \* the changes another transaction can see
  outcome   \* "open", "committed" or "aborted"

Init == made = {} /\ durable = {} /\ outcome = "open"

Make ==
  /\ outcome = "open"
  /\ \E c \in Changes \ made : made' = made \cup {c}
  /\ UNCHANGED <<durable, outcome>>

Commit ==
  /\ outcome = "open"
  /\ durable' = made /\ outcome' = "committed"
  /\ UNCHANGED made

Abort ==
  /\ outcome = "open"
  /\ outcome' = "aborted"
  /\ UNCHANGED <<made, durable>>

Next == Make \/ Commit \/ Abort

vars == <<made, durable, outcome>>

Spec == Init /\ [][Next]_vars

=============================================================================

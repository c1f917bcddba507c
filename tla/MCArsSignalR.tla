---------------------------- MODULE MCArsSignalR ----------------------------
(***************************************************************************)
(* Instances of ArsSignalR for TLC.  With a step of five seconds the       *)
(* heartbeat of 15 s is 3, the limit of 30 s is 6, the timer of 10 s is 2. *)
(***************************************************************************)
EXTENDS ArsSignalR, TLC

CONSTANTS c1, c2, web, android, s1, s2

TwoClients == {c1, c2}
WebAndAndroid == {web, android}
Mixed == [c \in TwoClients |-> IF c = c1 THEN web ELSE android]
TwoSweeps == {s1, s2}

SweepsAlike == Permutations(TwoSweeps)
=============================================================================

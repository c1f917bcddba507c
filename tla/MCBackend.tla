------------------------------ MODULE MCBackend ------------------------------
(***************************************************************************)
(* Token and ExecutingService in one instance for TLC.  They share nothing *)
(* but the process: a behaviour is one of either while the other rests.    *)
(* Two calls of StartAsync, so that a second one may overlap, follow or    *)
(* replace the first, and as many callbacks as it takes for one to wait    *)
(* while another executes.                                                 *)
(***************************************************************************)
EXTENDS MCToken, ExecutingService

CONSTANTS c1, c2, c3

ThreeCallbacks == {c1, c2, c3}
AnyThrows == {"execute", "failed"}

BackendInit == Init /\ ServiceInit

BackendNext ==
  \/ ServiceInit /\ Next /\ UNCHANGED serviceVars
  \/ Init /\ ServiceNext /\ UNCHANGED vars

BackendSpec ==
  /\ BackendInit /\ [][BackendNext]_<<vars, serviceVars>>
  /\ Fairness /\ ServiceFairness
=============================================================================

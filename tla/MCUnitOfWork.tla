---------------------------- MODULE MCUnitOfWork ----------------------------
(***************************************************************************)
(* Instances of UnitOfWork for TLC.                                        *)
(***************************************************************************)
EXTENDS UnitOfWork, TLC

CONSTANTS r1, r2, c1, c2

OneRequest == {r1}
TwoRequests == {r1, r2}
FlowsOneRequest == {r1, c1, c2}
FlowsTwoRequests == {r1, r2, c1}

\* RequiresNew and Suppress take the same branch of Begin; they differ in what
\* a Required scope inside them becomes.
BothBranches == {"Required", "Suppress"}

SaveFaults == {"save"}
AllFaults == {"save", "publish"}
=============================================================================

------------------------------- MODULE MCToken -------------------------------
(***************************************************************************)
(* Instances of Token for TLC: a lifetime of three steps, a sliding        *)
(* expiration of two.                                                      *)
(***************************************************************************)
EXTENDS Token, TLC

CONSTANTS g1, s1

NoCalls == {}
OneUnary == {g1}
OneStreaming == {s1}
NoFaults == {}
RequestFaults == {"request"}
=============================================================================

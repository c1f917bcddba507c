----------------------------- MODULE Connection -----------------------------
(***************************************************************************)
(* What HubConnection expects of the connection below it: start settles    *)
(* once, onclose is called once for every start that succeeded and for no  *)
(* other, and stop returns only when the connection it found has ended.    *)
(***************************************************************************)
EXTENDS Naturals

CONSTANT Stops     \* calls of stop()

VARIABLES
  phase,    \* "off", "opening" while start() is pending, "up" once it resolved
  stopping, \* was the connection told to stop
  closes,   \* calls of onclose
  ends,     \* how often the connection went off
  awaits    \* the end that each call of stop() waits for, 0 when it waits for none

vars == <<phase, stopping, closes, ends, awaits>>

Init ==
  /\ phase = "off" /\ stopping = FALSE /\ closes = 0 /\ ends = 0
  /\ awaits = [s \in Stops |-> 0]

Start ==
  /\ phase = "off" /\ phase' = "opening"
  /\ UNCHANGED <<stopping, closes, ends, awaits>>

Opened ==
  /\ phase = "opening" /\ ~stopping /\ phase' = "up"
  /\ UNCHANGED <<stopping, closes, ends, awaits>>

Failed ==
  /\ phase = "opening" /\ phase' = "off"
  /\ stopping' = FALSE /\ ends' = ends + 1
  /\ UNCHANGED <<closes, awaits>>

\* onclose may start the connection again.
Closed ==
  /\ phase = "up" /\ phase' \in {"off", "opening"}
  /\ stopping' = FALSE /\ closes' = closes + 1 /\ ends' = ends + 1
  /\ UNCHANGED awaits

Stop(s) ==
  /\ phase # "off" /\ awaits[s] = 0
  /\ stopping' = TRUE
  /\ awaits' = [awaits EXCEPT ![s] = ends + 1]
  /\ UNCHANGED <<phase, closes, ends>>

Return(s) ==
  /\ awaits[s] \in 1 .. ends
  /\ awaits' = [awaits EXCEPT ![s] = 0]
  /\ UNCHANGED <<phase, stopping, closes, ends>>

Next == Start \/ Opened \/ Failed \/ Closed \/ \E s \in Stops : Stop(s) \/ Return(s)

Spec == Init /\ [][Next]_vars
=============================================================================

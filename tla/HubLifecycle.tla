---------------------------- MODULE HubLifecycle ----------------------------
(***************************************************************************)
(* What HubConnection tells its application: the state it shows, and that  *)
(* onclose is called once for every connection that start() established.   *)
(***************************************************************************)
EXTENDS Naturals

VARIABLES
  state,        \* HubConnection.state
  established,  \* start() succeeded and onclose has not been called since
  closes        \* calls of onclose

vars == <<state, established, closes>>

Init == state = "Disconnected" /\ established = FALSE /\ closes = 0

Become(s) == state' = s /\ UNCHANGED <<established, closes>>

Start == state = "Disconnected" /\ Become("Connecting")
StartFails == state \in {"Connecting", "Disconnecting"} /\ ~established /\ Become("Disconnected")

Established ==
  /\ state = "Connecting" /\ ~established
  /\ state' = "Connected" /\ established' = TRUE
  /\ UNCHANGED closes

Reconnecting == state = "Connected" /\ Become("Reconnecting")
Reconnected == state = "Reconnecting" /\ Become("Connected")
Stop == state \in {"Connecting", "Connected", "Reconnecting"} /\ Become("Disconnecting")

\* The application may start again from within onclose.
Closed ==
  /\ established
  /\ state' \in {"Disconnected", "Connecting"}
  /\ established' = FALSE /\ closes' = closes + 1

Next == \/ Start \/ StartFails \/ Established \/ Reconnecting \/ Reconnected \/ Stop \/ Closed

Spec == Init /\ [][Next]_vars
=============================================================================

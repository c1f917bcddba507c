---------------------------- MODULE AmbientScopes ----------------------------
(***************************************************************************)
(* What the ambient unit of work promises to a request whose frames run    *)
(* one at a time: the units of work that are still open form a stack, a    *)
(* new one goes on top, and ending one (completing it, failing, or being   *)
(* disposed unfinished) makes the one it was begun in current again.       *)
(***************************************************************************)
EXTENDS Naturals, Sequences

CONSTANTS Requests, Units

VARIABLES
  live,   \* live[r]: the units of work of r that have not ended
  stack   \* stack[r]: the current unit of work of r (last) and those below it

vars == <<live, stack>>

Init ==
  /\ live = [r \in Requests |-> {}]
  /\ stack = [r \in Requests |-> <<>>]

Enter(r, u) ==
  /\ \A q \in Requests : u \notin live[q]
  /\ live' = [live EXCEPT ![r] = @ \cup {u}]
  /\ stack' = [stack EXCEPT ![r] = Append(@, u)]

\* Only the innermost one may end, and it leaves both at once.
Leave(r) ==
  /\ stack[r] # <<>>
  /\ live' = [live EXCEPT ![r] = @ \ {stack[r][Len(stack[r])]}]
  /\ stack' = [stack EXCEPT ![r] = SubSeq(@, 1, Len(@) - 1)]

Next == \E r \in Requests : (\E u \in Units : Enter(r, u)) \/ Leave(r)

Spec == Init /\ [][Next]_vars

=============================================================================

----------------------------- MODULE UnitOfWork -----------------------------
(***************************************************************************)
(* The ambient unit of work: CurrentUnitOfWorkProvider (an AsyncLocal that *)
(* holds a mutable wrapper), UnitOfWorkManager.Begin, UnitOfWorkBase and   *)
(* the handles returned to a scope that joins the ambient unit of work.    *)
(*                                                                         *)
(* A flow is one async frame: the action filter, the controller action, a  *)
(* helper it awaits, a task started with Task.WhenAll.  A callee starts    *)
(* with its caller's AsyncLocal value; what it assigns to the AsyncLocal   *)
(* is not seen by its caller, what it writes in the shared wrapper is.     *)
(* A frame opens scopes with `using' and closes them innermost first.      *)
(* What a unit of work saves and commits is in EfCoreUnitOfWork.           *)
(***************************************************************************)
EXTENDS Naturals, Sequences, FiniteSets

CONSTANTS
  Flows,      \* async frames
  Roots,      \* the frames the host starts: an HTTP or gRPC request, a CAP message
  NoFlow,     \* owner of a unit of work that does not exist yet
  MaxUow,     \* bound: units of work created
  MaxScopes,  \* bound: scopes open at once in one frame
  Options,    \* the scope options the scopes of this instance use
  Concurrent, \* may a frame go on while a frame it started still runs
  Faults      \* which calls may throw: "save" (save or commit), "publish"

ASSUME FlowsAssumption == Roots \subseteq Flows /\ NoFlow \notin Flows
ASSUME OptionsAssumption == Options \subseteq {"Required", "RequiresNew", "Suppress"}
ASSUME MaxUowAssumption == MaxUow \in Nat
ASSUME MaxScopesAssumption == MaxScopes \in Nat
ASSUME ConcurrentAssumption == Concurrent \in BOOLEAN
ASSUME FaultsAssumption == Faults \subseteq {"save", "publish"}

Uow == 1 .. MaxUow
NoUow == 0                       \* the null reference
UowOrNull == 0 .. MaxUow
ScopeOption == {"Required", "RequiresNew", "Suppress"}  \* TransactionScopeOption
ScopeKind == {"uow", "join", "joinSuppress"}
Scope == [kind : ScopeKind, uow : Uow, done : BOOLEAN]

VARIABLES
  \* frames
  status,    \* "idle", "running", "completing" (awaits CompleteAsync) or "returned"
  parent,    \* the frame that started it (itself for a root)
  request,   \* the root frame it descends from
  local,     \* AsyncLocalUow.Value: a wrapper, named by the unit of work it was made for
  scopes,    \* open scopes, the outermost first
  \* units of work
  nuow,      \* how many were created
  phase,     \* "none", "active", "completing", "failed", or _succeed is set:
             \* "succeeded", or "unpublished" when Publish then threw
  disposed,  \* IsDisposed
  option,    \* Options.Scope
  outer,     \* Outer
  owner,     \* the request that began it
  \* wrappers
  held       \* LocalUowWrapper.UnitOfWork

flowVars == <<status, parent, request, local, scopes>>
uowVars == <<nuow, phase, disposed, option, outer, owner>>
vars == <<status, parent, request, local, scopes,
          nuow, phase, disposed, option, outer, owner, held>>

-----------------------------------------------------------------------------
(* CurrentUnitOfWorkProvider                                               *)

Inside(w) == IF w = NoUow THEN NoUow ELSE held[w]

Stale(f) == Inside(local[f]) # NoUow /\ disposed[Inside(local[f])]

\* What the getter returns in frame f, and the AsyncLocal value it leaves there.
Current(f) == IF Stale(f) THEN NoUow ELSE Inside(local[f])
LocalAfterGet(f) == IF Stale(f) THEN NoUow ELSE local[f]

Beneath(u) == IF u = NoUow THEN NoUow ELSE outer[u]

\* `Current = null' in a context whose AsyncLocal value is w: the effect on
\* the wrappers h and the AsyncLocal value left in that context.
PopHeld(w, h) == IF w = NoUow THEN h ELSE [h EXCEPT ![w] = Beneath(h[w])]
PopLocal(w, h) == IF w # NoUow /\ Beneath(h[w]) = NoUow THEN NoUow ELSE w

\* `Current = u' for a unit of work just begun in frame f whose AsyncLocal is w;
\* an emptied wrapper w is given u too, besides the new wrapper made for u.
PushInto(f, u, w) ==
  \/ /\ Inside(w) = NoUow
     /\ held' = [v \in Uow |-> IF v \in {u, w} THEN u ELSE held[v]]
     /\ local' = [local EXCEPT ![f] = u]
     /\ UNCHANGED outer
  \/ /\ Inside(w) # NoUow
     /\ outer' = [outer EXCEPT ![u] = held[w]]
     /\ held' = [held EXCEPT ![w] = u]
     /\ UNCHANGED local

-----------------------------------------------------------------------------
Init ==
  /\ status = [f \in Flows |-> "idle"]
  /\ parent = [f \in Flows |-> f]
  /\ request = [f \in Flows |-> f]
  /\ local = [f \in Flows |-> NoUow]
  /\ scopes = [f \in Flows |-> <<>>]
  /\ nuow = 0
  /\ phase = [u \in Uow |-> "none"]
  /\ disposed = [u \in Uow |-> FALSE]
  /\ option = [u \in Uow |-> "Required"]
  /\ outer = [u \in Uow |-> NoUow]
  /\ owner = [u \in Uow |-> NoFlow]
  /\ held = [u \in Uow |-> NoUow]

HasRunningCallee(f) ==
  \E g \in Flows \ {f} : parent[g] = f /\ status[g] \in {"running", "completing"}

CanStep(f) == status[f] = "running" /\ (Concurrent \/ ~HasRunningCallee(f))

\* The host starts a root frame with an empty AsyncLocal.
StartRequestShared(f) ==   \* mutant: a plain static field instead of the AsyncLocal
  /\ f \in Roots /\ status[f] = "idle"
  /\ status' = [status EXCEPT ![f] = "running"]
  /\ \E g \in Flows : local' = [local EXCEPT ![f] = local[g]]
  /\ UNCHANGED <<parent, request, scopes, uowVars, held>>

StartRequest(f) ==
  /\ f \in Roots /\ status[f] = "idle"
  /\ status' = [status EXCEPT ![f] = "running"]
  /\ UNCHANGED <<parent, request, local, scopes, uowVars, held>>

\* Frame f calls (and awaits) or starts frame g.
Call(f, g) ==
  /\ CanStep(f) /\ g \notin Roots /\ status[g] = "idle"
  /\ status' = [status EXCEPT ![g] = "running"]
  /\ parent' = [parent EXCEPT ![g] = f]
  /\ request' = [request EXCEPT ![g] = request[f]]
  /\ local' = [local EXCEPT ![g] = local[f]]
  /\ UNCHANGED <<scopes, uowVars, held>>

\* The frame ends, by returning or by an exception; `using' closed its scopes.
Return(f) ==
  /\ CanStep(f) /\ scopes[f] = <<>>
  /\ status' = [status EXCEPT ![f] = "returned"]
  /\ UNCHANGED <<parent, request, local, scopes, uowVars, held>>

\* UnitOfWorkManager.Current, read by a repository or a controller.
ReadCurrent(f) ==
  /\ CanStep(f) /\ local[f] # LocalAfterGet(f)
  /\ local' = [local EXCEPT ![f] = LocalAfterGet(f)]
  /\ UNCHANGED <<status, parent, request, scopes, uowVars, held>>

-----------------------------------------------------------------------------
(* UnitOfWorkManager.Begin                                                 *)

Open(f, s) == scopes' = [scopes EXCEPT ![f] = Append(@, s)]

BeginJoin(f) ==
  /\ CanStep(f) /\ Len(scopes[f]) < MaxScopes
  /\ "Required" \in Options /\ Current(f) # NoUow
  /\ Open(f, [kind |-> IF option[Current(f)] = "Suppress" THEN "joinSuppress" ELSE "join",
              uow |-> Current(f), done |-> FALSE])
  /\ UNCHANGED <<status, parent, request, local, uowVars, held>>

BeginNew(f, opt) ==
  LET u == nuow + 1 IN
  /\ CanStep(f) /\ Len(scopes[f]) < MaxScopes /\ nuow < MaxUow
  /\ opt = "Required" => Current(f) = NoUow
  /\ nuow' = u
  /\ phase' = [phase EXCEPT ![u] = "active"]
  /\ option' = [option EXCEPT ![u] = opt]
  /\ owner' = [owner EXCEPT ![u] = request[f]]
  /\ PushInto(f, u, LocalAfterGet(f))
  /\ Open(f, [kind |-> "uow", uow |-> u, done |-> FALSE])
  /\ UNCHANGED <<status, parent, request, disposed>>

-----------------------------------------------------------------------------
(* CompleteAsync and Dispose of the handle a scope holds                   *)

\* The innermost scope of f whose CompleteAsync was not called.
Pending(f) == {i \in 1 .. Len(scopes[f]) :
                 /\ ~scopes[f][i].done
                 /\ \A j \in 1 .. Len(scopes[f]) : j > i => scopes[f][j].done}

MarkDone(f, i) ==
  LET called == [scopes[f][i] EXCEPT !.done = TRUE]
  IN scopes' = [scopes EXCEPT ![f] = [scopes[f] EXCEPT ![i] = called]]

CompleteJoined(f) ==
  /\ CanStep(f)
  /\ \E i \in Pending(f) : scopes[f][i].kind # "uow" /\ MarkDone(f, i)
  /\ UNCHANGED <<status, parent, request, local, uowVars, held>>

\* PreventMultipleComplete, then the await of CompleteUowAsync.
CompleteStart(f) ==
  /\ CanStep(f)
  /\ \E i \in Pending(f) :
       /\ scopes[f][i].kind = "uow" /\ phase[scopes[f][i].uow] = "active"
       /\ phase' = [phase EXCEPT ![scopes[f][i].uow] = "completing"]
       /\ MarkDone(f, i)
  /\ status' = [status EXCEPT ![f] = "completing"]
  /\ UNCHANGED <<parent, request, local, nuow, disposed, option, outer, owner, held>>

Completing(f) == {u \in Uow : \E i \in 1 .. Len(scopes[f]) :
                                /\ scopes[f][i].uow = u
                                /\ scopes[f][i].kind = "uow"
                                /\ phase[u] = "completing"}

\* The handlers run inside the async CompleteAsync: the wrapper they change is
\* shared with f, the AsyncLocal value they assign is lost when it returns.
CompleteEnd(f, result, heldAfter) ==
  /\ status[f] = "completing"
  /\ \E u \in Completing(f) : phase' = [phase EXCEPT ![u] = result]
  /\ held' = heldAfter
  /\ status' = [status EXCEPT ![f] = "running"]
  /\ UNCHANGED <<parent, request, local, scopes, nuow, disposed, option, outer, owner>>

CompleteSucceeds(f) == CompleteEnd(f, "succeeded", PopHeld(local[f], held))

CompleteFailsSilently(f) ==   \* mutant: no FailedHandler
  "save" \in Faults /\ CompleteEnd(f, "failed", held)

\* Saving or committing threw: FailedHandler pops, the exception reaches f.
CompleteFails(f) ==
  "save" \in Faults /\ CompleteEnd(f, "failed", PopHeld(local[f], held))

\* Publish threw after CompletedHandler: FailedHandler pops a second time.
PublishFails(f) ==
  /\ "publish" \in Faults
  /\ CompleteEnd(f, "unpublished",
                 PopHeld(PopLocal(local[f], held), PopHeld(local[f], held)))

Close(f) == scopes' = [scopes EXCEPT ![f] = SubSeq(@, 1, Len(@) - 1)]

Innermost(f) == scopes[f][Len(scopes[f])]

DisposeJoined(f) ==
  /\ CanStep(f) /\ scopes[f] # <<>> /\ Innermost(f).kind # "uow"
  /\ Close(f)
  /\ UNCHANGED <<status, parent, request, local, uowVars, held>>

DisposePopsAlways(f) ==   \* mutant: FailedHandler whatever _succeed says
  /\ CanStep(f) /\ scopes[f] # <<>> /\ Innermost(f).kind = "uow"
  /\ disposed' = [disposed EXCEPT ![Innermost(f).uow] = TRUE]
  /\ held' = PopHeld(local[f], held)
  /\ local' = [local EXCEPT ![f] = PopLocal(local[f], held)]
  /\ Close(f)
  /\ UNCHANGED <<status, parent, request, nuow, phase, option, outer, owner>>

DisposeSkipsFailed(f) ==   \* mutant: returns early for one that failed
  LET u == Innermost(f).uow IN
  /\ CanStep(f) /\ scopes[f] # <<>> /\ Innermost(f).kind = "uow"
  /\ disposed' = [disposed EXCEPT ![u] = phase[u] # "failed"]
  /\ Close(f)
  /\ UNCHANGED <<status, parent, request, local, nuow, phase, option, outer, owner, held>>

\* Dispose pops when the unit of work did not succeed; it is synchronous, so
\* the AsyncLocal value it assigns is the frame's own.
DisposeUow(f) ==
  LET u == Innermost(f).uow
      pop == phase[u] \notin {"succeeded", "unpublished"} IN
  /\ CanStep(f) /\ scopes[f] # <<>> /\ Innermost(f).kind = "uow"
  /\ disposed' = [disposed EXCEPT ![u] = TRUE]
  /\ held' = IF pop THEN PopHeld(local[f], held) ELSE held
  /\ local' = IF pop THEN [local EXCEPT ![f] = PopLocal(local[f], held)] ELSE local
  /\ Close(f)
  /\ UNCHANGED <<status, parent, request, nuow, phase, option, outer, owner>>

FrameStep(f) ==
  \/ Return(f) \/ ReadCurrent(f)
  \/ BeginJoin(f) \/ (\E opt \in Options : BeginNew(f, opt))
  \/ CompleteJoined(f) \/ CompleteStart(f)
  \/ CompleteSucceeds(f) \/ CompleteFails(f) \/ PublishFails(f)
  \/ DisposeJoined(f) \/ DisposeUow(f)

Next == \E f \in Flows : \/ StartRequest(f)
                         \/ \E g \in Flows : Call(f, g)
                         \/ FrameStep(f)

Spec == Init /\ [][Next]_vars

-----------------------------------------------------------------------------
(* Properties                                                              *)

TypeOK ==
  /\ status \in [Flows -> {"idle", "running", "completing", "returned"}]
  /\ parent \in [Flows -> Flows]
  /\ request \in [Flows -> Flows]
  /\ local \in [Flows -> UowOrNull]
  /\ scopes \in [Flows -> Seq(Scope)]
  /\ nuow \in UowOrNull
  /\ phase \in [Uow -> {"none", "active", "completing", "succeeded", "unpublished", "failed"}]
  /\ disposed \in [Uow -> BOOLEAN]
  /\ option \in [Uow -> ScopeOption]
  /\ outer \in [Uow -> UowOrNull]
  /\ owner \in [Uow -> Flows \cup {NoFlow}]
  /\ held \in [Uow -> UowOrNull]

\* Requests are isolated: the unit of work a frame sees as current, and every
\* unit of work it has a scope on, was begun by a frame of its own request.
\* (The provider's AsyncLocal field is static, and shared by every request.)
RequestsIsolated ==
  \A f \in Flows :
    /\ Current(f) # NoUow => owner[Current(f)] = request[f]
    /\ \A i \in 1 .. Len(scopes[f]) : owner[scopes[f][i].uow] = request[f]

\* The inductive invariant behind RequestsIsolated, as named parts: nothing refers to a unit of work not yet created, references follow
\* ownership, and a frame not yet started holds nothing.
CreatedInv ==
  /\ \A f \in Flows : local[f] <= nuow
  /\ \A f \in Flows : \A i \in 1 .. Len(scopes[f]) : scopes[f][i].uow <= nuow
  /\ \A u \in Uow : held[u] <= nuow /\ outer[u] < u
  /\ \A u \in Uow : u > nuow => phase[u] = "none" /\ held[u] = NoUow /\ outer[u] = NoUow

OwnedInv ==
  /\ \A f \in Flows : local[f] # NoUow => owner[local[f]] = request[f]
  /\ \A f \in Flows : \A i \in 1 .. Len(scopes[f]) : owner[scopes[f][i].uow] = request[f]
  /\ \A w \in Uow : held[w] # NoUow => owner[held[w]] = owner[w]
  /\ \A u \in Uow : outer[u] # NoUow => owner[outer[u]] = owner[u]

IdleInv == \A f \in Flows : status[f] = "idle" => scopes[f] = <<>> /\ local[f] = NoUow

IInv == TypeOK /\ CreatedInv /\ OwnedInv /\ IdleInv

LiveUows(r) == {u \in Uow : /\ owner[u] = r
                            /\ phase[u] \in {"active", "completing"}
                            /\ ~disposed[u]}

Deepest(S) == IF S = {} THEN NoUow ELSE CHOOSE u \in S : \A v \in S : v <= u

\* The frame of a request that is executing, when frames run one at a time.
Executing(f) == status[f] = "running" /\ ~HasRunningCallee(f)

\* No CompleteAsync of the request threw yet: a failure pops twice, see
\* CloseReturnsToOuter.
Unharmed(r) == \A u \in Uow : owner[u] = r => phase[u] \notin {"failed", "unpublished"}

\* "Gets currently active unit of work (or null if not exists)"
\* (IUnitOfWorkManager.Current): what an executing frame gets has not ended.
CurrentIsActive ==
  \A f \in Flows :
    Executing(f) /\ Current(f) # NoUow => Current(f) \in LiveUows(request[f])

\* "Setting to null returns back to outer unit of work where possible"
\* (ICurrentUnitOfWorkProvider.Current): when a scope is closed while the unit
\* of work it was begun in is still active, that one is current again.
CloseReturnsToOuter ==
  [][\A f \in Flows, u \in Uow :
       /\ scopes[f] # <<>> /\ Innermost(f) = [kind |-> "uow", uow |-> u, done |-> TRUE]
       /\ scopes'[f] = SubSeq(scopes[f], 1, Len(scopes[f]) - 1)
       /\ outer[u] # NoUow /\ outer[u] \in LiveUows(request[f])
       => Current(f)' = outer[u]]_vars

\* No request leaves a transaction open behind it: when its frames have returned,
\* every unit of work it began is disposed, whether it was completed, left by an
\* exception, or failed in a save or in a subscriber of Completed.
NothingLeftUndisposed ==
  \A u \in Uow : phase[u] # "none" /\ ~disposed[u] =>
    \E f \in Flows : request[f] = owner[u] /\ status[f] \in {"running", "completing"}

\* The stack of a request: its executing frame's current unit of work with the
\* chain of Outer references below it.
Chain[u \in UowOrNull] ==
  IF u = NoUow THEN <<>> ELSE Append(IF outer[u] < u THEN Chain[outer[u]] ELSE <<>>, u)

RequestStack(r) ==
  LET leaf == {f \in Flows : /\ request[f] = r /\ ~HasRunningCallee(f)
                             /\ status[f] \in {"running", "completing"}}
  IN IF leaf = {} THEN <<>> ELSE Chain[Current(CHOOSE f \in leaf : TRUE)]

Ambient == INSTANCE AmbientScopes WITH
  Requests <- Roots, Units <- Uow,
  live <- [r \in Roots |-> LiveUows(r)],
  stack <- [r \in Roots |-> RequestStack(r)]

\* Sequential frames whose CompleteAsync has not thrown: the AsyncLocal, its
\* wrappers and the Outer chain implement the plain stack.
ImplementsAmbientScopes ==
  /\ Ambient!Init
  /\ [][(\A r \in Roots : Unharmed(r)') => Ambient!Next]_(Ambient!vars)

=============================================================================

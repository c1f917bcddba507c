--------------------------- MODULE UnitOfWorkProofs ---------------------------
(***************************************************************************)
(* Proofs about UnitOfWork, for every set of frames and every number of    *)
(* units of work.  First what holds whether frames run one at a time or    *)
(* concurrently, and whatever throws: types, isolation, and that nothing   *)
(* stays open.  Then what needs frames that run one at a                   *)
(* time: what is current is active, the plain stack of AmbientScopes, and  *)
(* closing a scope when nothing throws.                                    *)
(***************************************************************************)
EXTENDS UnitOfWork, SequenceTheorems, WellFoundedInduction, TLAPS

USE FlowsAssumption, MaxUowAssumption, MaxScopesAssumption,
    OptionsAssumption, ConcurrentAssumption, FaultsAssumption

-----------------------------------------------------------------------------
(* The scopes of the frames after a step.                                  *)

\* Every scope open after the step is on a unit of work that already had a scope
\* of the same frame, or it is a scope of f on u.
ScopesGrowBy(f, u) ==
  \A g \in Flows : \A i \in 1 .. Len(scopes'[g]) :
    \/ \E j \in 1 .. Len(scopes[g]) : scopes'[g][i].uow = scopes[g][j].uow
    \/ g = f /\ scopes'[g][i].uow = u

\* No scope was opened.
ScopesKept ==
  \A g \in Flows : \A i \in 1 .. Len(scopes'[g]) :
    \E j \in 1 .. Len(scopes[g]) : scopes'[g][i].uow = scopes[g][j].uow

LEMMA OpenScopes ==
  ASSUME TypeOK, NEW f \in Flows, NEW s \in Scope, Open(f, s)
  PROVE  scopes' \in [Flows -> Seq(Scope)] /\ ScopesGrowBy(f, s.uow)
<1>1. scopes[f] \in Seq(Scope) /\ Append(scopes[f], s) \in Seq(Scope)
  BY DEF TypeOK
<1>2. scopes' = [scopes EXCEPT ![f] = Append(scopes[f], s)]
  BY DEF Open
<1>3. scopes' \in [Flows -> Seq(Scope)]
  BY <1>1, <1>2 DEF TypeOK
<1>4. ASSUME NEW g \in Flows, NEW i \in 1 .. Len(scopes'[g])
      PROVE  \/ \E j \in 1 .. Len(scopes[g]) : scopes'[g][i].uow = scopes[g][j].uow
             \/ g = f /\ scopes'[g][i].uow = s.uow
  <2>1. CASE g # f
    BY <1>2, <1>4, <2>1 DEF TypeOK
  <2>2. CASE g = f
    <3>1. scopes'[f] = Append(scopes[f], s)
      BY <1>2 DEF TypeOK
    <3>2. CASE i = Len(scopes[f]) + 1
      BY <1>1, <2>2, <3>1, <3>2
    <3>3. CASE i \in 1 .. Len(scopes[f])
      BY <1>1, <2>2, <3>1, <3>3
    <3>4. QED
      BY <1>1, <1>4, <2>2, <3>1, <3>2, <3>3
  <2>3. QED
    BY <2>1, <2>2
<1>5. QED
  BY <1>3, <1>4 DEF ScopesGrowBy

LEMMA CloseScopes ==
  ASSUME TypeOK, NEW f \in Flows, scopes[f] # <<>>, Close(f)
  PROVE  scopes' \in [Flows -> Seq(Scope)] /\ ScopesKept
<1> DEFINE n == Len(scopes[f]) - 1
<1>1. scopes[f] \in Seq(Scope) /\ n \in Nat
  BY EmptySeq DEF TypeOK
<1>2. /\ SubSeq(scopes[f], 1, n) \in Seq(Scope)
      /\ Len(SubSeq(scopes[f], 1, n)) = n
      /\ \A i \in 1 .. n : SubSeq(scopes[f], 1, n)[i] = scopes[f][i]
  <2>1. \A i \in 1 .. n : scopes[f][i] \in Scope
    BY <1>1, ElementOfSeq
  <2>2. QED
    BY <1>1, <2>1
<1>3. scopes' = [scopes EXCEPT ![f] = SubSeq(scopes[f], 1, n)]
  BY DEF Close
<1>4. scopes' \in [Flows -> Seq(Scope)]
  BY <1>2, <1>3 DEF TypeOK
<1>5. ASSUME NEW g \in Flows, NEW i \in 1 .. Len(scopes'[g])
      PROVE  \E j \in 1 .. Len(scopes[g]) : scopes'[g][i].uow = scopes[g][j].uow
  <2>1. CASE g # f
    BY <1>3, <1>5, <2>1 DEF TypeOK
  <2>2. CASE g = f
    <3>1. scopes'[f] = SubSeq(scopes[f], 1, n)
      BY <1>3 DEF TypeOK
    <3>2. i \in 1 .. n /\ i \in 1 .. Len(scopes[f])
      BY <1>1, <1>2, <1>5, <2>2, <3>1
    <3>3. QED
      BY <1>2, <2>2, <3>1, <3>2
  <2>3. QED
    BY <2>1, <2>2
<1>6. QED
  BY <1>4, <1>5 DEF ScopesKept

\* Marking a scope of f as completed keeps the unit of work of every scope.
LEMMA MarkScopes ==
  ASSUME TypeOK, NEW f \in Flows, NEW k \in Pending(f), MarkDone(f, k)
  PROVE  scopes' \in [Flows -> Seq(Scope)] /\ ScopesKept
<1> DEFINE e == [scopes[f][k] EXCEPT !.done = TRUE]
           t == [scopes[f] EXCEPT ![k] = e]
<1>1. scopes[f] \in Seq(Scope) /\ k \in 1 .. Len(scopes[f])
  BY DEF TypeOK, Pending
<1>2. scopes[f][k] \in Scope /\ e \in Scope /\ e.uow = scopes[f][k].uow
  <2>1. scopes[f][k] \in Scope
    BY <1>1, ElementOfSeq
  <2>2. QED
    BY <2>1 DEF Scope
<1> HIDE DEF e
<1>3. /\ t \in Seq(Scope) /\ Len(t) = Len(scopes[f])
      /\ \A j \in 1 .. Len(scopes[f]) : t[j] = IF j = k THEN e ELSE scopes[f][j]
  BY <1>1, <1>2, ExceptSeq
<1>4. scopes' = [scopes EXCEPT ![f] = t]
  BY DEF MarkDone, e
<1>5. scopes' \in [Flows -> Seq(Scope)]
  BY <1>3, <1>4 DEF TypeOK
<1>6. ASSUME NEW g \in Flows, NEW i \in 1 .. Len(scopes'[g])
      PROVE  \E j \in 1 .. Len(scopes[g]) : scopes'[g][i].uow = scopes[g][j].uow
  <2>1. CASE g # f
    BY <1>4, <1>6, <2>1 DEF TypeOK
  <2>2. CASE g = f
    <3>1. scopes'[f] = t
      BY <1>4 DEF TypeOK
    <3>2. i \in 1 .. Len(scopes[f])
      BY <1>3, <1>6, <2>2, <3>1
    <3>3. t[i].uow = scopes[f][i].uow
      BY <1>2, <1>3, <3>2
    <3>4. QED
      BY <2>2, <3>1, <3>2, <3>3
  <2>3. QED
    BY <2>1, <2>2
<1>7. QED
  BY <1>5, <1>6 DEF ScopesKept

-----------------------------------------------------------------------------
(* `Current = null': one pop of the wrappers.                              *)

HeldOK(h) ==
  /\ h \in [Uow -> UowOrNull]
  /\ \A w \in Uow : /\ h[w] <= nuow
                    /\ h[w] # NoUow => owner[h[w]] = owner[w]
                    /\ w > nuow => h[w] = NoUow

LEMMA PopKeepsHeld ==
  ASSUME IInv, NEW w \in UowOrNull, NEW h, HeldOK(h)
  PROVE  HeldOK(PopHeld(w, h)) /\ PopLocal(w, h) \in {NoUow, w}
<1>1. PopLocal(w, h) \in {NoUow, w}
  BY DEF PopLocal
<1>2. CASE w = NoUow
  BY <1>1, <1>2 DEF PopHeld
<1>3. CASE w # NoUow
  <2> DEFINE b == Beneath(h[w])
             p == PopHeld(w, h)
  <2>1. w \in Uow /\ h[w] \in UowOrNull /\ nuow \in Nat
    BY <1>3 DEF Uow, UowOrNull, NoUow, HeldOK, IInv, TypeOK
  <2>2. /\ b \in UowOrNull /\ b <= nuow
        /\ b # NoUow => owner[b] = owner[w]
        /\ w > nuow => b = NoUow
    <3>1. CASE h[w] = NoUow
      BY <2>1, <3>1 DEF Beneath, NoUow, UowOrNull
    <3>2. CASE h[w] # NoUow
      <4>1. h[w] \in Uow /\ b = outer[h[w]] /\ h[w] <= nuow /\ owner[h[w]] = owner[w]
        BY <2>1, <3>2 DEF Beneath, NoUow, Uow, UowOrNull, HeldOK
      <4>2. outer[h[w]] \in UowOrNull /\ outer[h[w]] < h[w]
        BY <4>1 DEF IInv, TypeOK, CreatedInv
      <4>3. b # NoUow => owner[b] = owner[h[w]]
        BY <4>1 DEF IInv, OwnedInv
      <4>4. w > nuow => h[w] = NoUow
        BY <2>1 DEF HeldOK
      <4>5. b <= nuow
        BY <2>1, <4>1, <4>2 DEF UowOrNull, Uow
      <4>6. QED
        BY <3>2, <4>1, <4>2, <4>3, <4>4, <4>5
    <3>3. QED
      BY <3>1, <3>2
  <2>3. p = [h EXCEPT ![w] = b]
    BY <1>3 DEF PopHeld
  <2> HIDE DEF b, p
  <2>4. HeldOK(p)
    <3>1. p \in [Uow -> UowOrNull]
      BY <2>2, <2>3 DEF HeldOK
    <3>2. ASSUME NEW x \in Uow
          PROVE  /\ p[x] <= nuow
                 /\ p[x] # NoUow => owner[p[x]] = owner[x]
                 /\ x > nuow => p[x] = NoUow
      <4>1. CASE x = w
        BY <2>1, <2>2, <2>3, <4>1 DEF HeldOK
      <4>2. CASE x # w
        <5>1. p[x] = h[x]
          BY <2>3, <4>2 DEF HeldOK
        <5>2. QED
          BY <5>1 DEF HeldOK
      <4>3. QED
        BY <4>1, <4>2
    <3>3. QED
      BY <3>1, <3>2 DEF HeldOK
  <2>5. QED
    BY <1>1, <2>4 DEF p
<1>4. QED
  BY <1>2, <1>3

LEMMA HeldIsOK ==
  ASSUME IInv
  PROVE  HeldOK(held)
BY DEF IInv, TypeOK, CreatedInv, OwnedInv, HeldOK

-----------------------------------------------------------------------------
(* Every step preserves the inductive invariant.                           *)

LEMMA InitInv == Init => IInv
<1> SUFFICES ASSUME Init PROVE IInv
  OBVIOUS
<1>1. TypeOK
  <2>1. <<>> \in Seq(Scope)
    OBVIOUS
  <2>2. 0 \in UowOrNull
    BY DEF UowOrNull
  <2>3. QED
    BY <2>1, <2>2 DEF Init, TypeOK, NoUow, ScopeOption
<1>2. CreatedInv
  BY DEF Init, CreatedInv, NoUow, Uow
<1>3. OwnedInv
  BY DEF Init, OwnedInv, NoUow
<1>4. IdleInv
  BY DEF Init, IdleInv
<1>5. QED
  BY <1>1, <1>2, <1>3, <1>4 DEF IInv

\* The scopes of a step that only closes or marks scopes, or that opens one on a
\* unit of work of the same request.
LEMMA ScopesKeepInv ==
  ASSUME IInv, NEW f \in Flows, NEW u \in Uow, ScopesGrowBy(f, u),
         scopes' \in [Flows -> Seq(Scope)],
         u <= nuow', owner'[u] = request[f],
         nuow <= nuow', nuow' \in Nat, request' = request,
         \A v \in Uow : v <= nuow => owner'[v] = owner[v]
  PROVE  /\ \A g \in Flows : \A i \in 1 .. Len(scopes'[g]) : scopes'[g][i].uow <= nuow'
         /\ \A g \in Flows : \A i \in 1 .. Len(scopes'[g]) :
              owner'[scopes'[g][i].uow] = request'[g]
<1> SUFFICES ASSUME NEW g \in Flows, NEW i \in 1 .. Len(scopes'[g])
             PROVE  /\ scopes'[g][i].uow <= nuow'
                    /\ owner'[scopes'[g][i].uow] = request'[g]
  OBVIOUS
<1>1. CASE g = f /\ scopes'[g][i].uow = u
  BY <1>1
<1>2. CASE \E j \in 1 .. Len(scopes[g]) : scopes'[g][i].uow = scopes[g][j].uow
  <2>1. PICK j \in 1 .. Len(scopes[g]) : scopes'[g][i].uow = scopes[g][j].uow
    BY <1>2
  <2>2. scopes[g][j].uow \in Uow
    <3>1. scopes[g] \in Seq(Scope)
      BY DEF IInv, TypeOK
    <3>2. scopes[g][j] \in Scope
      BY <3>1, ElementOfSeq
    <3>3. QED
      BY <3>2 DEF Scope
  <2>3. scopes[g][j].uow <= nuow /\ owner[scopes[g][j].uow] = request[g]
    BY DEF IInv, CreatedInv, OwnedInv
  <2>4. nuow \in Nat /\ scopes[g][j].uow \in Nat
    <3>1. nuow \in Nat
      BY DEF IInv, TypeOK, UowOrNull
    <3>2. QED
      BY <2>2, <3>1 DEF Uow
  <2>5. scopes[g][j].uow <= nuow'
    BY <2>3, <2>4
  <2>6. owner'[scopes[g][j].uow] = request'[g]
    BY <2>2, <2>3
  <2>7. QED
    BY <2>1, <2>5, <2>6
<1>3. QED
  BY <1>1, <1>2 DEF ScopesGrowBy

\* The same for a step that opens no scope.
LEMMA KeptScopesKeepInv ==
  ASSUME IInv, ScopesKept,
         scopes' \in [Flows -> Seq(Scope)],
         nuow' = nuow, owner' = owner, request' = request
  PROVE  /\ \A g \in Flows : \A i \in 1 .. Len(scopes'[g]) : scopes'[g][i].uow <= nuow'
         /\ \A g \in Flows : \A i \in 1 .. Len(scopes'[g]) :
              owner'[scopes'[g][i].uow] = request'[g]
<1> SUFFICES ASSUME NEW g \in Flows, NEW i \in 1 .. Len(scopes'[g])
             PROVE  /\ scopes'[g][i].uow <= nuow'
                    /\ owner'[scopes'[g][i].uow] = request'[g]
  OBVIOUS
<1>1. PICK j \in 1 .. Len(scopes[g]) : scopes'[g][i].uow = scopes[g][j].uow
  BY DEF ScopesKept
<1>2. QED
  BY <1>1 DEF IInv, CreatedInv, OwnedInv

LEMMA StartRequestInv ==
  ASSUME IInv, NEW f \in Flows, StartRequest(f)
  PROVE  IInv'
<1>1. TypeOK'
  BY DEF IInv, TypeOK, StartRequest, uowVars
<1>2. CreatedInv' /\ OwnedInv'
  BY DEF IInv, CreatedInv, OwnedInv, StartRequest, uowVars
<1>3. IdleInv'
  BY DEF IInv, TypeOK, IdleInv, StartRequest
<1>4. QED
  BY <1>1, <1>2, <1>3 DEF IInv

LEMMA CallInv ==
  ASSUME IInv, NEW f \in Flows, NEW g \in Flows, Call(f, g)
  PROVE  IInv'
<1> USE DEF Call, uowVars
<1>1. TypeOK'
  BY DEF IInv, TypeOK
<1>2. g # f /\ scopes[g] = <<>>
  BY DEF IInv, IdleInv, CanStep
<1>3. CreatedInv'
  <2>1. \A x \in Flows : local'[x] <= nuow
    BY DEF IInv, TypeOK, CreatedInv
  <2>2. QED
    BY <2>1 DEF IInv, CreatedInv
<1>4. OwnedInv'
  <2>1. \A x \in Flows : local'[x] # NoUow => owner[local'[x]] = request'[x]
    BY DEF IInv, TypeOK, OwnedInv
  <2>2. \A x \in Flows : \A i \in 1 .. Len(scopes[x]) : owner[scopes[x][i].uow] = request'[x]
    <3>1. TAKE x \in Flows
    <3>2. CASE x = g
      <4>1. 1 .. Len(scopes[x]) = {}
        BY <1>2, <3>2
      <4>2. QED
        BY <4>1
    <3>3. CASE x # g
      BY <3>3 DEF IInv, TypeOK, OwnedInv
    <3>4. QED
      BY <3>2, <3>3
  <2>3. QED
    BY <2>1, <2>2 DEF IInv, OwnedInv
<1>5. IdleInv'
  BY <1>2 DEF IInv, TypeOK, IdleInv
<1>6. QED
  BY <1>1, <1>3, <1>4, <1>5 DEF IInv

LEMMA ReturnInv ==
  ASSUME IInv, NEW f \in Flows, Return(f)
  PROVE  IInv'
<1>1. TypeOK'
  BY DEF IInv, TypeOK, Return, uowVars
<1>2. CreatedInv' /\ OwnedInv'
  BY DEF IInv, CreatedInv, OwnedInv, Return, uowVars
<1>3. IdleInv'
  BY DEF IInv, TypeOK, IdleInv, Return
<1>4. QED
  BY <1>1, <1>2, <1>3 DEF IInv

LEMMA ReadCurrentInv ==
  ASSUME IInv, NEW f \in Flows, ReadCurrent(f)
  PROVE  IInv'
<1> USE DEF ReadCurrent, uowVars
<1>1. LocalAfterGet(f) = NoUow
  BY DEF LocalAfterGet
<1>2. TypeOK'
  BY <1>1 DEF IInv, TypeOK, NoUow, UowOrNull
<1>3. CreatedInv'
  <2>1. \A x \in Flows : local'[x] <= nuow
    BY <1>1 DEF IInv, TypeOK, CreatedInv, NoUow, UowOrNull
  <2>2. QED
    BY <2>1 DEF IInv, CreatedInv
<1>4. OwnedInv'
  <2>1. \A x \in Flows : local'[x] # NoUow => owner[local'[x]] = request[x]
    BY <1>1 DEF IInv, TypeOK, OwnedInv
  <2>2. QED
    BY <2>1 DEF IInv, OwnedInv
<1>5. IdleInv'
  BY <1>1 DEF IInv, TypeOK, IdleInv, CanStep
<1>6. QED
  BY <1>2, <1>3, <1>4, <1>5 DEF IInv

LEMMA BeginJoinInv ==
  ASSUME IInv, NEW f \in Flows, BeginJoin(f)
  PROVE  IInv'
<1> DEFINE u == Current(f)
           s == [kind |-> IF option[u] = "Suppress" THEN "joinSuppress" ELSE "join",
                 uow |-> u, done |-> FALSE]
<1> USE DEF uowVars
<1>1. u \in Uow /\ u <= nuow /\ owner[u] = request[f]
  <2>1. u # NoUow /\ u = Inside(local[f])
    BY DEF BeginJoin, Current
  <2>2. local[f] \in Uow /\ u = held[local[f]]
    BY <2>1 DEF Inside, IInv, TypeOK, NoUow, Uow, UowOrNull
  <2>3. u \in Uow
    BY <2>1, <2>2 DEF IInv, TypeOK, NoUow, Uow, UowOrNull
  <2>4. u <= nuow
    BY <2>2 DEF IInv, CreatedInv
  <2>5. owner[u] = request[f]
    BY <2>1, <2>2 DEF IInv, OwnedInv, NoUow, Uow
  <2> HIDE DEF u
  <2>6. QED
    BY <2>3, <2>4, <2>5
<1>2. s \in Scope
  BY <1>1 DEF Scope, ScopeKind
<1>3. Open(f, s)
  BY DEF BeginJoin
<1>4. scopes' \in [Flows -> Seq(Scope)] /\ ScopesGrowBy(f, u)
  <2> HIDE DEF u
  <2>1. s.uow = u
    OBVIOUS
  <2> HIDE DEF s
  <2>2. QED
    BY <1>2, <1>3, <2>1, OpenScopes DEF IInv
<1>5. /\ nuow' = nuow /\ owner' = owner /\ request' = request /\ nuow \in Nat
      /\ status' = status /\ local' = local /\ held' = held
      /\ outer' = outer /\ phase' = phase
  BY DEF BeginJoin, IInv, TypeOK, UowOrNull
<1> HIDE DEF u
<1>6. /\ \A g \in Flows : \A i \in 1 .. Len(scopes'[g]) : scopes'[g][i].uow <= nuow'
      /\ \A g \in Flows : \A i \in 1 .. Len(scopes'[g]) :
           owner'[scopes'[g][i].uow] = request'[g]
  BY <1>1, <1>4, <1>5, ScopesKeepInv
<1>7. TypeOK'
  BY <1>4 DEF IInv, TypeOK, BeginJoin
<1>8. CreatedInv' /\ OwnedInv'
  BY <1>5, <1>6 DEF IInv, CreatedInv, OwnedInv
<1>9. IdleInv'
  BY DEF IInv, TypeOK, IdleInv, BeginJoin, CanStep, Open
<1>10. QED
  BY <1>7, <1>8, <1>9 DEF IInv

\* A unit of work pushed on the provider belongs to the request that pushes it.
LEMMA PushFacts ==
  ASSUME IInv, NEW f \in Flows, nuow < MaxUow,
         NEW w, w = LocalAfterGet(f), PushInto(f, nuow + 1, w),
         owner' = [owner EXCEPT ![nuow + 1] = request[f]]
  PROVE  /\ held' \in [Uow -> UowOrNull] /\ outer' \in [Uow -> UowOrNull]
         /\ local' \in [Flows -> UowOrNull]
         /\ \A g \in Flows : /\ local'[g] <= nuow + 1
                             /\ local'[g] # NoUow => owner'[local'[g]] = request[g]
                             /\ g # f => local'[g] = local[g]
         /\ \A v \in Uow :
              /\ held'[v] <= nuow + 1 /\ outer'[v] < v
              /\ held'[v] # NoUow => owner'[held'[v]] = owner'[v]
              /\ outer'[v] # NoUow => owner'[outer'[v]] = owner'[v]
              /\ v > nuow + 1 => held'[v] = NoUow /\ outer'[v] = NoUow
<1> DEFINE u == nuow + 1
<1> USE DEF NoUow, Uow, UowOrNull
<1>1. u \in Uow /\ nuow \in Nat
  BY DEF IInv, TypeOK
<1>2. /\ held \in [Uow -> UowOrNull] /\ outer \in [Uow -> UowOrNull]
      /\ local \in [Flows -> UowOrNull] /\ owner \in [Uow -> Flows \cup {NoFlow}]
  BY DEF IInv, TypeOK
<1>3. w \in UowOrNull /\ w <= nuow /\ (w # NoUow => owner[w] = request[f])
  BY <1>1, <1>2 DEF LocalAfterGet, IInv, CreatedInv, OwnedInv
<1>4. \A v \in Uow : v <= nuow => owner'[v] = owner[v]
  BY <1>1, <1>2
<1>5. owner'[u] = request[f]
  BY <1>1, <1>2
<1>6. \A g \in Flows : local[g] <= nuow /\ (local[g] # NoUow => owner'[local[g]] = request[g])
  BY <1>1, <1>2, <1>4 DEF IInv, CreatedInv, OwnedInv
<1>7. \A v \in Uow :
         /\ held[v] <= nuow /\ outer[v] < v
         /\ v <= nuow => /\ held[v] # NoUow => owner'[held[v]] = owner'[v]
                         /\ outer[v] # NoUow => owner'[outer[v]] = owner'[v]
         /\ v > nuow => held[v] = NoUow /\ outer[v] = NoUow
  <2> TAKE v \in Uow
  <2>1. /\ held[v] <= nuow /\ outer[v] < v /\ (v > nuow => held[v] = NoUow /\ outer[v] = NoUow)
        /\ (held[v] # NoUow => owner[held[v]] = owner[v])
        /\ (outer[v] # NoUow => owner[outer[v]] = owner[v])
    BY DEF IInv, CreatedInv, OwnedInv
  <2>2. held[v] \in Nat /\ (held[v] # NoUow => held[v] \in Uow)
    BY <1>2
  <2>3. outer[v] \in Nat /\ (outer[v] # NoUow => outer[v] \in Uow)
    BY <1>2
  <2>4. CASE v <= nuow
    <3>1. owner'[v] = owner[v]
      BY <1>4, <2>4
    <3>2. held[v] # NoUow => owner'[held[v]] = owner[held[v]]
      BY <1>4, <2>1, <2>2
    <3>3. outer[v] <= nuow
      BY <1>1, <2>1, <2>3, <2>4
    <3>4. outer[v] # NoUow => owner'[outer[v]] = owner[outer[v]]
      BY <1>4, <2>3, <3>3
    <3>5. QED
      BY <1>1, <2>1, <2>4, <3>1, <3>2, <3>4
  <2>5. QED
    BY <1>1, <2>1, <2>4
<1> HIDE DEF u
<1>8. u = nuow + 1 /\ u \in Nat
  BY <1>1 DEF u
<1>9. CASE Inside(w) = NoUow
  <2>1. /\ local' = [local EXCEPT ![f] = u] /\ outer' = outer
        /\ held' = [v \in Uow |-> IF v \in {u, w} THEN u ELSE held[v]]
    BY <1>9 DEF PushInto, u
  <2>2. w # NoUow => owner'[w] = request[f] /\ w \in Uow
    BY <1>3, <1>4
  <2>3. ASSUME NEW g \in Flows
        PROVE  /\ local'[g] \in UowOrNull /\ local'[g] <= nuow + 1
               /\ local'[g] # NoUow => owner'[local'[g]] = request[g]
               /\ g # f => local'[g] = local[g]
    BY <1>1, <1>2, <1>5, <1>6, <1>8, <2>1
  <2>4. ASSUME NEW v \in Uow
        PROVE  /\ outer'[v] < v
               /\ outer'[v] # NoUow => owner'[outer'[v]] = owner'[v]
               /\ v > nuow + 1 => outer'[v] = NoUow
    <3>1. outer'[v] = outer[v] /\ (v <= nuow \/ v > nuow)
      BY <1>1, <1>8, <2>1
    <3>2. CASE v <= nuow
      BY <1>1, <1>7, <3>1, <3>2
    <3>3. CASE v > nuow
      BY <1>1, <1>7, <3>1, <3>3
    <3>4. QED
      BY <3>1, <3>2, <3>3
  <2>5. held' \in [Uow -> UowOrNull]
    <3>1. u \in UowOrNull
      BY <1>1
    <3> HIDE DEF Uow, UowOrNull
    <3>2. QED
      BY <1>2, <2>1, <3>1
  <2>6. ASSUME NEW v \in Uow
        PROVE  /\ held'[v] <= nuow + 1
               /\ held'[v] # NoUow => owner'[held'[v]] = owner'[v]
               /\ v > nuow + 1 => held'[v] = NoUow
    <3>1. held'[v] = held[v] \/ (held'[v] = u /\ (v = u \/ (v = w /\ w # NoUow)))
      BY <1>1, <1>2, <2>1
    <3>2. CASE held'[v] = held[v] /\ v # u
      <4>1. v <= nuow \/ v > nuow + 1
        BY <1>1, <1>8, <3>2
      <4>2. QED
        BY <1>1, <1>2, <1>7, <3>2, <4>1
    <3>3. CASE held'[v] = u /\ v = u
      BY <1>8, <3>3
    <3>4. CASE held'[v] = u /\ v = w /\ w # NoUow
      BY <1>1, <1>3, <1>5, <1>8, <2>2, <3>4
    <3>5. v = u => held'[v] = u
      BY <1>1, <1>2, <2>1
    <3>6. QED
      BY <3>1, <3>2, <3>3, <3>4, <3>5
  <2>7. local' \in [Flows -> UowOrNull] /\ outer' \in [Uow -> UowOrNull]
    BY <1>1, <1>2, <1>8, <2>1
  <2>8. QED
    BY <2>3, <2>4, <2>5, <2>6, <2>7
<1>10. CASE Inside(w) # NoUow
  <2>1. held' = [held EXCEPT ![w] = u] /\ local' = local /\ outer' = [outer EXCEPT ![u] = held[w]]
    BY <1>10 DEF PushInto, u
  <2>2. owner'[w] = request[f] /\ w \in Uow /\ held[w] # NoUow
    BY <1>3, <1>4, <1>10 DEF Inside
  <2>3. held[w] \in Uow /\ held[w] <= nuow /\ owner'[held[w]] = request[f]
    BY <1>2, <1>3, <1>7, <2>2
  <2>4. ASSUME NEW g \in Flows
        PROVE  /\ local'[g] \in UowOrNull /\ local'[g] <= nuow + 1
               /\ local'[g] # NoUow => owner'[local'[g]] = request[g]
               /\ g # f => local'[g] = local[g]
    BY <1>1, <1>2, <1>6, <2>1
  <2>5. ASSUME NEW v \in Uow
        PROVE  /\ outer'[v] < v
               /\ outer'[v] # NoUow => owner'[outer'[v]] = owner'[v]
               /\ v > nuow + 1 => outer'[v] = NoUow
    <3>1. CASE v = u
      BY <1>1, <1>2, <1>5, <1>8, <2>1, <2>3, <3>1
    <3>2. CASE v # u
      <4>1. outer'[v] = outer[v] /\ (v <= nuow \/ v > nuow)
        BY <1>1, <1>2, <2>1, <3>2
      <4>2. CASE v <= nuow
        BY <1>1, <1>7, <4>1, <4>2
      <4>3. CASE v > nuow
        BY <1>1, <1>7, <4>1, <4>3
      <4>4. QED
        BY <4>1, <4>2, <4>3
    <3>3. QED
      BY <3>1, <3>2
  <2>6. ASSUME NEW v \in Uow
        PROVE  /\ held'[v] <= nuow + 1
               /\ held'[v] # NoUow => owner'[held'[v]] = owner'[v]
               /\ v > nuow + 1 => held'[v] = NoUow
    <3>1. CASE v = w
      BY <1>1, <1>2, <1>3, <1>5, <1>8, <2>1, <2>2, <3>1
    <3>2. CASE v # w
      <4>1. held'[v] = held[v] /\ (v <= nuow \/ v > nuow)
        BY <1>1, <1>2, <2>1, <3>2
      <4>2. CASE v <= nuow
        <5>1. held[v] \in Nat /\ held[v] <= nuow
          BY <1>2, <1>7
        <5>2. held'[v] # NoUow => owner'[held'[v]] = owner'[v]
          BY <1>7, <4>1, <4>2
        <5>3. held'[v] <= nuow + 1 /\ ~(v > nuow + 1)
          BY <1>1, <4>1, <4>2, <5>1
        <5>4. QED
          BY <5>2, <5>3
      <4>3. CASE v > nuow
        BY <1>1, <1>7, <4>1, <4>3
      <4>4. QED
        BY <4>1, <4>2, <4>3
    <3>3. QED
      BY <3>1, <3>2
  <2>7. /\ local' \in [Flows -> UowOrNull] /\ outer' \in [Uow -> UowOrNull]
        /\ held' \in [Uow -> UowOrNull]
    <3>1. u \in UowOrNull /\ held[w] \in UowOrNull
      BY <1>1, <2>3
    <3> HIDE DEF Uow, UowOrNull
    <3>2. QED
      BY <1>2, <2>1, <3>1
  <2>8. QED
    BY <2>4, <2>5, <2>6, <2>7
<1>11. QED
  BY <1>9, <1>10

LEMMA BeginNewInv ==
  ASSUME IInv, NEW f \in Flows, NEW opt \in Options, BeginNew(f, opt)
  PROVE  IInv'
<1> DEFINE u == nuow + 1
           s == [kind |-> "uow", uow |-> u, done |-> FALSE]
<1>1. /\ nuow < MaxUow /\ nuow' = u /\ Open(f, s) /\ CanStep(f)
      /\ phase' = [phase EXCEPT ![u] = "active"]
      /\ option' = [option EXCEPT ![u] = opt]
      /\ owner' = [owner EXCEPT ![u] = request[f]]
      /\ PushInto(f, u, LocalAfterGet(f))
      /\ status' = status /\ parent' = parent /\ request' = request /\ disposed' = disposed
  BY DEF BeginNew
<1>2. nuow \in Nat /\ u \in Uow
  BY <1>1 DEF IInv, TypeOK, Uow, UowOrNull
<1>3. s \in Scope /\ s.uow = u
  BY <1>2 DEF Scope, ScopeKind
<1>4. scopes' \in [Flows -> Seq(Scope)] /\ ScopesGrowBy(f, u)
  <2> HIDE DEF s
  <2>1. QED
    BY <1>1, <1>3, OpenScopes DEF IInv
<1>5. \A v \in Uow : v <= nuow => owner'[v] = owner[v]
  BY <1>1, <1>2 DEF IInv, TypeOK
<1>6. owner'[u] = request[f]
  BY <1>1, <1>2 DEF IInv, TypeOK
<1>7. /\ \A g \in Flows : \A i \in 1 .. Len(scopes'[g]) : scopes'[g][i].uow <= nuow'
      /\ \A g \in Flows : \A i \in 1 .. Len(scopes'[g]) :
           owner'[scopes'[g][i].uow] = request'[g]
  <2>1. u <= nuow' /\ nuow <= nuow' /\ nuow' \in Nat
    BY <1>1, <1>2
  <2> HIDE DEF u
  <2>2. QED
    BY <1>1, <1>2, <1>4, <1>5, <1>6, <2>1, ScopesKeepInv
<1>8. /\ held' \in [Uow -> UowOrNull] /\ outer' \in [Uow -> UowOrNull]
      /\ local' \in [Flows -> UowOrNull]
      /\ \A g \in Flows : /\ local'[g] <= nuow'
                          /\ local'[g] # NoUow => owner'[local'[g]] = request'[g]
                          /\ g # f => local'[g] = local[g]
      /\ \A v \in Uow :
           /\ held'[v] <= nuow' /\ outer'[v] < v
           /\ held'[v] # NoUow => owner'[held'[v]] = owner'[v]
           /\ outer'[v] # NoUow => owner'[outer'[v]] = owner'[v]
           /\ v > nuow' => held'[v] = NoUow /\ outer'[v] = NoUow
  BY <1>1, PushFacts
<1>9. TypeOK'
  <2>1. nuow' \in UowOrNull
    BY <1>1, <1>2 DEF Uow, UowOrNull
  <2>2. /\ phase' \in [Uow -> {"none", "active", "completing", "succeeded", "unpublished", "failed"}]
        /\ option' \in [Uow -> ScopeOption]
        /\ owner' \in [Uow -> Flows \cup {NoFlow}]
    BY <1>1 DEF IInv, TypeOK, ScopeOption
  <2>3. QED
    BY <1>1, <1>4, <1>8, <2>1, <2>2 DEF IInv, TypeOK
<1>10. CreatedInv'
  <2>1. ASSUME NEW v \in Uow, v > nuow'
        PROVE  phase'[v] = "none"
    <3>1. v > nuow /\ v # u
      BY <1>1, <1>2, <2>1 DEF Uow
    <3>2. QED
      BY <1>1, <3>1 DEF IInv, TypeOK, CreatedInv
  <2>2. QED
    BY <1>7, <1>8, <2>1 DEF CreatedInv
<1>11. OwnedInv'
  BY <1>7, <1>8 DEF OwnedInv
<1>12. IdleInv'
  <2>1. \A g \in Flows : status[g] = "idle" => g # f
    BY <1>1 DEF CanStep
  <2>2. \A g \in Flows : g # f => scopes'[g] = scopes[g]
    BY <1>1 DEF Open, IInv, TypeOK
  <2>3. QED
    BY <1>1, <1>8, <2>1, <2>2 DEF IInv, IdleInv
<1>13. QED
  BY <1>9, <1>10, <1>11, <1>12 DEF IInv

LEMMA CompleteJoinedInv ==
  ASSUME IInv, NEW f \in Flows, CompleteJoined(f)
  PROVE  IInv'
<1> USE DEF uowVars
<1>1. PICK k \in Pending(f) : MarkDone(f, k)
  BY DEF CompleteJoined
<1>2. scopes' \in [Flows -> Seq(Scope)] /\ ScopesKept
  BY <1>1, MarkScopes DEF IInv
<1>3. /\ nuow' = nuow /\ owner' = owner /\ request' = request /\ local' = local
      /\ held' = held /\ outer' = outer /\ phase' = phase /\ status' = status
  BY DEF CompleteJoined
<1>4. /\ \A g \in Flows : \A i \in 1 .. Len(scopes'[g]) : scopes'[g][i].uow <= nuow'
      /\ \A g \in Flows : \A i \in 1 .. Len(scopes'[g]) :
           owner'[scopes'[g][i].uow] = request'[g]
  BY <1>2, <1>3, KeptScopesKeepInv
<1>5. TypeOK'
  BY <1>2 DEF IInv, TypeOK, CompleteJoined
<1>6. CreatedInv' /\ OwnedInv'
  BY <1>3, <1>4 DEF IInv, CreatedInv, OwnedInv
<1>7. IdleInv'
  BY <1>3, <1>1 DEF IInv, TypeOK, IdleInv, MarkDone, CompleteJoined, CanStep
<1>8. QED
  BY <1>5, <1>6, <1>7 DEF IInv

LEMMA CompleteStartInv ==
  ASSUME IInv, NEW f \in Flows, CompleteStart(f)
  PROVE  IInv'
<1>1. PICK k \in Pending(f) :
        /\ phase[scopes[f][k].uow] = "active"
        /\ phase' = [phase EXCEPT ![scopes[f][k].uow] = "completing"]
        /\ MarkDone(f, k)
  BY DEF CompleteStart
<1>2. scopes' \in [Flows -> Seq(Scope)] /\ ScopesKept
  BY <1>1, MarkScopes DEF IInv
<1>3. /\ nuow' = nuow /\ owner' = owner /\ request' = request /\ local' = local
      /\ held' = held /\ outer' = outer
      /\ status' = [status EXCEPT ![f] = "completing"]
  BY DEF CompleteStart
<1>4. /\ \A g \in Flows : \A i \in 1 .. Len(scopes'[g]) : scopes'[g][i].uow <= nuow'
      /\ \A g \in Flows : \A i \in 1 .. Len(scopes'[g]) :
           owner'[scopes'[g][i].uow] = request'[g]
  BY <1>2, <1>3, KeptScopesKeepInv
<1>5. TypeOK'
  <2>1. phase' \in [Uow -> {"none", "active", "completing", "succeeded", "unpublished", "failed"}]
    BY <1>1 DEF IInv, TypeOK
  <2>2. QED
    BY <1>2, <2>1 DEF IInv, TypeOK, CompleteStart
<1>6. CreatedInv'
  <2>1. \A u \in Uow : u > nuow => phase'[u] = "none"
    BY <1>1 DEF IInv, TypeOK, CreatedInv
  <2>2. QED
    BY <1>3, <1>4, <2>1 DEF IInv, CreatedInv
<1>7. OwnedInv'
  BY <1>3, <1>4 DEF IInv, OwnedInv
<1>8. IdleInv'
  <2>1. \A g \in Flows : status'[g] = "idle" => g # f /\ status[g] = "idle"
    BY <1>3 DEF IInv, TypeOK
  <2>2. \A g \in Flows : g # f => scopes'[g] = scopes[g]
    BY <1>1 DEF MarkDone, IInv, TypeOK
  <2>3. QED
    BY <1>3, <2>1, <2>2 DEF IInv, IdleInv
<1>9. QED
  BY <1>5, <1>6, <1>7, <1>8 DEF IInv

LEMMA CompleteEndInv ==
  ASSUME IInv, NEW f \in Flows, NEW result \in {"succeeded", "unpublished", "failed"},
         NEW h, HeldOK(h), CompleteEnd(f, result, h)
  PROVE  IInv'
<1>1. PICK u \in Uow : phase[u] = "completing" /\ phase' = [phase EXCEPT ![u] = result]
  BY DEF CompleteEnd, Completing
<1>2. /\ nuow' = nuow /\ owner' = owner /\ request' = request /\ local' = local
      /\ outer' = outer /\ scopes' = scopes /\ held' = h
      /\ status' = [status EXCEPT ![f] = "running"]
  BY DEF CompleteEnd
<1>3. TypeOK'
  <2>1. phase' \in [Uow -> {"none", "active", "completing", "succeeded", "unpublished", "failed"}]
    BY <1>1 DEF IInv, TypeOK
  <2>2. QED
    BY <1>2, <2>1 DEF IInv, TypeOK, CompleteEnd, HeldOK
<1>4. CreatedInv'
  <2>1. \A v \in Uow : v > nuow => phase'[v] = "none"
    BY <1>1 DEF IInv, TypeOK, CreatedInv
  <2>2. QED
    BY <1>2, <2>1 DEF IInv, CreatedInv, HeldOK
<1>5. OwnedInv'
  BY <1>2 DEF IInv, OwnedInv, HeldOK
<1>6. IdleInv'
  BY <1>2 DEF IInv, TypeOK, IdleInv
<1>7. QED
  BY <1>3, <1>4, <1>5, <1>6 DEF IInv

LEMMA CompleteOutcomesInv ==
  ASSUME IInv, NEW f \in Flows,
         CompleteSucceeds(f) \/ CompleteFails(f) \/ PublishFails(f)
  PROVE  IInv'
<1> DEFINE once == PopHeld(local[f], held)
           twice == PopHeld(PopLocal(local[f], held), once)
<1>1. local[f] \in UowOrNull /\ NoUow \in UowOrNull
  BY MaxUowAssumption DEF IInv, TypeOK, NoUow, UowOrNull
<1>2. HeldOK(once) /\ PopLocal(local[f], held) \in UowOrNull
  BY <1>1, HeldIsOK, PopKeepsHeld
<1>3. HeldOK(twice)
  <2> HIDE DEF once
  <2>1. QED
    BY <1>2, PopKeepsHeld
<1>4. CASE CompleteSucceeds(f)
  BY <1>2, <1>4, CompleteEndInv DEF CompleteSucceeds
<1>5. CASE CompleteFails(f)
  BY <1>2, <1>5, CompleteEndInv DEF CompleteFails
<1>6. CASE PublishFails(f)
  BY <1>3, <1>6, CompleteEndInv DEF PublishFails
<1>7. QED
  BY <1>4, <1>5, <1>6

LEMMA DisposeJoinedInv ==
  ASSUME IInv, NEW f \in Flows, DisposeJoined(f)
  PROVE  IInv'
<1> USE DEF uowVars
<1>1. Close(f) /\ scopes[f] # <<>> /\ CanStep(f)
  BY DEF DisposeJoined
<1>2. scopes' \in [Flows -> Seq(Scope)] /\ ScopesKept
  BY <1>1, CloseScopes DEF IInv
<1>3. /\ nuow' = nuow /\ owner' = owner /\ request' = request /\ local' = local
      /\ held' = held /\ outer' = outer /\ phase' = phase /\ status' = status
  BY DEF DisposeJoined
<1>4. /\ \A g \in Flows : \A i \in 1 .. Len(scopes'[g]) : scopes'[g][i].uow <= nuow'
      /\ \A g \in Flows : \A i \in 1 .. Len(scopes'[g]) :
           owner'[scopes'[g][i].uow] = request'[g]
  BY <1>2, <1>3, KeptScopesKeepInv
<1>5. TypeOK'
  BY <1>2 DEF IInv, TypeOK, DisposeJoined
<1>6. CreatedInv' /\ OwnedInv'
  BY <1>3, <1>4 DEF IInv, CreatedInv, OwnedInv
<1>7. IdleInv'
  <2>1. \A g \in Flows : g # f => scopes'[g] = scopes[g]
    BY <1>1 DEF Close, IInv, TypeOK
  <2>2. QED
    BY <1>1, <1>3, <2>1 DEF IInv, IdleInv, CanStep
<1>8. QED
  BY <1>5, <1>6, <1>7 DEF IInv

LEMMA DisposeUowInv ==
  ASSUME IInv, NEW f \in Flows, DisposeUow(f)
  PROVE  IInv'
<1>1. /\ Close(f) /\ scopes[f] # <<>> /\ CanStep(f)
      /\ nuow' = nuow /\ owner' = owner /\ request' = request
      /\ outer' = outer /\ phase' = phase /\ status' = status
      /\ parent' = parent /\ option' = option
      /\ disposed' = [disposed EXCEPT ![Innermost(f).uow] = TRUE]
      /\ held' = held \/ held' = PopHeld(local[f], held)
      /\ local' = local \/ local' = [local EXCEPT ![f] = PopLocal(local[f], held)]
  BY DEF DisposeUow
<1>2. scopes' \in [Flows -> Seq(Scope)] /\ ScopesKept
  BY <1>1, CloseScopes DEF IInv
<1>3. local[f] \in UowOrNull /\ NoUow \in UowOrNull
  BY MaxUowAssumption DEF IInv, TypeOK, NoUow, UowOrNull
<1>4. HeldOK(held') /\ PopLocal(local[f], held) \in {NoUow, local[f]}
  BY <1>1, <1>3, HeldIsOK, PopKeepsHeld
<1>5. /\ local' \in [Flows -> UowOrNull]
      /\ \A g \in Flows : local'[g] \in {NoUow, local[g]}
  <2> DEFINE p == PopLocal(local[f], held)
  <2>1. local \in [Flows -> UowOrNull] /\ p \in UowOrNull /\ p \in {NoUow, local[f]}
    BY <1>3, <1>4 DEF IInv, TypeOK
  <2>2. local' = local \/ local' = [local EXCEPT ![f] = p]
    BY <1>1
  <2> HIDE DEF p
  <2>3. QED
    BY <2>1, <2>2
<1>6. /\ \A g \in Flows : \A i \in 1 .. Len(scopes'[g]) : scopes'[g][i].uow <= nuow'
      /\ \A g \in Flows : \A i \in 1 .. Len(scopes'[g]) :
           owner'[scopes'[g][i].uow] = request'[g]
  BY <1>1, <1>2, KeptScopesKeepInv
<1>7. TypeOK'
  <2>1. disposed' \in [Uow -> BOOLEAN]
    BY <1>1 DEF IInv, TypeOK
  <2>2. held' \in [Uow -> UowOrNull]
    BY <1>4 DEF HeldOK
  <2>3. QED
    BY <1>1, <1>2, <1>5, <2>1, <2>2 DEF IInv, TypeOK
<1>8. CreatedInv'
  <2>1. \A g \in Flows : local'[g] <= nuow
    <3>1. NoUow <= nuow
      BY DEF IInv, TypeOK, NoUow, UowOrNull
    <3>2. QED
      BY <1>5, <3>1 DEF IInv, CreatedInv
  <2>2. QED
    BY <1>1, <1>4, <1>6, <2>1 DEF IInv, CreatedInv, HeldOK
<1>9. OwnedInv'
  <2>1. \A g \in Flows : local'[g] # NoUow => owner[local'[g]] = request[g]
    BY <1>5 DEF IInv, OwnedInv
  <2>2. QED
    BY <1>1, <1>4, <1>6, <2>1 DEF IInv, OwnedInv, HeldOK
<1>10. IdleInv'
  <2>1. \A g \in Flows : g # f => scopes'[g] = scopes[g]
    BY <1>1 DEF Close, IInv, TypeOK
  <2>2. \A g \in Flows : local[g] = NoUow => local'[g] = NoUow
    BY <1>5
  <2>3. QED
    BY <1>1, <2>1, <2>2 DEF IInv, IdleInv, CanStep
<1>11. QED
  BY <1>7, <1>8, <1>9, <1>10 DEF IInv

LEMMA NextInv == IInv /\ [Next]_vars => IInv'
<1> SUFFICES ASSUME IInv, [Next]_vars
             PROVE  IInv'
  OBVIOUS
<1>1. CASE UNCHANGED vars
  BY <1>1 DEF vars, IInv, TypeOK, CreatedInv, OwnedInv, IdleInv
<1>2. ASSUME NEW f \in Flows, StartRequest(f)
      PROVE  IInv'
  BY <1>2, StartRequestInv
<1>3. ASSUME NEW f \in Flows, NEW g \in Flows, Call(f, g)
      PROVE  IInv'
  BY <1>3, CallInv
<1>4. ASSUME NEW f \in Flows, FrameStep(f)
      PROVE  IInv'
  <2>1. CASE Return(f)
    BY <2>1, ReturnInv
  <2>2. CASE ReadCurrent(f)
    BY <2>2, ReadCurrentInv
  <2>3. CASE BeginJoin(f)
    BY <2>3, BeginJoinInv
  <2>4. CASE \E opt \in Options : BeginNew(f, opt)
    BY <2>4, BeginNewInv
  <2>5. CASE CompleteJoined(f)
    BY <2>5, CompleteJoinedInv
  <2>6. CASE CompleteStart(f)
    BY <2>6, CompleteStartInv
  <2>7. CASE CompleteSucceeds(f) \/ CompleteFails(f) \/ PublishFails(f)
    BY <2>7, CompleteOutcomesInv
  <2>8. CASE DisposeJoined(f)
    BY <2>8, DisposeJoinedInv
  <2>9. CASE DisposeUow(f)
    BY <2>9, DisposeUowInv
  <2>10. QED
    BY <1>4, <2>1, <2>2, <2>3, <2>4, <2>5, <2>6, <2>7, <2>8, <2>9 DEF FrameStep
<1>5. QED
  BY <1>1, <1>2, <1>3, <1>4 DEF Next

LEMMA SpecInv == Spec => []IInv
BY InitInv, NextInv, PTL DEF Spec

-----------------------------------------------------------------------------
(* The theorems.                                                           *)

\* Every variable keeps its type, for every number of frames and units of work.
THEOREM TypeCorrect == Spec => []TypeOK
<1>1. IInv => TypeOK
  BY DEF IInv
<1>2. QED
  BY <1>1, SpecInv, PTL

\* No frame ever sees, joins or completes a unit of work of another request, even
\* with frames of one request sharing a wrapper concurrently and scopes failing.
THEOREM IsolationHolds == Spec => []RequestsIsolated
<1>1. IInv => RequestsIsolated
  <2> SUFFICES ASSUME IInv, NEW f \in Flows, Current(f) # NoUow
               PROVE  owner[Current(f)] = request[f]
    BY DEF IInv, OwnedInv, RequestsIsolated
  <2>1. Current(f) = Inside(local[f])
    BY DEF Current
  <2>2. local[f] \in Uow /\ Current(f) = held[local[f]]
    BY <2>1 DEF Inside, IInv, TypeOK, NoUow, Uow, UowOrNull
  <2>3. QED
    BY <2>2 DEF IInv, OwnedInv, NoUow, Uow
<1>2. QED
  BY <1>1, SpecInv, PTL

\* A unit of work that ended, well or not, stays as it ended.
LEMMA OutcomeStep ==
  ASSUME IInv, [Next]_vars
  PROVE  \A u \in Uow :
           phase[u] \in {"succeeded", "unpublished", "failed"} => phase'[u] = phase[u]
<1> DEFINE Stays == \A u \in Uow :
             phase[u] \in {"succeeded", "unpublished", "failed"} => phase'[u] = phase[u]
<1>1. ASSUME NEW f \in Flows, StartRequest(f) \/ \E g \in Flows : Call(f, g)
      PROVE  Stays
  BY <1>1 DEF StartRequest, Call, uowVars
<1>2. ASSUME NEW f \in Flows, \/ Return(f) \/ ReadCurrent(f) \/ BeginJoin(f)
                              \/ CompleteJoined(f) \/ DisposeJoined(f) \/ DisposeUow(f)
      PROVE  Stays
  BY <1>2 DEF Return, ReadCurrent, BeginJoin, CompleteJoined, DisposeJoined, DisposeUow, uowVars
<1>3. ASSUME NEW f \in Flows, NEW opt \in Options, BeginNew(f, opt)
      PROVE  Stays
  <2>1. phase' = [phase EXCEPT ![nuow + 1] = "active"] /\ nuow + 1 \in Uow /\ nuow + 1 > nuow
    BY <1>3 DEF BeginNew, IInv, TypeOK, Uow, UowOrNull
  <2>2. phase[nuow + 1] = "none"
    BY <2>1 DEF IInv, CreatedInv
  <2>3. QED
    BY <2>1, <2>2 DEF IInv, TypeOK
<1>4. ASSUME NEW f \in Flows, CompleteStart(f)
      PROVE  Stays
  <2>1. PICK k \in Pending(f) : /\ phase[scopes[f][k].uow] = "active"
                                /\ phase' = [phase EXCEPT ![scopes[f][k].uow] = "completing"]
    BY <1>4 DEF CompleteStart
  <2>2. QED
    BY <2>1 DEF IInv, TypeOK
<1>5. ASSUME NEW f \in Flows, CompleteSucceeds(f) \/ CompleteFails(f) \/ PublishFails(f)
      PROVE  Stays
  <2>1. \E u \in Uow : \E r : phase[u] = "completing" /\ phase' = [phase EXCEPT ![u] = r]
    BY <1>5 DEF CompleteSucceeds, CompleteFails, PublishFails, CompleteEnd, Completing
  <2>2. QED
    BY <2>1 DEF IInv, TypeOK
<1>6. CASE UNCHANGED vars
  BY <1>6 DEF vars
<1>7. QED
  BY <1>1, <1>2, <1>3, <1>4, <1>5, <1>6 DEF Next, FrameStep

-----------------------------------------------------------------------------
(* Frames that run one at a time.                                          *)

Active(f) == status[f] \in {"running", "completing"}

IsUow(f, i) == i \in 1 .. Len(scopes[f]) /\ scopes[f][i].kind = "uow"

Live(u) == phase[u] \in {"active", "completing"} /\ ~disposed[u]

\* An open scope is in an active frame; who is not disposed has one.
ScopeInv ==
  /\ \A u \in Uow : u > nuow => ~disposed[u]
  /\ \A f \in Flows : scopes[f] # <<>> => Active(f)
  /\ \A u \in Uow : phase[u] # "none" /\ ~disposed[u] =>
       \E f \in Flows : \E i \in 1 .. Len(scopes[f]) : IsUow(f, i) /\ scopes[f][i].uow = u

\* The active frames of a request are a stack: d is the depth of each.
StackInv(d) ==
  /\ \A f \in Flows : status[f] = "idle" => request[f] = f /\ parent[f] = f
  /\ \A f \in Flows : Active(f) =>
       /\ request[f] \in Roots /\ Active(request[f]) /\ d[request[f]] <= d[f]
       /\ request[request[f]] = request[f] /\ request[parent[f]] = request[f]
  /\ \A f, g \in Flows : Active(f) /\ Active(g) /\ request[f] = request[g] =>
       /\ d[f] = d[g] => f = g
       /\ d[f] < d[g] => \E h \in Flows : /\ Active(h) /\ h # f /\ parent[h] = f
                                          /\ d[h] = d[f] + 1
  /\ \A f \in Flows : status[f] = "completing" => ~HasRunningCallee(f)

\* Scopes opened later, in the same frame or in a deeper one, are on younger units of work.
OrderInv(d) ==
  \A f, g \in Flows : request[f] = request[g] =>
    \A i \in 1 .. Len(scopes[f]), j \in 1 .. Len(scopes[g]) :
       IsUow(f, i) /\ IsUow(g, j) /\ (d[f] < d[g] \/ (f = g /\ i < j)) =>
         scopes[f][i].uow < scopes[g][j].uow

\* What the state of a unit of work says of its scope.
PhaseWell(f, i) ==
  LET u == scopes[f][i].uow IN
  /\ phase[u] # "none" /\ ~disposed[u]
  /\ scopes[f][i].done => phase[u] # "active"
  /\ phase[u] = "completing" =>
       /\ status[f] = "completing" /\ scopes[f][i].done
       /\ \A j \in 1 .. Len(scopes[f]) : j > i =>
            scopes[f][j].done /\ (IsUow(f, j) => phase[scopes[f][j].uow] # "completing")
PhaseInv == \A f \in Flows : \A i \in 1 .. Len(scopes[f]) : IsUow(f, i) => PhaseWell(f, i)

\* A live one was begun in a live one.
OuterInv == \A u \in Uow : Live(u) /\ outer[u] # NoUow => Live(outer[u])

\* What the executing frame finds in its wrapper.
Fresh(x) == x = NoUow \/ Live(x) \/ (disposed[x] /\ outer[x] = NoUow)
LeafInv == \A f \in Flows : Active(f) /\ ~HasRunningCallee(f) => Fresh(Inside(local[f]))

\* What a frame that left its callees another wrapper will find in its own.
Frozen(f, d) ==
  LET x == Inside(local[f]) IN
  \/ x = NoUow
  \/ outer[x] = NoUow /\ disposed[x]
  \/ /\ outer[x] = NoUow
     /\ \E h \in Flows : /\ Active(h) /\ request[h] = request[f] /\ d[h] > d[f]
                         /\ \E i \in 1 .. Len(scopes[h]) : IsUow(h, i) /\ scopes[h][i].uow = x

WrapperInv(d) ==
  \A f, g \in Flows :
    Active(f) /\ Active(g) /\ request[f] = request[g] /\ d[f] < d[g] =>
      /\ local[f] = local[g] \/ Frozen(f, d)
      /\ \A h \in Flows : /\ Active(h) /\ request[h] = request[g] /\ d[g] < d[h]
                          /\ local[f] = local[h] /\ local[f] # NoUow
                          => local[f] = local[g]

SeqInv(d) ==
  /\ StackInv(d) /\ OrderInv(d) /\ WrapperInv(d)
  /\ PhaseInv /\ OuterInv /\ LeafInv

-----------------------------------------------------------------------------
(* The scopes one by one.                                                  *)

LEMMA OpenedScope ==
  ASSUME TypeOK, NEW f \in Flows, NEW s \in Scope, Open(f, s)
  PROVE  /\ \A g \in Flows \ {f} : scopes'[g] = scopes[g]
         /\ Len(scopes'[f]) = Len(scopes[f]) + 1 /\ Len(scopes[f]) \in Nat
         /\ scopes'[f][Len(scopes[f]) + 1] = s
         /\ \A i \in 1 .. Len(scopes[f]) : scopes'[f][i] = scopes[f][i]
<1>1. scopes[f] \in Seq(Scope)
  BY DEF TypeOK
<1>2. scopes' = [scopes EXCEPT ![f] = Append(scopes[f], s)]
  BY DEF Open
<1>3. scopes'[f] = Append(scopes[f], s) /\ \A g \in Flows \ {f} : scopes'[g] = scopes[g]
  BY <1>2 DEF TypeOK
<1>4. QED
  BY <1>1, <1>3

LEMMA ClosedScope ==
  ASSUME TypeOK, NEW f \in Flows, scopes[f] # <<>>, Close(f)
  PROVE  /\ \A g \in Flows \ {f} : scopes'[g] = scopes[g]
         /\ Len(scopes'[f]) = Len(scopes[f]) - 1 /\ Len(scopes[f]) \in Nat \ {0}
         /\ \A i \in 1 .. Len(scopes[f]) - 1 : scopes'[f][i] = scopes[f][i]
<1> DEFINE n == Len(scopes[f]) - 1
<1>1. scopes[f] \in Seq(Scope) /\ n \in Nat /\ Len(scopes[f]) \in Nat \ {0}
  BY EmptySeq DEF TypeOK
<1>2. scopes' = [scopes EXCEPT ![f] = SubSeq(scopes[f], 1, n)]
  BY DEF Close
<1>3. scopes'[f] = SubSeq(scopes[f], 1, n) /\ \A g \in Flows \ {f} : scopes'[g] = scopes[g]
  BY <1>2 DEF TypeOK
<1>4. /\ Len(SubSeq(scopes[f], 1, n)) = n
      /\ \A i \in 1 .. n : SubSeq(scopes[f], 1, n)[i] = scopes[f][i]
  BY <1>1
<1>5. QED
  BY <1>1, <1>3, <1>4

LEMMA MarkedScope ==
  ASSUME TypeOK, NEW f \in Flows, NEW k \in Pending(f), MarkDone(f, k)
  PROVE  /\ \A g \in Flows \ {f} : scopes'[g] = scopes[g]
         /\ Len(scopes'[f]) = Len(scopes[f]) /\ Len(scopes[f]) \in Nat
         /\ k \in 1 .. Len(scopes[f]) /\ scopes'[f][k].done
         /\ \A i \in 1 .. Len(scopes[f]) :
              /\ scopes'[f][i].uow = scopes[f][i].uow /\ scopes'[f][i].kind = scopes[f][i].kind
              /\ i # k => scopes'[f][i] = scopes[f][i]
<1> DEFINE e == [scopes[f][k] EXCEPT !.done = TRUE]
           t == [scopes[f] EXCEPT ![k] = e]
<1>1. scopes[f] \in Seq(Scope) /\ k \in 1 .. Len(scopes[f])
  BY DEF TypeOK, Pending
<1>2. e \in Scope /\ e.done /\ e.uow = scopes[f][k].uow /\ e.kind = scopes[f][k].kind
  <2>1. scopes[f][k] \in Scope
    BY <1>1, ElementOfSeq
  <2>2. QED
    BY <2>1 DEF Scope
<1> HIDE DEF e
<1>3. /\ t \in Seq(Scope) /\ Len(t) = Len(scopes[f])
      /\ \A j \in 1 .. Len(scopes[f]) : t[j] = IF j = k THEN e ELSE scopes[f][j]
  BY <1>1, <1>2, ExceptSeq
<1>4. scopes' = [scopes EXCEPT ![f] = t]
  BY DEF MarkDone, e
<1>5. scopes'[f] = t /\ \A g \in Flows \ {f} : scopes'[g] = scopes[g]
  BY <1>4 DEF TypeOK
<1>6. QED
  BY <1>1, <1>2, <1>3, <1>5

LEMMA ScopeTypes ==
  ASSUME TypeOK, NEW f \in Flows, NEW i \in 1 .. Len(scopes[f])
  PROVE  /\ scopes[f] \in Seq(Scope) /\ Len(scopes[f]) \in Nat /\ scopes[f] # <<>>
         /\ scopes[f][i].uow \in Uow /\ scopes[f][i].kind \in ScopeKind
         /\ scopes[f][i].done \in BOOLEAN
<1>1. scopes[f] \in Seq(Scope) /\ Len(scopes[f]) \in Nat
  BY DEF TypeOK
<1>2. scopes[f][i] \in Scope
  BY <1>1, ElementOfSeq
<1>3. scopes[f] # <<>>
  BY <1>1
<1>4. QED
  BY <1>1, <1>2, <1>3 DEF Scope

-----------------------------------------------------------------------------
(* What is not disposed has an open scope.                                 *)

HasScope(u) == \E f \in Flows : \E i \in 1 .. Len(scopes[f]) : IsUow(f, i) /\ scopes[f][i].uow = u

\* A step that keeps every scope on a unit of work.
LEMMA ScopesStay ==
  ASSUME NEW u, HasScope(u),
         \A g \in Flows : Len(scopes'[g]) \in Nat /\ Len(scopes[g]) \in Nat /\
                          Len(scopes[g]) <= Len(scopes'[g]),
         \A g \in Flows : \A i \in 1 .. Len(scopes[g]) :
           /\ scopes'[g][i].uow = scopes[g][i].uow
           /\ scopes'[g][i].kind = scopes[g][i].kind
  PROVE  HasScope(u)'
<1>1. PICK f \in Flows : \E i \in 1 .. Len(scopes[f]) : IsUow(f, i) /\ scopes[f][i].uow = u
  BY DEF HasScope
<1>2. PICK i \in 1 .. Len(scopes[f]) : IsUow(f, i) /\ scopes[f][i].uow = u
  BY <1>1
<1>3. i \in 1 .. Len(scopes'[f])
  OBVIOUS
<1>4. IsUow(f, i)' /\ scopes'[f][i].uow = u
  BY <1>2, <1>3 DEF IsUow
<1>5. QED
  BY <1>3, <1>4 DEF HasScope

LEMMA OpenKeepsScopes ==
  ASSUME IInv, ScopeInv, NEW f \in Flows, NEW s \in Scope, Open(f, s), Active(f),
         status' = status
  PROVE  /\ \A g \in Flows : scopes'[g] # <<>> => Active(g)'
         /\ \A u \in Uow : HasScope(u) => HasScope(u)'
         /\ s.kind = "uow" => \A u \in Uow : u = s.uow => HasScope(u)'
<1>1. /\ \A g \in Flows \ {f} : scopes'[g] = scopes[g]
      /\ Len(scopes'[f]) = Len(scopes[f]) + 1 /\ Len(scopes[f]) \in Nat
      /\ scopes'[f][Len(scopes[f]) + 1] = s
      /\ \A i \in 1 .. Len(scopes[f]) : scopes'[f][i] = scopes[f][i]
  BY OpenedScope DEF IInv
<1>2. \A g \in Flows : Len(scopes[g]) \in Nat
  BY DEF IInv, TypeOK
<1>3. \A g \in Flows : scopes'[g] # <<>> => Active(g)'
  BY <1>1 DEF ScopeInv, Active
<1>4. ASSUME NEW u \in Uow, HasScope(u)
      PROVE  HasScope(u)'
  <2>1. \A g \in Flows : /\ Len(scopes'[g]) \in Nat /\ Len(scopes[g]) \in Nat
                         /\ Len(scopes[g]) <= Len(scopes'[g])
    <3> TAKE g \in Flows
    <3>1. CASE g = f
      BY <1>1, <3>1
    <3>2. CASE g # f
      BY <1>1, <1>2, <3>2
    <3>3. QED
      BY <3>1, <3>2
  <2>2. \A g \in Flows : \A i \in 1 .. Len(scopes[g]) : scopes'[g][i] = scopes[g][i]
    BY <1>1
  <2>3. QED
    BY <1>4, <2>1, <2>2, ScopesStay
<1>5. ASSUME s.kind = "uow", NEW u \in Uow, u = s.uow
      PROVE  HasScope(u)'
  <2>1. PICK n \in 1 .. Len(scopes'[f]) : scopes'[f][n] = s
    BY <1>1
  <2>2. IsUow(f, n)' /\ (scopes[f][n].uow)' = s.uow
    BY <1>5, <2>1 DEF IsUow
  <2>3. QED
    BY <1>5, <2>2 DEF HasScope
<1>6. QED
  BY <1>3, <1>4, <1>5

LEMMA MarkKeepsScopes ==
  ASSUME IInv, ScopeInv, NEW f \in Flows, NEW k \in Pending(f), MarkDone(f, k)
  PROVE  /\ \A g \in Flows : scopes'[g] # <<>> => scopes[g] # <<>>
         /\ \A u \in Uow : HasScope(u) => HasScope(u)'
<1>1. /\ \A g \in Flows \ {f} : scopes'[g] = scopes[g]
      /\ Len(scopes'[f]) = Len(scopes[f]) /\ Len(scopes[f]) \in Nat
      /\ k \in 1 .. Len(scopes[f]) /\ scopes'[f][k].done
      /\ \A i \in 1 .. Len(scopes[f]) :
           /\ scopes'[f][i].uow = scopes[f][i].uow /\ scopes'[f][i].kind = scopes[f][i].kind
           /\ i # k => scopes'[f][i] = scopes[f][i]
  <2>1. TypeOK
    BY DEF IInv
  <2>2. QED
    BY <2>1, MarkedScope
<1>2. \A g \in Flows : Len(scopes[g]) \in Nat /\ Len(scopes'[g]) = Len(scopes[g])
  BY <1>1 DEF IInv, TypeOK
<1>3. scopes[f] # <<>>
  BY <1>1
<1>4. \A g \in Flows : \A i \in 1 .. Len(scopes[g]) :
         scopes'[g][i].uow = scopes[g][i].uow /\ scopes'[g][i].kind = scopes[g][i].kind
  BY <1>1
<1>5. \A u \in Uow : HasScope(u) => HasScope(u)'
  BY <1>2, <1>4, ScopesStay
<1>6. QED
  BY <1>1, <1>3, <1>5

LEMMA CloseKeepsScopes ==
  ASSUME IInv, ScopeInv, NEW f \in Flows, scopes[f] # <<>>, Close(f)
  PROVE  /\ \A g \in Flows : scopes'[g] # <<>> => scopes[g] # <<>>
         /\ \A u \in Uow : HasScope(u) =>
              HasScope(u)' \/ (Innermost(f).kind = "uow" /\ Innermost(f).uow = u)
<1>1. /\ \A g \in Flows \ {f} : scopes'[g] = scopes[g]
      /\ Len(scopes'[f]) = Len(scopes[f]) - 1 /\ Len(scopes[f]) \in Nat \ {0}
      /\ \A i \in 1 .. Len(scopes[f]) - 1 : scopes'[f][i] = scopes[f][i]
  BY ClosedScope DEF IInv
<1>2. ASSUME NEW u \in Uow, HasScope(u), ~(Innermost(f).kind = "uow" /\ Innermost(f).uow = u)
      PROVE  HasScope(u)'
  <2>1. PICK g \in Flows : \E i \in 1 .. Len(scopes[g]) : IsUow(g, i) /\ scopes[g][i].uow = u
    BY <1>2 DEF HasScope
  <2>p. PICK i \in 1 .. Len(scopes[g]) : IsUow(g, i) /\ scopes[g][i].uow = u
    BY <2>1
  <2>2. i \in 1 .. Len(scopes'[g]) /\ scopes'[g][i] = scopes[g][i]
    <3>1. CASE g = f
      <4>1. i # Len(scopes[f])
        BY <1>2, <2>p, <3>1 DEF Innermost, IsUow
      <4>2. QED
        BY <1>1, <2>1, <3>1, <4>1
    <3>2. CASE g # f
      BY <1>1, <2>1, <3>2
    <3>3. QED
      BY <3>1, <3>2
  <2>3. IsUow(g, i)'
    BY <2>p, <2>2 DEF IsUow
  <2>4. QED
    BY <2>p, <2>2, <2>3 DEF HasScope
<1>3. QED
  BY <1>1, <1>2

LEMMA StepScopes == ScopeInv /\ IInv /\ [Next]_vars => ScopeInv'
<1> SUFFICES ASSUME ScopeInv, IInv, [Next]_vars
             PROVE  ScopeInv'
  OBVIOUS
<1>0. nuow \in Nat /\ \A u \in Uow : u \in Nat
  BY DEF IInv, TypeOK, Uow, UowOrNull
\* It is enough to look at the scopes, and at the units of work that change.
<1>a. ASSUME nuow' = nuow, \A g \in Flows : scopes'[g] # <<>> => Active(g)',
             \A u \in Uow : u > nuow => disposed'[u] = disposed[u],
             \A u \in Uow : phase'[u] # "none" /\ ~disposed'[u] => HasScope(u)'
      PROVE  ScopeInv'
  BY <1>a DEF ScopeInv, HasScope
<1>s. \A u \in Uow : phase[u] # "none" /\ ~disposed[u] => HasScope(u)
  BY DEF ScopeInv, HasScope
<1>c. ASSUME NEW f \in Flows, CanStep(f)
      PROVE  Active(f)
  BY <1>c DEF CanStep, Active
<1>1. CASE UNCHANGED vars
  BY <1>1 DEF vars, ScopeInv, Active, IsUow
<1>2. ASSUME NEW f \in Flows, StartRequest(f) \/ ReadCurrent(f)
      PROVE  ScopeInv'
  <2>1. \A g \in Flows : Active(g) => Active(g)'
    BY <1>2 DEF StartRequest, ReadCurrent, Active, IInv, TypeOK
  <2>2. scopes' = scopes /\ nuow' = nuow /\ phase' = phase /\ disposed' = disposed
    BY <1>2 DEF StartRequest, ReadCurrent, uowVars
  <2>3. QED
    BY <2>1, <2>2 DEF ScopeInv, IsUow
<1>3. ASSUME NEW f \in Flows, NEW g \in Flows, Call(f, g)
      PROVE  ScopeInv'
  <2>1. \A h \in Flows : Active(h) => Active(h)'
    BY <1>3 DEF Call, Active, IInv, TypeOK
  <2>2. scopes' = scopes /\ nuow' = nuow /\ phase' = phase /\ disposed' = disposed
    BY <1>3 DEF Call, uowVars
  <2>3. QED
    BY <2>1, <2>2 DEF ScopeInv, IsUow
<1>4. ASSUME NEW f \in Flows, Return(f)
      PROVE  ScopeInv'
  <2>1. \A h \in Flows : Active(h) /\ h # f => Active(h)'
    BY <1>4 DEF Return, Active, IInv, TypeOK
  <2>2. scopes' = scopes /\ nuow' = nuow /\ phase' = phase /\ disposed' = disposed
        /\ scopes[f] = <<>>
    BY <1>4 DEF Return, uowVars
  <2>3. QED
    BY <2>1, <2>2 DEF ScopeInv, IsUow
<1>5. ASSUME NEW f \in Flows, BeginJoin(f)
      PROVE  ScopeInv'
  <2> DEFINE s == [kind |-> IF option[Current(f)] = "Suppress" THEN "joinSuppress" ELSE "join",
                   uow |-> Current(f), done |-> FALSE]
  <2>1. s \in Scope
    <3>1. Current(f) \in Uow
      BY <1>5 DEF BeginJoin, Current, Inside, IInv, TypeOK, NoUow, Uow, UowOrNull
    <3>2. QED
      BY <3>1 DEF Scope, ScopeKind
  <2>2. Open(f, s) /\ Active(f) /\ status' = status /\ nuow' = nuow /\ phase' = phase
        /\ disposed' = disposed
    BY <1>5, <1>c DEF BeginJoin, uowVars
  <2> HIDE DEF s
  <2>3. QED
    BY <1>a, <1>s, <2>1, <2>2, OpenKeepsScopes
<1>6. ASSUME NEW f \in Flows, NEW opt \in Options, BeginNew(f, opt)
      PROVE  ScopeInv'
  <2>0. PICK u \in Uow : u = nuow + 1
    BY <1>6 DEF BeginNew, IInv, TypeOK, Uow, UowOrNull
  <2> DEFINE s == [kind |-> "uow", uow |-> u, done |-> FALSE]
  <2>1. /\ Open(f, s) /\ Active(f) /\ status' = status /\ nuow' = u /\ disposed' = disposed
        /\ phase' = [phase EXCEPT ![u] = "active"]
    BY <1>6, <1>c, <2>0 DEF BeginNew
  <2>2. s \in Scope /\ s.kind = "uow" /\ s.uow = u
    BY DEF Scope, ScopeKind
  <2> HIDE DEF s
  <2>3. /\ \A g \in Flows : scopes'[g] # <<>> => Active(g)'
        /\ \A v \in Uow : HasScope(v) => HasScope(v)'
        /\ HasScope(u)'
    BY <2>1, <2>2, OpenKeepsScopes
  <2>4. \A v \in Uow : v # u => phase'[v] = phase[v]
    BY <2>1 DEF IInv, TypeOK
  <2>5. \A v \in Uow : phase'[v] # "none" /\ ~disposed'[v] => HasScope(v)'
    BY <1>s, <2>1, <2>3, <2>4
  <2>6. \A v \in Uow : v > nuow' => ~disposed'[v]
    BY <1>0, <2>0, <2>1 DEF ScopeInv
  <2>7. QED
    BY <2>3, <2>5, <2>6 DEF ScopeInv, HasScope
<1>7. ASSUME NEW f \in Flows, CompleteJoined(f)
      PROVE  ScopeInv'
  <2>1. PICK k \in Pending(f) : MarkDone(f, k)
    BY <1>7 DEF CompleteJoined
  <2>2. status' = status /\ nuow' = nuow /\ phase' = phase /\ disposed' = disposed
    BY <1>7 DEF CompleteJoined, uowVars
  <2>3. QED
    BY <1>a, <1>s, <2>1, <2>2, MarkKeepsScopes DEF ScopeInv, Active
<1>8. ASSUME NEW f \in Flows, CompleteStart(f)
      PROVE  ScopeInv'
  <2>1. PICK k \in Pending(f) :
          /\ phase[scopes[f][k].uow] = "active" /\ MarkDone(f, k)
          /\ phase' = [phase EXCEPT ![scopes[f][k].uow] = "completing"]
    BY <1>8 DEF CompleteStart
  <2>2. nuow' = nuow /\ disposed' = disposed /\ \A g \in Flows : Active(g) => Active(g)'
    BY <1>8 DEF CompleteStart, Active, IInv, TypeOK
  <2>3. \A u \in Uow : phase'[u] # "none" => phase[u] # "none"
    BY <2>1 DEF IInv, TypeOK
  <2>4. QED
    BY <1>a, <1>s, <2>1, <2>2, <2>3, MarkKeepsScopes DEF ScopeInv
<1>9. ASSUME NEW f \in Flows, NEW result, NEW h, CompleteEnd(f, result, h)
      PROVE  ScopeInv'
  <2>1. PICK v \in Uow : phase[v] = "completing" /\ phase' = [phase EXCEPT ![v] = result]
    BY <1>9 DEF CompleteEnd, Completing
  <2>2. nuow' = nuow /\ disposed' = disposed /\ scopes' = scopes
        /\ \A g \in Flows : Active(g) => Active(g)'
    BY <1>9 DEF CompleteEnd, Active, IInv, TypeOK
  <2>3. \A u \in Uow : phase'[u] # "none" => phase[u] # "none"
    BY <2>1 DEF IInv, TypeOK
  <2>4. QED
    BY <2>2, <2>3 DEF ScopeInv, IsUow
<1>10. ASSUME NEW f \in Flows, CompleteSucceeds(f) \/ CompleteFails(f) \/ PublishFails(f)
       PROVE  ScopeInv'
  BY <1>9, <1>10 DEF CompleteSucceeds, CompleteFails, PublishFails
<1>11. ASSUME NEW f \in Flows, DisposeJoined(f)
       PROVE  ScopeInv'
  <2>1. /\ scopes[f] # <<>> /\ Close(f) /\ Innermost(f).kind # "uow"
        /\ status' = status /\ nuow' = nuow /\ phase' = phase /\ disposed' = disposed
    BY <1>11 DEF DisposeJoined, uowVars
  <2>2. QED
    BY <1>a, <1>s, <2>1, CloseKeepsScopes DEF ScopeInv, Active
<1>12. ASSUME NEW f \in Flows, DisposeUow(f)
       PROVE  ScopeInv'
  <2>1. /\ scopes[f] # <<>> /\ Close(f) /\ status' = status /\ nuow' = nuow /\ phase' = phase
        /\ disposed' = [disposed EXCEPT ![Innermost(f).uow] = TRUE]
    BY <1>12 DEF DisposeUow
  <2>2. Innermost(f).uow \in Uow /\ Innermost(f).uow <= nuow
    <3>1. scopes[f] \in Seq(Scope)
      BY DEF IInv, TypeOK
    <3>2. Len(scopes[f]) \in 1 .. Len(scopes[f])
      BY <2>1, <3>1, EmptySeq
    <3>3. QED
      BY <3>2, ScopeTypes DEF Innermost, IInv, CreatedInv
  <2>3. \A u \in Uow : disposed'[u] = (disposed[u] \/ u = Innermost(f).uow)
    BY <2>1, <2>2 DEF IInv, TypeOK
  <2>4. \A u \in Uow : u > nuow => disposed'[u] = disposed[u]
    <3>1. \A u \in Uow : u > nuow => u # Innermost(f).uow
      BY <1>0, <2>2
    <3>2. QED
      BY <2>1, <3>1 DEF IInv, TypeOK
  <2>5. \A u \in Uow : HasScope(u) => HasScope(u)' \/ disposed'[u]
    BY <2>1, <2>3, CloseKeepsScopes
  <2>6. \A g \in Flows : scopes'[g] # <<>> => Active(g)'
    BY <2>1, CloseKeepsScopes DEF ScopeInv, Active
  <2>7. QED
    BY <1>a, <1>s, <2>1, <2>3, <2>4, <2>5, <2>6
<1>13. QED
  BY <1>1, <1>2, <1>3, <1>4, <1>5, <1>6, <1>7, <1>8, <1>10, <1>11, <1>12 DEF Next, FrameStep

\* NothingLeftUndisposed: however frames interleave and whatever throws, a unit of work
\* that is not disposed has an open scope in a frame of its request that is not over.
THEOREM NothingStaysOpen == Spec => []NothingLeftUndisposed
<1>1. Init => IInv /\ ScopeInv
  <2> SUFFICES ASSUME Init PROVE ScopeInv
    BY InitInv
  <2>1. QED
    BY DEF Init, ScopeInv
<1>2. IInv /\ ScopeInv /\ [Next]_vars => IInv' /\ ScopeInv'
  BY NextInv, StepScopes
<1>3. IInv /\ ScopeInv => NothingLeftUndisposed
  <2> SUFFICES ASSUME IInv, ScopeInv, NEW u \in Uow, phase[u] # "none", ~disposed[u]
               PROVE  \E f \in Flows : request[f] = owner[u]
                                       /\ status[f] \in {"running", "completing"}
    BY DEF NothingLeftUndisposed
  <2>1. PICK f \in Flows : \E i \in 1 .. Len(scopes[f]) : IsUow(f, i) /\ scopes[f][i].uow = u
    BY DEF ScopeInv
  <2>2. Active(f)
    BY <2>1, ScopeTypes DEF IInv, ScopeInv
  <2>3. request[f] = owner[u]
    BY <2>1 DEF IInv, OwnedInv
  <2>4. QED
    BY <2>2, <2>3 DEF Active
<1>4. QED
  BY <1>1, <1>2, <1>3, PTL DEF Spec

-----------------------------------------------------------------------------
(* The executing frame is the deepest of its request.                      *)

Leaf(f) == Active(f) /\ ~HasRunningCallee(f)

LEMMA LocalFacts ==
  ASSUME IInv, NEW f \in Flows
  PROVE  /\ local[f] \in UowOrNull
         /\ local[f] # NoUow =>
              local[f] \in Uow /\ local[f] <= nuow /\ owner[local[f]] = request[f]
<1>1. local[f] \in UowOrNull /\ local[f] <= nuow
  BY DEF IInv, TypeOK, CreatedInv
<1>2. local[f] # NoUow => local[f] \in Uow
  BY <1>1 DEF NoUow, Uow, UowOrNull
<1>3. local[f] # NoUow => owner[local[f]] = request[f]
  BY DEF IInv, OwnedInv
<1>4. QED
  BY <1>1, <1>2, <1>3

LEMMA LeafIsDeepest ==
  ASSUME IInv, NEW d \in [Flows -> Nat], StackInv(d), NEW f \in Flows, Leaf(f)
  PROVE  \A g \in Flows : Active(g) /\ request[g] = request[f] /\ g # f =>
           d[g] < d[f] /\ HasRunningCallee(g)
<1> SUFFICES ASSUME NEW g \in Flows, Active(g), request[g] = request[f], g # f
             PROVE  d[g] < d[f] /\ HasRunningCallee(g)
  OBVIOUS
<1>1. d[f] # d[g] /\ ~(d[f] < d[g])
  <2>1. ~\E h \in Flows : Active(h) /\ h # f /\ parent[h] = f
    BY DEF Leaf, HasRunningCallee, Active
  <2>2. QED
    BY <2>1 DEF StackInv, Leaf
<1>2. d[f] \in Nat /\ d[g] \in Nat
  OBVIOUS
<1>3. d[g] < d[f]
  BY <1>1, <1>2
<1>4. \E h \in Flows : Active(h) /\ h # g /\ parent[h] = g
  BY <1>3 DEF StackInv, Leaf
<1>5. QED
  BY <1>3, <1>4 DEF HasRunningCallee, Active

\* A live unit of work has a scope in an active frame of its request.
LEMMA LiveScope ==
  ASSUME IInv, ScopeInv, NEW u \in Uow, Live(u)
  PROVE  \E f \in Flows : /\ Active(f) /\ request[f] = owner[u]
                          /\ \E i \in 1 .. Len(scopes[f]) : IsUow(f, i) /\ scopes[f][i].uow = u
<1>1. PICK f \in Flows : \E i \in 1 .. Len(scopes[f]) : IsUow(f, i) /\ scopes[f][i].uow = u
  BY DEF ScopeInv, Live
<1>2. PICK i \in 1 .. Len(scopes[f]) : IsUow(f, i) /\ scopes[f][i].uow = u
  BY <1>1
<1>3. scopes[f] # <<>> /\ request[f] = owner[u]
  BY <1>2, ScopeTypes DEF IInv, OwnedInv
<1>4. QED
  BY <1>1, <1>3 DEF ScopeInv

\* Each unit of work has one scope.
LEMMA UniqueScope ==
  ASSUME IInv, ScopeInv, NEW d \in [Flows -> Nat], StackInv(d), OrderInv(d),
         NEW f \in Flows, NEW g \in Flows,
         NEW i \in 1 .. Len(scopes[f]), NEW j \in 1 .. Len(scopes[g]),
         IsUow(f, i), IsUow(g, j), scopes[f][i].uow = scopes[g][j].uow
  PROVE  f = g /\ i = j
<1>1. request[f] = request[g]
  BY DEF IInv, OwnedInv
<1>2. scopes[f][i].uow \in Nat /\ scopes[f] # <<>> /\ scopes[g] # <<>>
  BY ScopeTypes DEF IInv, Uow
<1>3. Active(f) /\ Active(g)
  BY <1>2 DEF ScopeInv
<1>4. ~(d[f] < d[g]) /\ ~(d[g] < d[f])
  BY <1>1, <1>2 DEF OrderInv
<1>5. d[f] \in Nat /\ d[g] \in Nat
  OBVIOUS
<1>6. f = g
  BY <1>1, <1>3, <1>4, <1>5 DEF StackInv
<1>7. ~(i < j) /\ ~(j < i)
  BY <1>1, <1>2, <1>6 DEF OrderInv
<1>8. QED
  BY <1>6, <1>7

\* Where the scopes of the executing frame f above the i-th have ended, the i-th is the
\* youngest that may be live.
LEMMA YoungestLive ==
  ASSUME IInv, ScopeInv, NEW d \in [Flows -> Nat], StackInv(d), OrderInv(d),
         NEW f \in Flows, Leaf(f), NEW i \in 1 .. Len(scopes[f]), IsUow(f, i),
         \A j \in 1 .. Len(scopes[f]) : j > i /\ IsUow(f, j) => ~Live(scopes[f][j].uow)
  PROVE  \A x \in Uow : Live(x) /\ owner[x] = request[f] => x <= scopes[f][i].uow
<1> SUFFICES ASSUME NEW x \in Uow, Live(x), owner[x] = request[f]
             PROVE  x <= scopes[f][i].uow
  OBVIOUS
<1>1. PICK g \in Flows : /\ Active(g) /\ request[g] = owner[x]
                         /\ \E j \in 1 .. Len(scopes[g]) : IsUow(g, j) /\ scopes[g][j].uow = x
  BY LiveScope
<1>2. PICK j \in 1 .. Len(scopes[g]) : IsUow(g, j) /\ scopes[g][j].uow = x
  BY <1>1
<1>3. x \in Nat /\ scopes[f][i].uow \in Nat
  BY ScopeTypes DEF IInv, Uow
<1>4. CASE g # f
  <2>1. d[g] < d[f]
    BY <1>1, <1>4, LeafIsDeepest
  <2>2. QED
    BY <1>1, <1>2, <1>3, <2>1 DEF OrderInv
<1>5. CASE g = f
  <2>1. ~(j > i)
    BY <1>2, <1>5
  <2>2. j = i \/ j < i
    BY <2>1
  <2>3. QED
    BY <1>2, <1>3, <1>5, <2>2 DEF OrderInv
<1>6. QED
  BY <1>4, <1>5

-----------------------------------------------------------------------------
(* Steps of the executing frame that neither start nor end a frame.        *)

\* The wrapper that f leaves when it takes another one.
Leaves(f) ==
  LET y == IF local[f] = NoUow THEN NoUow ELSE held'[local[f]] IN
  \/ y = NoUow
  \/ outer'[y] = NoUow /\ disposed'[y]
  \/ outer'[y] = NoUow /\ \E i \in 1 .. Len(scopes'[f]) : IsUow(f, i)' /\ scopes'[f][i].uow = y

LeafStep(f) ==
  /\ request' = request /\ parent' = parent /\ nuow <= nuow' /\ nuow' \in Nat
  /\ \A g \in Flows : Active(g)' <=> Active(g)
  /\ \A g \in Flows : status'[g] = "idle" <=> status[g] = "idle"
  /\ \A g \in Flows : status'[g] = "completing" => status[g] = "completing" \/ g = f
  /\ \A g \in Flows : g # f => local'[g] = local[g] /\ scopes'[g] = scopes[g]
  /\ local'[f] \in {local[f], NoUow, nuow + 1}
  /\ local'[f] # local[f] => Leaves(f)
  /\ \A w \in Uow : w <= nuow /\ w # local[f] => held'[w] = held[w]
  /\ \A x \in Uow : x <= nuow =>
       /\ outer'[x] = outer[x]
       /\ disposed[x] => disposed'[x]
       /\ owner[x] # request[f] => phase'[x] = phase[x] /\ disposed'[x] = disposed[x]
  /\ \A i \in 1 .. Len(scopes[f]) : IsUow(f, i) =>
       \/ i \in 1 .. Len(scopes'[f]) /\ IsUow(f, i)' /\ scopes'[f][i].uow = scopes[f][i].uow
       \/ disposed'[scopes[f][i].uow]

LEMMA StackKept ==
  ASSUME IInv, NEW d \in [Flows -> Nat], StackInv(d), NEW f \in Flows, Leaf(f), LeafStep(f)
  PROVE  /\ StackInv(d)'
         /\ \A g \in Flows : HasRunningCallee(g)' <=> HasRunningCallee(g)
<1>1. \A g \in Flows : HasRunningCallee(g)' <=> HasRunningCallee(g)
  BY DEF HasRunningCallee, Active, LeafStep
<1>2. \A g \in Flows : status'[g] = "completing" => ~HasRunningCallee(g)
  BY DEF StackInv, Leaf, LeafStep
<1>3. QED
  BY <1>1, <1>2 DEF StackInv, LeafStep

\* What a wrapper of another request holds is not touched.
LEMMA LeafKept ==
  ASSUME IInv, NEW d \in [Flows -> Nat], StackInv(d), LeafInv,
         NEW f \in Flows, Leaf(f), LeafStep(f), Fresh(Inside(local[f]))'
  PROVE  LeafInv'
<1> SUFFICES ASSUME NEW g \in Flows, Active(g)', ~HasRunningCallee(g)'
             PROVE  Fresh(Inside(local[g]))'
  BY DEF LeafInv
<1>1. CASE g = f
  BY <1>1
<1>2. CASE g # f
  <2>1. Active(g) /\ ~HasRunningCallee(g)
    BY StackKept DEF LeafStep
  <2>2. request[g] # request[f]
    BY <1>2, <2>1, LeafIsDeepest
  <2>3. Fresh(Inside(local[g])) /\ local'[g] = local[g]
    BY <1>2, <2>1 DEF LeafInv, LeafStep
  <2>4. CASE local[g] = NoUow
    BY <2>3, <2>4 DEF Fresh, Inside
  <2>5. CASE local[g] # NoUow
    <3>1. /\ local[g] \in Uow /\ local[g] <= nuow /\ owner[local[g]] = request[g]
          /\ local[f] # NoUow => owner[local[f]] = request[f]
      BY <2>5, LocalFacts
    <3>2. local[f] # local[g]
      BY <2>2, <2>5, <3>1
    <3>3. held'[local[g]] = held[local[g]]
      BY <3>1, <3>2 DEF LeafStep
    <3>4. PICK x \in UowOrNull : x = held[local[g]]
      BY <3>1 DEF IInv, TypeOK
    <3>5. Inside(local[g]) = x /\ Inside(local[g])' = x
      BY <2>3, <2>5, <3>3, <3>4 DEF Inside
    <3>6. CASE x = NoUow
      BY <3>5, <3>6 DEF Fresh
    <3>7. CASE x # NoUow
      <4>1. x \in Uow /\ x <= nuow /\ owner[x] = request[g]
        BY <3>1, <3>4, <3>7 DEF IInv, CreatedInv, OwnedInv, NoUow, Uow, UowOrNull
      <4>2. /\ phase'[x] = phase[x] /\ disposed'[x] = disposed[x] /\ outer'[x] = outer[x]
        BY <2>2, <4>1 DEF LeafStep
      <4>3. Fresh(x)
        BY <2>3, <3>5
      <4>4. Fresh(x)'
        BY <4>2, <4>3 DEF Fresh, Live
      <4>5. QED
        BY <3>5, <4>4 DEF Fresh, Live
    <3>8. QED
      BY <3>6, <3>7
  <2>6. QED
    BY <2>4, <2>5
<1>3. QED
  BY <1>1, <1>2

\* A frame whose callees have another wrapper keeps what is in its own.
LEMMA FrozenKept ==
  ASSUME IInv, ScopeInv, NEW d \in [Flows -> Nat], StackInv(d),
         NEW f \in Flows, Leaf(f), LeafStep(f),
         NEW a \in Flows, Active(a), a # f, request[a] = request[f],
         local[a] # local[f] \/ local[a] = NoUow, Frozen(a, d)
  PROVE  Frozen(a, d)'
<1>1. local'[a] = local[a]
  BY DEF LeafStep
<1>2. CASE local[a] = NoUow
  BY <1>1, <1>2 DEF Frozen, Inside
<1>3. CASE local[a] # NoUow
  <2>1. local[a] \in Uow /\ local[a] <= nuow
    BY <1>3 DEF IInv, TypeOK, CreatedInv, NoUow, Uow, UowOrNull
  <2>2. held'[local[a]] = held[local[a]]
    BY <1>3, <2>1 DEF LeafStep
  <2>3. PICK x \in UowOrNull : x = held[local[a]]
    BY <2>1 DEF IInv, TypeOK
  <2>4. Inside(local[a]) = x /\ Inside(local[a])' = x
    BY <1>1, <1>3, <2>2, <2>3 DEF Inside
  <2>5. CASE x = NoUow
    BY <2>4, <2>5 DEF Frozen
  <2>6. CASE x # NoUow
    <3>1. x \in Uow /\ x <= nuow
      BY <2>1, <2>3, <2>6 DEF IInv, CreatedInv, NoUow, Uow, UowOrNull
    <3>2. outer'[x] = outer[x] /\ outer[x] = NoUow /\ (disposed[x] => disposed'[x])
      BY <2>4, <2>6, <3>1 DEF LeafStep, Frozen
    <3>3. CASE disposed[x]
      BY <2>4, <3>2, <3>3 DEF Frozen
    <3>4. CASE ~disposed[x]
      <4>1. PICK h \in Flows : /\ Active(h) /\ request[h] = request[a] /\ d[h] > d[a]
                               /\ \E i \in 1 .. Len(scopes[h]) :
                                    IsUow(h, i) /\ scopes[h][i].uow = x
        BY <2>4, <2>6, <3>4 DEF Frozen
      <4>2. PICK i \in 1 .. Len(scopes[h]) : IsUow(h, i) /\ scopes[h][i].uow = x
        BY <4>1
      <4>3. Active(h)' /\ request'[h] = request'[a]
        BY <4>1 DEF LeafStep
      <4>4. \/ i \in 1 .. Len(scopes'[h]) /\ IsUow(h, i)' /\ scopes'[h][i].uow = x
            \/ disposed'[x]
        BY <4>2 DEF LeafStep, IsUow
      <4>5. QED
        BY <2>4, <3>2, <4>1, <4>3, <4>4 DEF Frozen
    <3>5. QED
      BY <3>3, <3>4
  <2>7. QED
    BY <2>5, <2>6
<1>4. QED
  BY <1>2, <1>3

LEMMA WrapperKept ==
  ASSUME IInv, ScopeInv, NEW d \in [Flows -> Nat], StackInv(d), WrapperInv(d),
         NEW f \in Flows, Leaf(f), LeafStep(f)
  PROVE  WrapperInv(d)'
<1>1. \A g \in Flows : (Active(g)' <=> Active(g)) /\ request'[g] = request[g]
  BY DEF LeafStep
<1>2. \A g \in Flows : g # f => local'[g] = local[g]
  BY DEF LeafStep
<1>3. \A g \in Flows : local[g] # nuow + 1 /\ local[g] \in UowOrNull
  BY DEF IInv, TypeOK, CreatedInv, UowOrNull
<1>4. \A g \in Flows : Active(g) /\ request[g] = request[f] /\ g # f => d[g] < d[f]
  BY LeafIsDeepest
<1>5. d[f] \in Nat /\ \A g \in Flows : d[g] \in Nat
  OBVIOUS
\* A frame above g is not f, and if it left g another wrapper, f does not have that one.
<1>6. ASSUME NEW a \in Flows, NEW g \in Flows, Active(a), Active(g),
             request[a] = request[g], d[a] < d[g]
      PROVE  /\ a # f
             /\ Frozen(a, d) /\ local[a] # local[g] => Frozen(a, d)'
  <2>1. a # f
    BY <1>4, <1>5, <1>6
  <2>2. ASSUME Frozen(a, d), local[a] # local[g]
        PROVE  Frozen(a, d)'
    <3>1. CASE request[a] = request[f]
      <4>1. g = f \/ d[g] < d[f]
        BY <1>4, <1>6, <3>1
      <4>2. local[a] # local[f] \/ local[a] = NoUow
        BY <1>6, <2>2, <3>1, <4>1 DEF WrapperInv, Leaf
      <4>3. QED
        BY <1>6, <2>1, <2>2, <3>1, <4>2, FrozenKept
    <3>2. CASE request[a] # request[f]
      <4>1. CASE local[a] = NoUow
        BY <1>2, <2>1, <4>1 DEF Frozen, Inside
      <4>2. CASE local[a] # NoUow
        <5>1. /\ local[a] \in Uow /\ local[a] <= nuow /\ owner[local[a]] = request[a]
              /\ local[f] # NoUow => owner[local[f]] = request[f]
          BY <4>2, LocalFacts
        <5>2. held'[local[a]] = held[local[a]] /\ held[local[a]] \in UowOrNull
          BY <3>2, <4>2, <5>1 DEF LeafStep, IInv, TypeOK
        <5>3. PICK x \in UowOrNull : x = Inside(local[a]) /\ x = held[local[a]]
          BY <4>2, <5>2 DEF Inside
        <5>4. Inside(local[a])' = x
          BY <1>2, <2>1, <4>2, <5>2, <5>3 DEF Inside
        <5>5. CASE x = NoUow
          BY <5>4, <5>5 DEF Frozen
        <5>6. CASE x # NoUow
          <6>1. x \in Uow /\ x <= nuow
            BY <5>1, <5>3, <5>6 DEF IInv, CreatedInv, NoUow, Uow, UowOrNull
          <6>2. outer'[x] = outer[x] /\ (disposed[x] => disposed'[x])
            BY <6>1 DEF LeafStep
          <6>3. \A h \in Flows : request[h] = request[a] =>
                  Active(h)' = Active(h) /\ request'[h] = request'[a] /\ scopes'[h] = scopes[h]
            BY <3>2 DEF LeafStep, Active
          <6>4. \A h \in Flows : request[h] = request[a] =>
                  \A i \in 1 .. Len(scopes[h]) : IsUow(h, i)' <=> IsUow(h, i)
            BY <6>3 DEF IsUow
          <6>5. outer[x] = NoUow /\ (disposed[x] \/
                  \E h \in Flows : /\ Active(h) /\ request[h] = request[a] /\ d[h] > d[a]
                                   /\ \E i \in 1 .. Len(scopes[h]) :
                                        IsUow(h, i) /\ scopes[h][i].uow = x)
            BY <2>2, <5>3, <5>6 DEF Frozen
          <6>6. QED
            BY <5>4, <6>2, <6>3, <6>4, <6>5 DEF Frozen
        <5>7. QED
          BY <5>5, <5>6
      <4>3. QED
        BY <4>1, <4>2
    <3>3. QED
      BY <3>1, <3>2
  <2>3. QED
    BY <2>1, <2>2
<1>7. ASSUME NEW a \in Flows, NEW g \in Flows, Active(a), Active(g),
             request[a] = request[g], d[a] < d[g]
      PROVE  local'[a] = local'[g] \/ Frozen(a, d)'
  <2>1. local[a] = local[g] \/ Frozen(a, d)
    BY <1>7 DEF WrapperInv
  <2>2. CASE local[a] # local[g]
    BY <1>6, <1>7, <2>1, <2>2
  <2>3. CASE local[a] = local[g] /\ g # f
    BY <1>2, <1>6, <1>7, <2>3
  <2>4. CASE local[a] = local[g] /\ g = f
    <3>1. local'[a] = local[f]
      BY <1>2, <1>6, <1>7, <2>4
    <3>2. CASE local'[f] = local[f]
      BY <2>4, <3>1, <3>2
    <3>3. CASE local'[f] # local[f]
      <4>1. Leaves(f)
        BY <3>3 DEF LeafStep
      <4>2. d[f] > d[a] /\ Active(f)' /\ request'[f] = request'[a]
        BY <1>1, <1>7, <2>4
      <4>3. PICK y : y = IF local[f] = NoUow THEN NoUow ELSE held'[local[f]]
        OBVIOUS
      <4>4. Inside(local[a])' = y
        BY <3>1, <4>3 DEF Inside
      <4>5. \/ y = NoUow
            \/ outer'[y] = NoUow /\ disposed'[y]
            \/ /\ outer'[y] = NoUow
               /\ \E i \in 1 .. Len(scopes'[f]) : IsUow(f, i)' /\ scopes'[f][i].uow = y
        BY <4>1, <4>3 DEF Leaves
      <4>6. QED
        BY <4>2, <4>4, <4>5 DEF Frozen
    <3>4. QED
      BY <3>2, <3>3
  <2>5. QED
    BY <2>2, <2>3, <2>4
<1>8. ASSUME NEW a \in Flows, NEW g \in Flows, NEW h \in Flows, Active(a), Active(g), Active(h),
             request[a] = request[g], request[h] = request[g], d[a] < d[g], d[g] < d[h],
             local'[a] = local'[h], local'[a] # NoUow
      PROVE  local'[a] = local'[g]
  <2>1. a # f /\ g # f
    BY <1>6, <1>8
  <2>2. local'[a] = local[a] /\ local'[g] = local[g]
    BY <1>2, <2>1
  <2>3. local'[h] = local[h]
    <3>1. CASE h # f
      BY <1>2, <3>1
    <3>2. CASE h = f
      BY <1>3, <1>8, <2>2, <3>2 DEF LeafStep
    <3>3. QED
      BY <3>1, <3>2
  <2>4. QED
    BY <1>8, <2>2, <2>3 DEF WrapperInv
<1>9. QED
  BY <1>1, <1>7, <1>8 DEF WrapperInv

LEMMA OrderKept ==
  ASSUME NEW d, OrderInv(d), request' = request,
         \A g \in Flows : \A i \in 1 .. Len(scopes'[g]) : IsUow(g, i)' =>
           IsUow(g, i) /\ scopes'[g][i].uow = scopes[g][i].uow
  PROVE  OrderInv(d)'
<1> SUFFICES ASSUME NEW f \in Flows, NEW g \in Flows, request'[f] = request'[g],
                    NEW i \in 1 .. Len(scopes'[f]), NEW j \in 1 .. Len(scopes'[g]),
                    IsUow(f, i)', IsUow(g, j)', d[f] < d[g] \/ (f = g /\ i < j)
             PROVE  scopes'[f][i].uow < scopes'[g][j].uow
  BY DEF OrderInv
<1>1. IsUow(f, i) /\ IsUow(g, j) /\ i \in 1 .. Len(scopes[f]) /\ j \in 1 .. Len(scopes[g])
  BY DEF IsUow
<1>2. scopes'[f][i].uow = scopes[f][i].uow /\ scopes'[g][j].uow = scopes[g][j].uow
  OBVIOUS
<1>3. QED
  BY <1>1, <1>2 DEF OrderInv

\* The parts of SeqInv that a step of the executing frame has to show.
LEMMA LeafStepKeeps ==
  ASSUME IInv, ScopeInv, NEW d \in [Flows -> Nat], SeqInv(d), NEW f \in Flows, Leaf(f),
         LeafStep(f), OrderInv(d)', PhaseInv', OuterInv', Fresh(Inside(local[f]))'
  PROVE  SeqInv(d)'
<1>1. StackInv(d) /\ WrapperInv(d) /\ LeafInv
  BY DEF SeqInv
<1>2. StackInv(d)' /\ LeafInv' /\ WrapperInv(d)'
  BY <1>1, StackKept, LeafKept, WrapperKept
<1>3. QED
  BY <1>2 DEF SeqInv

\* Steps that only open, mark or close a scope that joined, or drop a stale wrapper.
LEMMA QuietStepKeeps ==
  ASSUME IInv, ScopeInv, NEW d \in [Flows -> Nat], SeqInv(d), NEW f \in Flows, Leaf(f),
         status' = status, parent' = parent, request' = request,
         nuow' = nuow, phase' = phase, disposed' = disposed, outer' = outer, held' = held,
         local' = local \/ (/\ local' = [local EXCEPT ![f] = NoUow]
                            /\ Inside(local[f]) = NoUow \/ disposed[Inside(local[f])]),
         \A g \in Flows : g # f => scopes'[g] = scopes[g],
         \A i \in Nat : IsUow(f, i)' <=> IsUow(f, i),
         \A i \in Nat : IsUow(f, i) =>
           scopes'[f][i].uow = scopes[f][i].uow /\ scopes'[f][i].done = scopes[f][i].done,
         status[f] # "completing"
  PROVE  SeqInv(d)' /\ LeafStep(f)
<1>1. nuow \in Nat /\ \A g \in Flows : Len(scopes[g]) \in Nat
  BY DEF IInv, TypeOK, UowOrNull
<1>2. \A g \in Flows : \A i \in Nat :
        /\ IsUow(g, i)' <=> IsUow(g, i)
        /\ IsUow(g, i) => /\ scopes'[g][i].uow = scopes[g][i].uow
                          /\ scopes'[g][i].done = scopes[g][i].done
  BY DEF IsUow
<1>3. OrderInv(d)'
  <2>1. \A g \in Flows : \A i \in 1 .. Len(scopes'[g]) : i \in Nat
    OBVIOUS
  <2>2. QED
    BY <1>2, <2>1, OrderKept DEF SeqInv
<1>4. PhaseInv'
  <2> SUFFICES ASSUME NEW g \in Flows, NEW i \in 1 .. Len(scopes'[g]), IsUow(g, i)'
               PROVE  PhaseWell(g, i)'
    BY DEF PhaseInv
  <2>1. i \in Nat /\ IsUow(g, i) /\ i \in 1 .. Len(scopes[g])
    BY <1>2 DEF IsUow
  <2>2. PhaseWell(g, i)
    BY <2>1 DEF SeqInv, PhaseInv
  <2>3. CASE g = f
    <3>1. phase[scopes[g][i].uow] # "completing"
      BY <2>2, <2>3 DEF PhaseWell
    <3>2. QED
      BY <1>2, <2>1, <2>2, <3>1 DEF PhaseWell
  <2>4. CASE g # f
    <3>1. scopes'[g] = scopes[g] /\ \A j \in 1 .. Len(scopes[g]) : IsUow(g, j)' <=> IsUow(g, j)
      BY <2>4 DEF IsUow
    <3>2. QED
      BY <2>2, <3>1 DEF PhaseWell
  <2>5. QED
    BY <2>3, <2>4
<1>5. OuterInv'
  BY DEF SeqInv, OuterInv, Live
<1>6. Fresh(Inside(local[f]))'
  <2>1. Fresh(Inside(local[f])) /\ local \in [Flows -> UowOrNull]
    BY DEF SeqInv, LeafInv, Leaf, IInv, TypeOK
  <2>2. CASE local' = local
    BY <2>1, <2>2 DEF Fresh, Inside, Live
  <2>3. CASE local'[f] = NoUow
    BY <2>3 DEF Fresh, Inside
  <2>4. QED
    BY <2>1, <2>2, <2>3
<1>7. LeafStep(f)
  <2>1. \A g \in Flows : g # f => local'[g] = local[g]
    BY DEF IInv, TypeOK
  <2>2. local'[f] # local[f] => Leaves(f)
    <3>1. Fresh(Inside(local[f]))
      BY DEF SeqInv, LeafInv, Leaf
    <3>2. Inside(local[f]) = IF local[f] = NoUow THEN NoUow ELSE held'[local[f]]
      BY DEF Inside
    <3>3. local'[f] # local[f] =>
            \/ Inside(local[f]) = NoUow
            \/ disposed[Inside(local[f])] /\ outer[Inside(local[f])] = NoUow
      BY <3>1 DEF Fresh, Live
    <3>4. QED
      BY <3>2, <3>3 DEF Leaves
  <2>3. \A i \in 1 .. Len(scopes[f]) : IsUow(f, i) =>
          i \in 1 .. Len(scopes'[f]) /\ IsUow(f, i)' /\ scopes'[f][i].uow = scopes[f][i].uow
    BY <1>2 DEF IsUow
  <2>4. local'[f] \in {local[f], NoUow}
    BY DEF IInv, TypeOK
  <2>5. \A g \in Flows : Active(g)' <=> Active(g)
    BY DEF Active
  <2>6. QED
    BY <1>1, <2>1, <2>2, <2>3, <2>4, <2>5 DEF LeafStep
<1>8. QED
  BY <1>3, <1>4, <1>5, <1>6, <1>7, LeafStepKeeps

LEMMA QuietSteps ==
  ASSUME IInv, ScopeInv, Concurrent = FALSE, NEW d \in [Flows -> Nat], SeqInv(d),
         NEW f \in Flows,
         ReadCurrent(f) \/ BeginJoin(f) \/ CompleteJoined(f) \/ DisposeJoined(f)
  PROVE  SeqInv(d)' /\ LeafStep(f)
<1>1. Leaf(f) /\ status[f] = "running"
  BY DEF ReadCurrent, BeginJoin, CompleteJoined, DisposeJoined, CanStep, Leaf, Active
<1>2. /\ status' = status /\ parent' = parent /\ request' = request
      /\ nuow' = nuow /\ phase' = phase /\ disposed' = disposed /\ outer' = outer /\ held' = held
  BY DEF ReadCurrent, BeginJoin, CompleteJoined, DisposeJoined, uowVars
<1>3. \A g \in Flows : Len(scopes[g]) \in Nat
  BY DEF IInv, TypeOK
<1>4. CASE ReadCurrent(f)
  <2>1. scopes' = scopes /\ local' = [local EXCEPT ![f] = LocalAfterGet(f)] /\ Stale(f)
    BY <1>4 DEF ReadCurrent, LocalAfterGet
  <2>2. local' = [local EXCEPT ![f] = NoUow] /\ disposed[Inside(local[f])]
    BY <2>1 DEF LocalAfterGet, Stale
  <2>3. \A i \in Nat : IsUow(f, i)' <=> IsUow(f, i)
    BY <2>1 DEF IsUow
  <2>4. QED
    BY <1>1, <1>2, <2>1, <2>2, <2>3, QuietStepKeeps
<1>5. CASE BeginJoin(f)
  <2> DEFINE s == [kind |-> IF option[Current(f)] = "Suppress" THEN "joinSuppress" ELSE "join",
                   uow |-> Current(f), done |-> FALSE]
  <2>1. s \in Scope /\ s.kind # "uow"
    <3>1. Current(f) \in Uow
      BY <1>5 DEF BeginJoin, Current, Inside, IInv, TypeOK, NoUow, Uow, UowOrNull
    <3>2. QED
      BY <3>1 DEF Scope, ScopeKind
  <2>2. Open(f, s) /\ local' = local
    BY <1>5 DEF BeginJoin
  <2> HIDE DEF s
  <2>3. /\ \A g \in Flows \ {f} : scopes'[g] = scopes[g]
        /\ Len(scopes'[f]) = Len(scopes[f]) + 1 /\ Len(scopes[f]) \in Nat
        /\ scopes'[f][Len(scopes[f]) + 1] = s
        /\ \A i \in 1 .. Len(scopes[f]) : scopes'[f][i] = scopes[f][i]
    BY <2>1, <2>2, OpenedScope DEF IInv
  <2>4. \A i \in Nat : IsUow(f, i)' <=> IsUow(f, i)
    BY <2>1, <2>3 DEF IsUow
  <2>5. \A i \in Nat : IsUow(f, i) => scopes'[f][i] = scopes[f][i]
    BY <2>3 DEF IsUow
  <2>6. QED
    BY <1>1, <1>2, <2>2, <2>3, <2>4, <2>5, QuietStepKeeps
<1>6. CASE CompleteJoined(f)
  <2>1. PICK k \in Pending(f) : scopes[f][k].kind # "uow" /\ MarkDone(f, k) /\ local' = local
    BY <1>6 DEF CompleteJoined
  <2>2. /\ \A g \in Flows \ {f} : scopes'[g] = scopes[g]
        /\ Len(scopes'[f]) = Len(scopes[f]) /\ Len(scopes[f]) \in Nat
        /\ k \in 1 .. Len(scopes[f]) /\ scopes'[f][k].done
        /\ \A i \in 1 .. Len(scopes[f]) :
             /\ scopes'[f][i].uow = scopes[f][i].uow /\ scopes'[f][i].kind = scopes[f][i].kind
             /\ i # k => scopes'[f][i] = scopes[f][i]
    BY <2>1, MarkedScope DEF IInv
  <2>3. \A i \in Nat : IsUow(f, i)' <=> IsUow(f, i)
    BY <2>2 DEF IsUow
  <2>4. \A i \in Nat : IsUow(f, i) => scopes'[f][i] = scopes[f][i]
    BY <2>1, <2>2 DEF IsUow
  <2>5. QED
    BY <1>1, <1>2, <2>1, <2>2, <2>3, <2>4, QuietStepKeeps
<1>7. CASE DisposeJoined(f)
  <2>1. /\ scopes[f] # <<>> /\ scopes[f][Len(scopes[f])].kind # "uow" /\ Close(f)
        /\ local' = local
    BY <1>7 DEF DisposeJoined, Innermost
  <2>2. /\ \A g \in Flows \ {f} : scopes'[g] = scopes[g]
        /\ Len(scopes'[f]) = Len(scopes[f]) - 1 /\ Len(scopes[f]) \in Nat \ {0}
        /\ \A i \in 1 .. Len(scopes[f]) - 1 : scopes'[f][i] = scopes[f][i]
    BY <2>1, ClosedScope DEF IInv
  <2>3. \A i \in Nat : IsUow(f, i) => i \in 1 .. Len(scopes[f]) - 1
    BY <2>1, <2>2 DEF IsUow
  <2>4. \A i \in Nat : IsUow(f, i)' <=> IsUow(f, i)
    BY <2>2, <2>3 DEF IsUow
  <2>5. \A i \in Nat : IsUow(f, i) => scopes'[f][i] = scopes[f][i]
    BY <2>2, <2>3
  <2>6. QED
    BY <1>1, <1>2, <2>1, <2>2, <2>4, <2>5, QuietStepKeeps
<1>8. QED
  BY <1>4, <1>5, <1>6, <1>7

LEMMA BeginNewKeeps ==
  ASSUME IInv, ScopeInv, Concurrent = FALSE, NEW d \in [Flows -> Nat], SeqInv(d),
         NEW f \in Flows, NEW opt \in Options, BeginNew(f, opt)
  PROVE  SeqInv(d)' /\ LeafStep(f)
<1>0. PICK u \in Uow : u = nuow + 1 /\ u \in Nat /\ nuow \in Nat
  BY DEF BeginNew, IInv, TypeOK, Uow, UowOrNull
<1> DEFINE s == [kind |-> "uow", uow |-> u, done |-> FALSE]
           w == LocalAfterGet(f)
           l == local[f]
<1>1. Leaf(f) /\ status[f] = "running"
  BY DEF BeginNew, CanStep, Leaf, Active
<1>2. /\ status' = status /\ parent' = parent /\ request' = request /\ disposed' = disposed
      /\ nuow' = u /\ phase' = [phase EXCEPT ![u] = "active"]
      /\ PushInto(f, u, w) /\ Open(f, s)
  BY <1>0 DEF BeginNew
<1>3. s \in Scope /\ s.kind = "uow" /\ s.uow = u /\ ~s.done
  BY DEF Scope, ScopeKind
<1> HIDE DEF s
<1>4. /\ \A g \in Flows \ {f} : scopes'[g] = scopes[g]
      /\ Len(scopes'[f]) = Len(scopes[f]) + 1 /\ Len(scopes[f]) \in Nat
      /\ scopes'[f][Len(scopes[f]) + 1] = s
      /\ \A i \in 1 .. Len(scopes[f]) : scopes'[f][i] = scopes[f][i]
  BY <1>2, <1>3, OpenedScope DEF IInv
<1>5. PICK n \in Nat : n = Len(scopes[f]) + 1
  BY <1>4
\* The scopes: f has one more.
<1>6. /\ \A g \in Flows : \A i \in Nat : IsUow(g, i)' <=> IsUow(g, i) \/ (g = f /\ i = n)
      /\ \A g \in Flows : \A i \in Nat : IsUow(g, i) => scopes'[g][i] = scopes[g][i]
      /\ scopes'[f][n] = s /\ ~IsUow(f, n) /\ Len(scopes'[f]) = n
      /\ \A g \in Flows : Len(scopes[g]) \in Nat
  <2>1. \A g \in Flows : Len(scopes[g]) \in Nat
    BY DEF IInv, TypeOK
  <2>2. ASSUME NEW g \in Flows, NEW i \in Nat
        PROVE  /\ IsUow(g, i)' <=> IsUow(g, i) \/ (g = f /\ i = n)
               /\ IsUow(g, i) => scopes'[g][i] = scopes[g][i]
    <3>1. CASE g = f
      BY <1>3, <1>4, <1>5, <3>1 DEF IsUow
    <3>2. CASE g # f
      BY <1>4, <3>2 DEF IsUow
    <3>3. QED
      BY <3>1, <3>2
  <2>3. ~IsUow(f, n)
    BY <1>4, <1>5 DEF IsUow
  <2>4. QED
    BY <1>4, <1>5, <2>1, <2>2, <2>3
<1>7. \A g \in Flows : \A i \in 1 .. Len(scopes[g]) :
        scopes[g][i].uow \in Uow /\ scopes[g][i].uow \in Nat /\ scopes[g][i].uow < u
  <2> TAKE g \in Flows
  <2> TAKE i \in 1 .. Len(scopes[g])
  <2>1. scopes[g][i].uow \in Uow /\ scopes[g][i].uow <= nuow
    BY ScopeTypes DEF IInv, CreatedInv
  <2>2. QED
    BY <1>0, <2>1 DEF Uow
<1>8. \A v \in Uow : v # u => phase'[v] = phase[v]
  BY <1>2 DEF IInv, TypeOK
<1>9. phase'[u] = "active" /\ ~disposed'[u] /\ held[u] = NoUow /\ outer[u] = NoUow
  BY <1>0, <1>2 DEF IInv, TypeOK, CreatedInv, ScopeInv
<1>10. OrderInv(d)'
  <2> SUFFICES ASSUME NEW a \in Flows, NEW g \in Flows, request'[a] = request'[g],
                      NEW i \in 1 .. Len(scopes'[a]), NEW j \in 1 .. Len(scopes'[g]),
                      IsUow(a, i)', IsUow(g, j)', d[a] < d[g] \/ (a = g /\ i < j)
               PROVE  scopes'[a][i].uow < scopes'[g][j].uow
    BY DEF OrderInv
  <2>0. i \in Nat /\ j \in Nat /\ request[a] = request[g]
    BY <1>2
  <2>1. CASE IsUow(g, j)
    <3>1. IsUow(a, i)
      <4> SUFFICES ASSUME a = f, i = n
                   PROVE  FALSE
        BY <1>6, <2>0
      <4>1. Active(g)
        BY <2>1, ScopeTypes DEF IInv, ScopeInv, IsUow
      <4>2. g = f \/ d[g] < d[f]
        BY <1>1, <2>0, <4>1, LeafIsDeepest DEF SeqInv
      <4>3. d[g] \in Nat /\ d[f] \in Nat
        OBVIOUS
      <4>4. g = f /\ n < j
        BY <4>2, <4>3
      <4>5. j \in 1 .. Len(scopes[f])
        BY <2>1, <4>4 DEF IsUow
      <4>6. QED
        BY <1>4, <1>5, <4>4, <4>5
    <3>2. i \in 1 .. Len(scopes[a]) /\ j \in 1 .. Len(scopes[g])
      BY <2>1, <3>1 DEF IsUow
    <3>3. scopes'[a][i] = scopes[a][i] /\ scopes'[g][j] = scopes[g][j]
      BY <1>6, <2>0, <2>1, <3>1
    <3>4. scopes[a][i].uow < scopes[g][j].uow
      BY <2>0, <2>1, <3>1, <3>2 DEF SeqInv, OrderInv
    <3>5. QED
      BY <3>3, <3>4
  <2>2. CASE ~IsUow(g, j)
    <3>1. g = f /\ j = n /\ scopes'[g][j].uow = u
      BY <1>3, <1>6, <2>0, <2>2
    <3>2. a # f \/ i # n
      BY <3>1
    <3>3. IsUow(a, i) /\ i \in 1 .. Len(scopes[a]) /\ scopes'[a][i] = scopes[a][i]
      BY <1>6, <2>0, <3>2 DEF IsUow
    <3>4. QED
      BY <1>7, <3>1, <3>3
  <2>3. QED
    BY <2>1, <2>2
<1>11. PhaseInv'
  <2> SUFFICES ASSUME NEW g \in Flows, NEW i \in 1 .. Len(scopes'[g]), IsUow(g, i)'
               PROVE  PhaseWell(g, i)'
    BY DEF PhaseInv
  <2>0. i \in Nat
    OBVIOUS
  <2>1. CASE g = f /\ i = n
    BY <1>3, <1>6, <1>9, <2>1 DEF PhaseWell
  <2>2. CASE IsUow(g, i)
    <3>1. i \in 1 .. Len(scopes[g]) /\ PhaseWell(g, i) /\ scopes'[g][i] = scopes[g][i]
      <4>1. i \in 1 .. Len(scopes[g])
        BY <2>2 DEF IsUow
      <4>2. PhaseWell(g, i)
        BY <2>2, <4>1, Zenon DEF SeqInv, PhaseInv
      <4>3. scopes'[g][i] = scopes[g][i]
        BY <1>6, <2>0, <2>2
      <4>4. QED
        BY <4>1, <4>2, <4>3
    <3>2. scopes[g][i].uow \in Uow /\ scopes[g][i].uow # u
      BY <1>0, <1>7, <3>1
    <3>3. CASE g = f
      <4>1. phase[scopes[g][i].uow] # "completing"
        BY <1>1, <3>1, <3>3 DEF PhaseWell
      <4>2. QED
        BY <1>2, <1>8, <3>1, <3>2, <4>1 DEF PhaseWell
    <3>4. CASE g # f
      <4>1. scopes'[g] = scopes[g]
        BY <1>4, <3>4
      <4>2. \A j \in 1 .. Len(scopes[g]) :
              /\ IsUow(g, j)' <=> IsUow(g, j)
              /\ phase'[scopes[g][j].uow] = phase[scopes[g][j].uow]
        <5> TAKE j \in 1 .. Len(scopes[g])
        <5>1. IsUow(g, j)' <=> IsUow(g, j)
          BY <4>1 DEF IsUow
        <5>2. scopes[g][j].uow \in Uow /\ scopes[g][j].uow # u
          BY <1>0, <1>7
        <5>3. QED
          BY <1>8, <5>1, <5>2
      <4>3. QED
        BY <1>2, <3>1, <4>1, <4>2 DEF PhaseWell
    <3>5. QED
      BY <3>3, <3>4
  <2>3. QED
    BY <1>6, <2>0, <2>1, <2>2
\* The wrapper: Inside(w) = NoUow, or w is the wrapper of f and what it holds is live.
<1>12. Fresh(Inside(l)) /\ l \in UowOrNull /\ (l # NoUow => l \in Uow /\ l <= nuow /\ l # u)
  BY <1>0, <1>1, LocalFacts DEF SeqInv, LeafInv, Leaf
<1>13. Inside(w) # NoUow => w = l /\ l # NoUow /\ Live(held[l]) /\ held[l] \in Uow
  <2> SUFFICES ASSUME Inside(w) # NoUow
               PROVE  w = l /\ l # NoUow /\ Live(held[l]) /\ held[l] \in Uow
    OBVIOUS
  <2>1. ~Stale(f) /\ w = l /\ l # NoUow /\ held[l] = Inside(l) /\ held[l] # NoUow
    BY DEF LocalAfterGet, Inside
  <2>2. ~disposed[Inside(l)]
    BY <2>1 DEF Stale
  <2>3. held[l] \in Uow
    BY <1>12, <2>1 DEF IInv, TypeOK, NoUow, Uow, UowOrNull
  <2>4. QED
    BY <1>12, <2>1, <2>2, <2>3 DEF Fresh
<1>14. /\ \A x \in Uow : x # u => outer'[x] = outer[x]
       /\ outer'[u] = IF Inside(w) = NoUow THEN NoUow ELSE held[l]
       /\ held'[u] = IF Inside(w) = NoUow THEN u ELSE NoUow
       /\ l # NoUow /\ w = l => held'[l] = u
       /\ \A x \in Uow : x # u /\ (x # w \/ w = NoUow) => held'[x] = held[x]
       /\ \A g \in Flows : g # f => local'[g] = local[g]
       /\ local'[f] = IF Inside(w) = NoUow THEN u ELSE l
  <2>1. CASE Inside(w) = NoUow
    <3>1. /\ held' = [v \in Uow |-> IF v \in {u, w} THEN u ELSE held[v]]
          /\ local' = [local EXCEPT ![f] = u] /\ outer' = outer
      BY <1>2, <2>1 DEF PushInto
    <3>2. NoUow \notin Uow
      BY DEF NoUow, Uow
    <3> HIDE DEF w
    <3>3. QED
      BY <1>9, <1>12, <2>1, <3>1, <3>2 DEF IInv, TypeOK
  <2>2. CASE Inside(w) # NoUow
    <3>1. /\ outer' = [outer EXCEPT ![u] = held[w]] /\ held' = [held EXCEPT ![w] = u]
          /\ local' = local /\ w = l
      BY <1>2, <1>13, <2>2 DEF PushInto
    <3> HIDE DEF w
    <3>2. QED
      BY <1>9, <1>12, <1>13, <2>2, <3>1 DEF IInv, TypeOK
  <2>3. QED
    BY <2>1, <2>2
<1>15. OuterInv'
  <2> SUFFICES ASSUME NEW x \in Uow, Live(x)', outer'[x] # NoUow
               PROVE  Live(outer[x])'
    BY DEF OuterInv
  <2>1. \A y \in Uow : Live(y) => Live(y)'
    BY <1>2, <1>8, <1>9 DEF Live
  <2>2. CASE x = u
    BY <1>13, <1>14, <2>1, <2>2 DEF Live
  <2>3. CASE x # u
    <3>1. Live(x) /\ outer'[x] = outer[x]
      BY <1>2, <1>8, <1>14, <2>3 DEF Live
    <3>2. Live(outer[x]) /\ outer[x] \in Uow
      BY <3>1 DEF SeqInv, OuterInv, IInv, TypeOK, NoUow, Uow, UowOrNull
    <3>3. PICK y \in Uow : y = outer[x]
      BY <3>2
    <3>4. Live(y)'
      BY <2>1, <3>2, <3>3
    <3>5. QED
      BY <3>1, <3>3, <3>4 DEF Live
  <2>4. QED
    BY <2>2, <2>3
<1>16. Fresh(Inside(local[f]))'
  <2>1. Live(u)'
    BY <1>9 DEF Live
  <2>2. Inside(local[f])' = u
    <3>1. CASE Inside(w) = NoUow
      BY <1>14, <3>1 DEF Inside, NoUow, Uow
    <3>2. CASE Inside(w) # NoUow
      BY <1>13, <1>14, <3>2 DEF Inside
    <3>3. QED
      BY <3>1, <3>2
  <2>3. QED
    BY <2>1, <2>2 DEF Fresh, Live
<1>17. local'[f] # local[f] => Leaves(f)
  <2> SUFFICES ASSUME Inside(w) = NoUow, l # NoUow
               PROVE  Leaves(f)
    BY <1>14 DEF Leaves
  <2>1. CASE w = l
    <3>1. held'[l] = u /\ outer'[u] = NoUow
      BY <1>14, <2>1
    <3>2. n \in 1 .. Len(scopes'[f]) /\ IsUow(f, n)' /\ scopes'[f][n].uow = u
      BY <1>3, <1>5, <1>6, <1>4
    <3>3. QED
      BY <3>1, <3>2 DEF Leaves
  <2>2. CASE w # l
    <3>1. Stale(f) /\ w = NoUow
      BY <2>2 DEF LocalAfterGet
    <3>2. held'[l] = held[l] /\ Inside(l) = held[l]
      BY <1>12, <1>14, <3>1 DEF Inside
    <3>3. held[l] # NoUow /\ disposed[held[l]]
      BY <3>1, <3>2 DEF Stale
    <3>4. held[l] \in Uow /\ held[l] <= nuow /\ outer[held[l]] = NoUow
      BY <1>12, <3>2, <3>3 DEF Fresh, Live, IInv, TypeOK, CreatedInv, NoUow, Uow, UowOrNull
    <3>5. held[l] # u
      BY <1>0, <3>4
    <3>6. QED
      BY <1>2, <1>14, <3>2, <3>3, <3>4, <3>5 DEF Leaves
  <2>3. QED
    BY <2>1, <2>2
<1>18. LeafStep(f)
  <2>1. \A x \in Uow : x <= nuow => x # u
    BY <1>0
  <2>2. \A x \in Uow : x <= nuow /\ x # l => held'[x] = held[x]
    <3>1. w = l \/ w = NoUow
      BY DEF LocalAfterGet
    <3> HIDE DEF w
    <3>2. QED
      BY <1>14, <2>1, <3>1
  <2>3. \A i \in 1 .. Len(scopes[f]) : IsUow(f, i) =>
          i \in 1 .. Len(scopes'[f]) /\ IsUow(f, i)' /\ scopes'[f][i].uow = scopes[f][i].uow
    BY <1>4, <1>6
  <2>4. \A g \in Flows : Active(g)' <=> Active(g)
    BY <1>2 DEF Active
  <2>5. local'[f] \in {local[f], NoUow, nuow + 1} /\ nuow <= nuow' /\ nuow' \in Nat
    BY <1>0, <1>2, <1>14
  <2>6. \A g \in Flows : g # f => local'[g] = local[g] /\ scopes'[g] = scopes[g]
    BY <1>4, <1>14
  <2>7. \A x \in Uow : x <= nuow => phase'[x] = phase[x] /\ outer'[x] = outer[x]
    BY <1>8, <1>14, <2>1
  <2>8. QED
    BY <1>2, <1>17, <2>2, <2>3, <2>4, <2>5, <2>6, <2>7 DEF LeafStep
<1>19. QED
  BY <1>1, <1>10, <1>11, <1>15, <1>16, <1>18, LeafStepKeeps

-----------------------------------------------------------------------------
(* Completing and disposing.                                               *)

LEMMA CompleteStartKeeps ==
  ASSUME IInv, ScopeInv, Concurrent = FALSE, NEW d \in [Flows -> Nat], SeqInv(d),
         NEW f \in Flows, CompleteStart(f)
  PROVE  SeqInv(d)' /\ LeafStep(f)
<1>1. Leaf(f) /\ status[f] = "running"
  BY DEF CompleteStart, CanStep, Leaf, Active
<1>2. PICK k \in Pending(f) :
        /\ scopes[f][k].kind = "uow" /\ phase[scopes[f][k].uow] = "active"
        /\ phase' = [phase EXCEPT ![scopes[f][k].uow] = "completing"]
        /\ MarkDone(f, k)
  BY DEF CompleteStart
<1>3. /\ status' = [status EXCEPT ![f] = "completing"] /\ parent' = parent /\ request' = request
      /\ local' = local /\ nuow' = nuow /\ disposed' = disposed /\ outer' = outer /\ held' = held
  BY DEF CompleteStart
<1>4. /\ \A g \in Flows \ {f} : scopes'[g] = scopes[g]
      /\ Len(scopes'[f]) = Len(scopes[f]) /\ Len(scopes[f]) \in Nat
      /\ k \in 1 .. Len(scopes[f]) /\ scopes'[f][k].done
      /\ \A i \in 1 .. Len(scopes[f]) :
           /\ scopes'[f][i].uow = scopes[f][i].uow /\ scopes'[f][i].kind = scopes[f][i].kind
           /\ i # k => scopes'[f][i] = scopes[f][i]
  BY <1>2, MarkedScope DEF IInv
<1>5. PICK x \in Uow : x = scopes[f][k].uow
  BY <1>4, ScopeTypes DEF IInv
<1>6. /\ phase[x] = "active" /\ phase'[x] = "completing" /\ IsUow(f, k)
      /\ \A y \in Uow : y # x => phase'[y] = phase[y]
      /\ owner[x] = request[f]
  BY <1>2, <1>4, <1>5 DEF IInv, TypeOK, OwnedInv, IsUow
<1>7. /\ status'[f] = "completing" /\ \A g \in Flows : g # f => status'[g] = status[g]
      /\ \A g \in Flows : Active(g)' <=> Active(g)
  BY <1>1, <1>3 DEF IInv, TypeOK, Active
<1>8. \A y \in Uow : Live(y)' <=> Live(y)
  BY <1>3, <1>6 DEF Live
<1>9. \A g \in Flows : \A i \in 1 .. Len(scopes'[g]) : IsUow(g, i)' =>
        /\ IsUow(g, i) /\ i \in 1 .. Len(scopes[g])
        /\ scopes'[g][i].uow = scopes[g][i].uow /\ scopes[g][i].uow \in Uow
        /\ g # f \/ i # k => scopes'[g][i] = scopes[g][i]
  <2> SUFFICES ASSUME NEW g \in Flows, NEW i \in 1 .. Len(scopes'[g]), IsUow(g, i)'
               PROVE  /\ IsUow(g, i) /\ i \in 1 .. Len(scopes[g])
                      /\ scopes'[g][i].uow = scopes[g][i].uow /\ scopes[g][i].uow \in Uow
                      /\ g # f \/ i # k => scopes'[g][i] = scopes[g][i]
    OBVIOUS
  <2>1. CASE g = f
    BY <1>4, <2>1, ScopeTypes DEF IsUow, IInv
  <2>2. CASE g # f
    BY <1>4, <2>2, ScopeTypes DEF IsUow, IInv
  <2>3. QED
    BY <2>1, <2>2
<1>10. OrderInv(d)'
  BY <1>3, <1>9, OrderKept DEF SeqInv
\* Only the k-th scope of f is on x.
<1>11. \A g \in Flows : \A i \in 1 .. Len(scopes[g]) :
         IsUow(g, i) /\ scopes[g][i].uow = x => g = f /\ i = k
  BY <1>4, <1>5, <1>6, UniqueScope DEF SeqInv
<1>12. PhaseInv'
  <2> SUFFICES ASSUME NEW g \in Flows, NEW i \in 1 .. Len(scopes'[g]), IsUow(g, i)'
               PROVE  PhaseWell(g, i)'
    BY DEF PhaseInv
  <2>1. /\ IsUow(g, i) /\ i \in 1 .. Len(scopes[g])
        /\ scopes'[g][i].uow = scopes[g][i].uow /\ scopes[g][i].uow \in Uow
    BY <1>9
  <2>2. PhaseWell(g, i)
    BY <2>1 DEF SeqInv, PhaseInv
  <2>3. PICK y \in Uow : y = scopes[g][i].uow
    BY <2>1
  \* What comes after in the same frame is not completing.
  <2>4. ASSUME NEW j \in 1 .. Len(scopes'[g]), j > i, IsUow(g, j)', g = f \/ phase[y] = "completing"
        PROVE  phase'[scopes'[g][j].uow] # "completing" \/ scopes[g][j].uow = x
    <3>1. /\ IsUow(g, j) /\ j \in 1 .. Len(scopes[g])
          /\ scopes'[g][j].uow = scopes[g][j].uow /\ scopes[g][j].uow \in Uow
      BY <1>9, <2>4
    <3>2. phase[scopes[g][j].uow] # "completing"
      <4>1. CASE g = f
        BY <1>1, <3>1, <4>1 DEF SeqInv, PhaseInv, PhaseWell
      <4>2. CASE phase[y] = "completing"
        BY <2>2, <2>3, <2>4, <3>1, <4>2 DEF PhaseWell
      <4>3. QED
        BY <2>4, <4>1, <4>2
    <3>3. QED
      BY <1>6, <3>1, <3>2
  <2>5. CASE y = x
    <3>1. g = f /\ i = k
      BY <1>11, <2>1, <2>3, <2>5
    <3>2. \A j \in 1 .. Len(scopes'[f]) : j > k =>
            /\ scopes'[f][j].done
            /\ IsUow(f, j)' => phase'[scopes'[f][j].uow] # "completing"
      <4> SUFFICES ASSUME NEW j \in 1 .. Len(scopes'[f]), j > k
                   PROVE  /\ scopes'[f][j].done
                          /\ IsUow(f, j)' => phase'[scopes'[f][j].uow] # "completing"
        OBVIOUS
      <4>1. j \in 1 .. Len(scopes[f]) /\ scopes'[f][j] = scopes[f][j] /\ scopes[f][j].done
        BY <1>2, <1>4 DEF Pending
      <4>2. IsUow(f, j)' => scopes[f][j].uow # x
        BY <1>9, <1>11
      <4>3. QED
        BY <2>4, <3>1, <4>1, <4>2
    <3>3. QED
      BY <1>3, <1>4, <1>5, <1>6, <1>7, <2>2, <3>1, <3>2 DEF PhaseWell
  <2>6. CASE y # x
    <3>1. phase'[y] = phase[y] /\ scopes'[g][i] = scopes[g][i]
      BY <1>5, <1>6, <1>9, <2>3, <2>6
    <3>2. CASE g = f
      <4>1. phase[y] # "completing"
        BY <1>1, <2>2, <2>3, <3>2 DEF PhaseWell
      <4>2. QED
        BY <1>3, <2>2, <2>3, <3>1, <4>1 DEF PhaseWell
    <3>3. CASE g # f
      <4>1. scopes'[g] = scopes[g] /\ status'[g] = status[g]
        BY <1>4, <1>7, <3>3
      <4>2. \A j \in 1 .. Len(scopes'[g]) : IsUow(g, j)' => scopes[g][j].uow # x
        BY <1>9, <1>11, <3>3
      <4>3. QED
        BY <1>3, <2>2, <2>3, <2>4, <3>1, <4>1, <4>2 DEF PhaseWell
    <3>4. QED
      BY <3>2, <3>3
  <2>7. QED
    BY <2>5, <2>6
<1>13. OuterInv'
  <2> SUFFICES ASSUME NEW y \in Uow, Live(y)', outer'[y] # NoUow
               PROVE  Live(outer[y])'
    BY DEF OuterInv
  <2>1. Live(outer[y]) /\ outer[y] \in Uow /\ outer'[y] = outer[y]
    BY <1>3, <1>8 DEF SeqInv, OuterInv, IInv, TypeOK, NoUow, Uow, UowOrNull
  <2>2. PICK z \in Uow : z = outer[y]
    BY <2>1
  <2>3. Live(z)'
    BY <1>8, <2>1, <2>2
  <2>4. QED
    BY <2>1, <2>2, <2>3 DEF Live
<1>14. Fresh(Inside(local[f]))'
  <2>1. PICK y \in UowOrNull : y = Inside(local[f])
    BY <1>1, LocalFacts DEF Inside, IInv, TypeOK, UowOrNull, NoUow
  <2>2. Fresh(y) /\ Inside(local[f])' = y
    BY <1>1, <1>3, <2>1 DEF SeqInv, LeafInv, Leaf, Inside
  <2>3. y # NoUow => y \in Uow
    BY DEF Uow, UowOrNull, NoUow
  <2>4. Fresh(y)'
    BY <1>3, <1>8, <2>2, <2>3 DEF Fresh
  <2>5. QED
    BY <2>2, <2>4 DEF Fresh, Live
<1>15. LeafStep(f)
  <2>1. \A i \in 1 .. Len(scopes[f]) : IsUow(f, i) =>
          i \in 1 .. Len(scopes'[f]) /\ IsUow(f, i)' /\ scopes'[f][i].uow = scopes[f][i].uow
    BY <1>4 DEF IsUow
  <2>2. nuow \in Nat
    BY DEF IInv, TypeOK, UowOrNull
  <2>3. \A y \in Uow : owner[y] # request[f] => phase'[y] = phase[y]
    BY <1>6
  <2>4. \A g \in Flows : status'[g] = "idle" <=> status[g] = "idle"
    BY <1>1, <1>7
  <2>5. QED
    BY <1>3, <1>4, <1>7, <2>1, <2>2, <2>3, <2>4 DEF LeafStep
<1>16. QED
  BY <1>1, <1>10, <1>12, <1>13, <1>14, <1>15, LeafStepKeeps

\* A step of f that leaves u, the youngest that may be live in its request, not live.
Ends(f, u) ==
  /\ owner[u] = request[f]
  /\ \A y \in Uow : Live(y)' <=> Live(y) /\ y # u
  /\ \A y \in Uow : Live(y) /\ owner[y] = request[f] => y <= u

\* Under the youngest live unit of work u of a request: what is beneath what the executing
\* frame finds is live and is not u.
LEMMA BeneathIsLive ==
  ASSUME IInv, OuterInv, NEW f \in Flows, NEW u \in Uow,
         \A x \in Uow : Live(x) /\ owner[x] = request[f] => x <= u,
         NEW x \in UowOrNull, Fresh(x), x # NoUow => owner[x] = request[f]
  PROVE  /\ Beneath(x) \in UowOrNull
         /\ Beneath(x) # NoUow =>
              /\ Beneath(x) \in Uow /\ Live(Beneath(x)) /\ Beneath(x) # u
              /\ owner[Beneath(x)] = request[f]
<1>1. CASE x = NoUow
  BY <1>1 DEF Beneath, NoUow, UowOrNull
<1>2. CASE x # NoUow
  <2>1. x \in Uow /\ Beneath(x) = outer[x] /\ outer[x] \in UowOrNull /\ outer[x] < x
    BY <1>2 DEF Beneath, IInv, TypeOK, CreatedInv, Uow, UowOrNull, NoUow
  <2>2. CASE outer[x] = NoUow
    BY <2>1, <2>2
  <2>3. CASE outer[x] # NoUow
    <3>1. Live(x) /\ x <= u
      BY <1>2, <2>1, <2>3 DEF Fresh
    <3>2. outer[x] \in Uow /\ Live(outer[x]) /\ owner[outer[x]] = request[f]
      BY <1>2, <2>1, <2>3, <3>1 DEF OuterInv, IInv, OwnedInv, Uow, UowOrNull, NoUow
    <3>3. x \in Nat /\ u \in Nat /\ outer[x] \in Nat
      BY <2>1, <3>2 DEF Uow
    <3>4. outer[x] # u
      BY <2>1, <3>1, <3>3
    <3>5. QED
      BY <2>1, <3>2, <3>4
  <2>4. QED
    BY <2>2, <2>3
<1>3. QED
  BY <1>1, <1>2

LEMMA EndingKeepsOuter ==
  ASSUME IInv, OuterInv, NEW f \in Flows, NEW u \in Uow, owner[u] = request[f],
         \A x \in Uow : Live(x) /\ owner[x] = request[f] => x <= u,
         outer' = outer, \A x \in Uow : Live(x)' <=> Live(x) /\ x # u
  PROVE  OuterInv'
<1> SUFFICES ASSUME NEW y \in Uow, Live(y)', outer'[y] # NoUow
             PROVE  Live(outer[y])'
  BY DEF OuterInv
<1>0. Live(y)
  OBVIOUS
<1>1. outer'[y] = outer[y]
  OBVIOUS
<1>2. Live(outer[y]) /\ outer[y] \in Uow /\ outer[y] < y /\ owner[outer[y]] = owner[y]
  <2>1. outer[y] # NoUow
    BY <1>1
  <2>2. outer[y] \in UowOrNull /\ outer[y] < y
    BY DEF IInv, TypeOK, CreatedInv
  <2>3. outer[y] \in Uow
    BY <2>1, <2>2 DEF NoUow, Uow, UowOrNull
  <2>4. QED
    BY <1>0, <2>1, <2>2, <2>3 DEF OuterInv, IInv, OwnedInv
<1>3. PICK z \in Uow : z = outer[y]
  BY <1>2
<1>4. z # u
  <2> SUFFICES ASSUME z = u
               PROVE  FALSE
    OBVIOUS
  <2>1. y <= u /\ u < y
    BY <1>0, <1>2, <1>3
  <2>2. QED
    BY <2>1 DEF Uow
<1>5. Live(z)'
  BY <1>2, <1>3, <1>4
<1>6. QED
  BY <1>1, <1>3, <1>5 DEF Live

\* A call of CompleteAsync that returns pops the wrapper of f zero, one or two times.
LEMMA CompleteEndKeeps ==
  ASSUME IInv, ScopeInv, NEW d \in [Flows -> Nat], SeqInv(d), NEW f \in Flows,
         NEW result \in {"succeeded", "failed", "unpublished"}, NEW heldAfter,
         CompleteEnd(f, result, heldAfter),
         \A w \in Uow : w # local[f] => heldAfter[w] = held[w],
         local[f] # NoUow =>
           LET x == held[local[f]] IN
           heldAfter[local[f]] \in {Beneath(x), Beneath(Beneath(x))}
  PROVE  SeqInv(d)' /\ LeafStep(f) /\ \E u \in Uow : Ends(f, u)
<1>1. PICK u \in Completing(f) : phase' = [phase EXCEPT ![u] = result]
  BY DEF CompleteEnd
<1>2. /\ status' = [status EXCEPT ![f] = "running"] /\ parent' = parent /\ request' = request
      /\ local' = local /\ scopes' = scopes /\ nuow' = nuow /\ disposed' = disposed
      /\ outer' = outer /\ held' = heldAfter
  BY DEF CompleteEnd
<1>3. Leaf(f) /\ status[f] = "completing"
  BY DEF CompleteEnd, SeqInv, StackInv, Leaf, Active
<1>4. PICK k \in 1 .. Len(scopes[f]) :
        IsUow(f, k) /\ scopes[f][k].uow = u /\ phase[u] = "completing"
  BY <1>1 DEF Completing, IsUow
<1>5. /\ u \in Uow /\ owner[u] = request[f] /\ phase'[u] = result
      /\ \A y \in Uow : y # u => phase'[y] = phase[y]
      /\ ~disposed[u]
  <2>1. u \in Uow
    BY <1>1 DEF Completing
  <2>2. ~disposed[u]
    BY <1>4 DEF SeqInv, PhaseInv, PhaseWell
  <2>3. QED
    BY <1>1, <1>4, <2>1, <2>2 DEF IInv, TypeOK, OwnedInv
<1>6. /\ status'[f] = "running" /\ \A g \in Flows : g # f => status'[g] = status[g]
      /\ \A g \in Flows : Active(g)' <=> Active(g)
  BY <1>2, <1>3 DEF IInv, TypeOK, Active
<1>7. \A y \in Uow : Live(y)' <=> Live(y) /\ y # u
  BY <1>2, <1>5 DEF Live
<1>8. \A g \in Flows : \A i : IsUow(g, i)' <=> IsUow(g, i)
  BY <1>2 DEF IsUow
<1>9. OrderInv(d)'
  BY <1>2, <1>8, OrderKept DEF SeqInv
<1>10. \A g \in Flows : \A i \in 1 .. Len(scopes[g]) :
         IsUow(g, i) /\ scopes[g][i].uow = u => g = f /\ i = k
  BY <1>4, UniqueScope DEF SeqInv
<1>11. \A j \in 1 .. Len(scopes[f]) : IsUow(f, j) /\ j # k => phase[scopes[f][j].uow] # "completing"
  <2> SUFFICES ASSUME NEW j \in 1 .. Len(scopes[f]), IsUow(f, j), j # k,
                      phase[scopes[f][j].uow] = "completing"
               PROVE  FALSE
    OBVIOUS
  <2>1. PhaseWell(f, j) /\ PhaseWell(f, k)
    BY <1>4 DEF SeqInv, PhaseInv
  <2>2. j > k \/ k > j
    OBVIOUS
  <2>3. QED
    BY <1>4, <2>1, <2>2 DEF PhaseWell
<1>12. \A x \in Uow : Live(x) /\ owner[x] = request[f] => x <= u
  <2>1. \A j \in 1 .. Len(scopes[f]) : j > k /\ IsUow(f, j) => ~Live(scopes[f][j].uow)
    <3> SUFFICES ASSUME NEW j \in 1 .. Len(scopes[f]), j > k, IsUow(f, j)
                 PROVE  ~Live(scopes[f][j].uow)
      OBVIOUS
    <3>1. PhaseWell(f, j) /\ PhaseWell(f, k)
      BY <1>4 DEF SeqInv, PhaseInv
    <3>2. scopes[f][j].done /\ phase[scopes[f][j].uow] # "completing"
      BY <1>4, <3>1 DEF PhaseWell
    <3>3. phase[scopes[f][j].uow] # "active"
      BY <3>1, <3>2 DEF PhaseWell
    <3>4. QED
      BY <3>2, <3>3 DEF Live
  <2>2. QED
    BY <1>3, <1>4, <2>1, YoungestLive DEF SeqInv
<1>13. PhaseInv'
  <2> SUFFICES ASSUME NEW g \in Flows, NEW i \in 1 .. Len(scopes[g]), IsUow(g, i)
               PROVE  PhaseWell(g, i)'
    BY <1>2, <1>8 DEF PhaseInv
  <2>1. PhaseWell(g, i) /\ scopes[g][i].uow \in Uow
    BY ScopeTypes DEF SeqInv, PhaseInv, IInv
  <2>2. PICK y \in Uow : y = scopes[g][i].uow
    BY <2>1
  <2>3. CASE y = u
    BY <1>2, <1>5, <2>1, <2>2, <2>3 DEF PhaseWell
  <2>4. CASE y # u
    <3>1. phase'[y] = phase[y]
      BY <1>5, <2>4
    <3>2. CASE g = f
      <4>1. phase[y] # "completing"
        BY <1>4, <1>11, <2>2, <2>4, <3>2
      <4>2. QED
        BY <1>2, <2>1, <2>2, <3>1, <4>1 DEF PhaseWell
    <3>3. CASE g # f
      <4>1. status'[g] = status[g]
        BY <1>6, <3>3
      <4>2. \A j \in 1 .. Len(scopes[g]) : IsUow(g, j) =>
              phase'[scopes[g][j].uow] = phase[scopes[g][j].uow]
        <5> SUFFICES ASSUME NEW j \in 1 .. Len(scopes[g]), IsUow(g, j)
                     PROVE  phase'[scopes[g][j].uow] = phase[scopes[g][j].uow]
          OBVIOUS
        <5>1. scopes[g][j].uow # u /\ scopes[g][j].uow \in Uow
          BY <1>10, <3>3, ScopeTypes DEF IInv
        <5>2. QED
          BY <1>5, <5>1
      <4>3. QED
        BY <1>2, <1>8, <2>1, <2>2, <3>1, <4>1, <4>2 DEF PhaseWell
    <3>4. QED
      BY <3>2, <3>3
  <2>5. QED
    BY <2>3, <2>4
<1>14. OuterInv'
  BY <1>2, <1>5, <1>7, <1>12, EndingKeepsOuter DEF SeqInv
<1>15. Fresh(Inside(local[f]))'
  <2>1. CASE local[f] = NoUow
    BY <1>2, <2>1 DEF Inside, Fresh
  <2>2. CASE local[f] # NoUow
    <3>1. local[f] \in Uow /\ owner[local[f]] = request[f]
      BY <2>2, LocalFacts
    <3>2. PICK x \in UowOrNull : x = held[local[f]]
      BY <3>1 DEF IInv, TypeOK
    <3>3. Fresh(x) /\ (x # NoUow => owner[x] = request[f])
      BY <1>3, <2>2, <3>1, <3>2 DEF SeqInv, LeafInv, Leaf, Inside, IInv, OwnedInv
    <3>4. PICK y \in UowOrNull : y = Beneath(x)
      BY <1>5, <1>12, <3>3, BeneathIsLive DEF SeqInv
    <3>5. y # NoUow => y \in Uow /\ Live(y) /\ y # u /\ owner[y] = request[f]
      BY <1>5, <1>12, <3>3, <3>4, BeneathIsLive DEF SeqInv
    <3>6. Fresh(y)
      BY <3>5 DEF Fresh
    <3>7. PICK z \in UowOrNull : z = Beneath(y)
      BY <1>5, <1>12, <3>5, <3>6, BeneathIsLive DEF SeqInv
    <3>8. z # NoUow => z \in Uow /\ Live(z) /\ z # u
      BY <1>5, <1>12, <3>5, <3>6, <3>7, BeneathIsLive DEF SeqInv
    <3>9. held'[local[f]] \in {y, z}
      BY <1>2, <2>2, <3>2, <3>4, <3>7
    <3>10. PICK v \in UowOrNull : /\ v = held'[local[f]]
                                  /\ v # NoUow => v \in Uow /\ Live(v) /\ v # u
      BY <3>5, <3>8, <3>9
    <3>11. Fresh(v)'
      BY <1>7, <3>10 DEF Fresh
    <3>12. Inside(local[f])' = v
      BY <1>2, <2>2, <3>10 DEF Inside
    <3>13. QED
      BY <3>11, <3>12 DEF Fresh, Live
  <2>3. QED
    BY <2>1, <2>2
<1>16. LeafStep(f)
  <2>1. \A i \in 1 .. Len(scopes[f]) : IsUow(f, i) =>
          i \in 1 .. Len(scopes'[f]) /\ IsUow(f, i)' /\ scopes'[f][i].uow = scopes[f][i].uow
    BY <1>2, <1>8
  <2>2. nuow \in Nat
    BY DEF IInv, TypeOK, UowOrNull
  <2>3. \A y \in Uow : owner[y] # request[f] => phase'[y] = phase[y]
    BY <1>5
  <2>4. \A g \in Flows : status'[g] = "idle" <=> status[g] = "idle"
    BY <1>3, <1>6
  <2>5. \A w \in Uow : w <= nuow /\ w # local[f] => held'[w] = held[w]
    BY <1>2
  <2>6. \A g \in Flows : status'[g] = "completing" => status[g] = "completing" \/ g = f
    BY <1>6
  <2>7. QED
    BY <1>2, <1>6, <2>1, <2>2, <2>3, <2>4, <2>5, <2>6 DEF LeafStep
<1>17. Ends(f, u)
  BY <1>5, <1>7, <1>12 DEF Ends
<1>18. QED
  BY <1>3, <1>5, <1>9, <1>13, <1>14, <1>15, <1>16, <1>17, LeafStepKeeps

LEMMA CompleteEnds ==
  ASSUME IInv, ScopeInv, NEW d \in [Flows -> Nat], SeqInv(d), NEW f \in Flows,
         CompleteSucceeds(f) \/ CompleteFails(f) \/ PublishFails(f)
  PROVE  SeqInv(d)' /\ LeafStep(f) /\ \E u \in Uow : Ends(f, u)
<1> DEFINE l == local[f]
           h == PopHeld(l, held)
           h2 == PopHeld(PopLocal(l, held), h)
<1>1. l \in UowOrNull /\ (l # NoUow => l \in Uow) /\ held \in [Uow -> UowOrNull]
  BY LocalFacts DEF IInv, TypeOK
<1>2. /\ \A w \in Uow : w # l => h[w] = held[w]
      /\ l # NoUow => h[l] = Beneath(held[l])
      /\ DOMAIN h = Uow
  BY <1>1 DEF PopHeld
<1>3. /\ \A w \in Uow : w # l => h2[w] = held[w]
      /\ l # NoUow => h2[l] \in {Beneath(held[l]), Beneath(Beneath(held[l]))}
  <2> HIDE DEF h
  <2>1. CASE PopLocal(l, held) = NoUow
    BY <1>2, <2>1 DEF PopHeld
  <2>2. CASE PopLocal(l, held) # NoUow
    <3>1. PopLocal(l, held) = l /\ l # NoUow
      BY <2>2 DEF PopLocal
    <3>2. h2 = [h EXCEPT ![l] = Beneath(h[l])]
      BY <3>1 DEF PopHeld
    <3>3. QED
      BY <1>1, <1>2, <3>1, <3>2
  <2>3. QED
    BY <2>1, <2>2
<1>4. CASE CompleteSucceeds(f)
  <2>1. CompleteEnd(f, "succeeded", h)
    BY <1>4 DEF CompleteSucceeds
  <2> HIDE DEF h
  <2>2. QED
    BY <1>2, <2>1, CompleteEndKeeps
<1>5. CASE CompleteFails(f)
  <2>1. CompleteEnd(f, "failed", h)
    BY <1>5 DEF CompleteFails
  <2> HIDE DEF h
  <2>2. QED
    BY <1>2, <2>1, CompleteEndKeeps
<1>6. CASE PublishFails(f)
  <2>1. CompleteEnd(f, "unpublished", h2)
    BY <1>6 DEF PublishFails
  <2> HIDE DEF h2
  <2>2. QED
    BY <1>3, <2>1, CompleteEndKeeps
<1>7. QED
  BY <1>4, <1>5, <1>6

LEMMA DisposeKeeps ==
  ASSUME IInv, ScopeInv, Concurrent = FALSE, NEW d \in [Flows -> Nat], SeqInv(d),
         NEW f \in Flows, DisposeUow(f)
  PROVE  SeqInv(d)' /\ LeafStep(f) /\ \E u \in Uow : Ends(f, u)
<1> DEFINE l == local[f]
           x == Inside(l)
<1>1. Leaf(f) /\ status[f] = "running"
  BY DEF DisposeUow, CanStep, Leaf, Active
<1>2. PICK n \in Nat : n = Len(scopes[f])
  BY DEF IInv, TypeOK
<1>3. scopes[f] # <<>> /\ scopes[f][n].kind = "uow" /\ Close(f)
  BY <1>2 DEF DisposeUow, Innermost
<1>4. /\ \A g \in Flows \ {f} : scopes'[g] = scopes[g]
      /\ Len(scopes'[f]) = n - 1 /\ n \in Nat \ {0}
      /\ \A i \in 1 .. n - 1 : scopes'[f][i] = scopes[f][i]
  BY <1>2, <1>3, ClosedScope DEF IInv
<1>5. n \in 1 .. Len(scopes[f]) /\ IsUow(f, n)
  BY <1>2, <1>3, <1>4 DEF IsUow
<1>6. PICK u \in Uow : u = scopes[f][n].uow
  BY <1>5, ScopeTypes DEF IInv
<1>7. /\ status' = status /\ parent' = parent /\ request' = request
      /\ nuow' = nuow /\ phase' = phase /\ outer' = outer
      /\ disposed' = [disposed EXCEPT ![u] = TRUE]
  BY <1>2, <1>6 DEF DisposeUow, Innermost
<1>8. \/ /\ held' = PopHeld(l, held)
         /\ local' = [local EXCEPT ![f] = PopLocal(l, held)]
      \/ /\ phase[u] \in {"succeeded", "unpublished"}
         /\ held' = held /\ local' = local
  BY <1>2, <1>6 DEF DisposeUow, Innermost
<1>9. /\ disposed'[u] /\ \A y \in Uow : y # u => disposed'[y] = disposed[y]
      /\ owner[u] = request[f]
  BY <1>5, <1>6, <1>7 DEF IInv, TypeOK, OwnedInv
<1>10. \A y \in Uow : Live(y)' <=> Live(y) /\ y # u
  BY <1>7, <1>9 DEF Live
<1>11. \A g \in Flows : \A i \in 1 .. Len(scopes'[g]) : IsUow(g, i)' =>
         /\ IsUow(g, i) /\ i \in 1 .. Len(scopes[g]) /\ scopes'[g][i] = scopes[g][i]
         /\ g # f \/ i # n
  <2> SUFFICES ASSUME NEW g \in Flows, NEW i \in 1 .. Len(scopes'[g]), IsUow(g, i)'
               PROVE  /\ IsUow(g, i) /\ i \in 1 .. Len(scopes[g]) /\ scopes'[g][i] = scopes[g][i]
                      /\ g # f \/ i # n
    OBVIOUS
  <2>1. CASE g = f
    BY <1>2, <1>4, <2>1 DEF IsUow
  <2>2. CASE g # f
    BY <1>4, <2>2 DEF IsUow
  <2>3. QED
    BY <2>1, <2>2
<1>12. OrderInv(d)'
  BY <1>7, <1>11, OrderKept DEF SeqInv
<1>13. \A g \in Flows : \A i \in 1 .. Len(scopes[g]) :
         IsUow(g, i) /\ scopes[g][i].uow = u => g = f /\ i = n
  BY <1>5, <1>6, UniqueScope DEF SeqInv
<1>14. \A y \in Uow : Live(y) /\ owner[y] = request[f] => y <= u
  <2>1. \A j \in 1 .. Len(scopes[f]) : j > n /\ IsUow(f, j) => ~Live(scopes[f][j].uow)
    BY <1>2
  <2>2. QED
    BY <1>1, <1>5, <1>6, <2>1, YoungestLive DEF SeqInv
<1>15. PhaseInv'
  <2> SUFFICES ASSUME NEW g \in Flows, NEW i \in 1 .. Len(scopes'[g]), IsUow(g, i)'
               PROVE  PhaseWell(g, i)'
    BY DEF PhaseInv
  <2>1. /\ IsUow(g, i) /\ i \in 1 .. Len(scopes[g]) /\ scopes'[g][i] = scopes[g][i]
        /\ g # f \/ i # n
    BY <1>11
  <2>2. PhaseWell(g, i) /\ scopes[g][i].uow \in Uow
    BY <2>1, ScopeTypes DEF SeqInv, PhaseInv, IInv
  <2>3. PICK y \in Uow : y = scopes[g][i].uow
    BY <2>2
  <2>4. y # u /\ disposed'[y] = disposed[y]
    BY <1>9, <1>13, <2>1, <2>3
  <2>5. CASE g = f
    <3>1. phase[y] # "completing"
      BY <1>1, <2>2, <2>3, <2>5 DEF PhaseWell
    <3>2. QED
      BY <1>7, <2>1, <2>2, <2>3, <2>4, <3>1 DEF PhaseWell
  <2>6. CASE g # f
    <3>1. scopes'[g] = scopes[g] /\ \A j \in 1 .. Len(scopes[g]) : IsUow(g, j)' <=> IsUow(g, j)
      BY <1>4, <2>6 DEF IsUow
    <3>2. QED
      BY <1>7, <2>2, <2>3, <2>4, <3>1 DEF PhaseWell
  <2>7. QED
    BY <2>5, <2>6
<1>16. OuterInv'
  BY <1>7, <1>9, <1>10, <1>14, EndingKeepsOuter DEF SeqInv
\* What is in the wrapper.
<1>17. /\ l \in UowOrNull /\ (l # NoUow => l \in Uow /\ owner[l] = request[f])
       /\ x \in UowOrNull /\ Fresh(x) /\ (x # NoUow => owner[x] = request[f])
       /\ l = NoUow => x = NoUow
       /\ l # NoUow => x = held[l]
  <2>1. l \in UowOrNull /\ (l # NoUow => l \in Uow /\ owner[l] = request[f])
    BY LocalFacts
  <2>2. /\ l = NoUow => x = NoUow
        /\ l # NoUow => x = held[l]
    BY DEF Inside
  <2>3. Fresh(x)
    BY <1>1 DEF SeqInv, LeafInv, Leaf
  <2>4. x \in UowOrNull /\ (x # NoUow => owner[x] = request[f])
    BY <2>1, <2>2 DEF IInv, TypeOK, OwnedInv, NoUow, UowOrNull
  <2>5. QED
    BY <2>1, <2>2, <2>3, <2>4
<1>18. PICK b \in UowOrNull : b = Beneath(x) /\ (b # NoUow => b \in Uow /\ Live(b) /\ b # u)
  <2> HIDE DEF x
  <2>1. QED
    BY <1>9, <1>14, <1>17, BeneathIsLive DEF SeqInv
<1>19. \A g \in Flows : g # f => local'[g] = local[g]
  BY <1>8 DEF IInv, TypeOK
<1>20. \A w \in Uow : w # l => held'[w] = held[w]
  BY <1>8 DEF PopHeld, IInv, TypeOK
\* Either it popped or left everything.
<1>21. \/ l # NoUow /\ b # NoUow /\ held'[l] = b /\ local'[f] = l
       \/ l # NoUow /\ b = NoUow /\ held'[l] = NoUow /\ local'[f] = NoUow
       \/ l = NoUow /\ local'[f] = NoUow
       \/ l # NoUow /\ held'[l] = x /\ local'[f] = l /\ ~Live(u)
  <2>1. CASE held' = PopHeld(l, held) /\ local' = [local EXCEPT ![f] = PopLocal(l, held)]
    <3>0. local'[f] = PopLocal(l, held)
      BY <2>1 DEF IInv, TypeOK
    <3>1. CASE l = NoUow
      BY <3>0, <3>1 DEF PopLocal
    <3>2. CASE l # NoUow
      <4>1. held'[l] = b
        BY <1>17, <1>18, <2>1, <3>2 DEF PopHeld, IInv, TypeOK
      <4>2. PopLocal(l, held) = IF b = NoUow THEN NoUow ELSE l
        BY <1>17, <1>18, <3>2 DEF PopLocal
      <4>3. QED
        BY <3>0, <3>2, <4>1, <4>2
    <3>3. QED
      BY <3>1, <3>2
  <2>2. CASE phase[u] \in {"succeeded", "unpublished"} /\ held' = held /\ local' = local
    <3>1. ~Live(u)
      BY <2>2 DEF Live
    <3>2. QED
      BY <1>17, <2>2, <3>1
  <2>3. QED
    BY <1>8, <2>1, <2>2
<1>22. Fresh(Inside(local[f]))'
  <2>1. CASE l # NoUow /\ b # NoUow /\ held'[l] = b /\ local'[f] = l
    <3>1. Inside(local[f])' = b /\ Live(b)'
      BY <1>10, <1>18, <2>1 DEF Inside
    <3>2. QED
      BY <3>1 DEF Fresh, Live
  <2>2. CASE local'[f] = NoUow
    BY <2>2 DEF Fresh, Inside
  <2>3. CASE l # NoUow /\ held'[l] = x /\ local'[f] = l /\ ~Live(u)
    <3>1. Inside(local[f])' = x
      BY <2>3 DEF Inside
    <3>2. PICK y \in UowOrNull : y = x
      BY <1>17
    <3>3. CASE y = NoUow
      BY <3>1, <3>2, <3>3 DEF Fresh
    <3>4. CASE y # NoUow
      <4>1. y \in Uow /\ Fresh(y)
        BY <1>17, <3>2, <3>4 DEF NoUow, Uow, UowOrNull
      <4>2. Live(y) => Live(y)'
        BY <1>10, <2>3, <4>1
      <4>3. disposed[y] => disposed'[y]
        BY <1>9, <4>1
      <4>4. Fresh(y)'
        BY <1>7, <4>1, <4>2, <4>3 DEF Fresh
      <4>5. QED
        BY <3>1, <3>2, <4>4 DEF Fresh, Live
    <3>5. QED
      BY <3>3, <3>4
  <2>4. QED
    BY <1>21, <2>1, <2>2, <2>3
<1>23. LeafStep(f)
  <2>1. local'[f] # local[f] => Leaves(f)
    BY <1>21 DEF Leaves
  <2>2. local'[f] \in {local[f], NoUow}
    BY <1>21
  <2>3. \A y \in Uow : disposed[y] => disposed'[y]
    BY <1>9
  <2>4. \A y \in Uow : owner[y] # request[f] => disposed'[y] = disposed[y]
    BY <1>9
  <2>5. \A i \in 1 .. Len(scopes[f]) : IsUow(f, i) =>
          \/ i \in 1 .. Len(scopes'[f]) /\ IsUow(f, i)' /\ scopes'[f][i].uow = scopes[f][i].uow
          \/ disposed'[scopes[f][i].uow]
    <3> TAKE i \in 1 .. Len(scopes[f])
    <3>1. CASE i = n
      BY <1>6, <1>9, <3>1
    <3>2. CASE i # n
      <4>1. i \in 1 .. n - 1
        BY <1>2, <1>4, <3>2
      <4>2. QED
        BY <1>4, <4>1 DEF IsUow
    <3>3. QED
      BY <3>1, <3>2
  <2>6. \A g \in Flows : (Active(g)' <=> Active(g))
    BY <1>7 DEF Active
  <2>7. nuow \in Nat
    BY DEF IInv, TypeOK, UowOrNull
  <2> HIDE DEF l, x
  <2>8. \A w \in Uow : w <= nuow /\ w # local[f] => held'[w] = held[w]
    BY <1>20 DEF l
  <2>9. \A g \in Flows : g # f => local'[g] = local[g] /\ scopes'[g] = scopes[g]
    BY <1>4, <1>19
  <2>10. /\ status' = status /\ parent' = parent /\ request' = request
         /\ nuow' = nuow /\ phase' = phase /\ outer' = outer /\ nuow <= nuow'
    BY <1>7, <2>7
  <2>11. \A y \in Uow : y <= nuow =>
           /\ outer'[y] = outer[y]
           /\ disposed[y] => disposed'[y]
           /\ owner[y] # request[f] => phase'[y] = phase[y] /\ disposed'[y] = disposed[y]
    BY <2>3, <2>4, <2>10
  <2>12. QED
    BY <2>1, <2>2, <2>5, <2>6, <2>7, <2>8, <2>9, <2>10, <2>11 DEF LeafStep
<1>24. Ends(f, u)
  BY <1>9, <1>10, <1>14 DEF Ends
<1>25. QED
  BY <1>1, <1>12, <1>15, <1>16, <1>22, <1>23, <1>24, LeafStepKeeps

-----------------------------------------------------------------------------
(* Frames that start and end.                                              *)

\* What the parts that do not speak of the stack need of such a step.
LEMMA FrameStepKeeps ==
  ASSUME PhaseInv, OuterInv, NEW g \in Flows, scopes[g] = <<>>,
         phase' = phase, disposed' = disposed, outer' = outer, scopes' = scopes,
         \A h \in Flows : h # g => status'[h] = status[h]
  PROVE  PhaseInv' /\ OuterInv'
<1>1. \A h \in Flows : \A i : IsUow(h, i)' <=> IsUow(h, i)
  BY DEF IsUow
<1>2. PhaseInv'
  <2> SUFFICES ASSUME NEW h \in Flows, NEW i \in 1 .. Len(scopes[h]), IsUow(h, i)
               PROVE  PhaseWell(h, i)'
    BY <1>1 DEF PhaseInv
  <2>1. PhaseWell(h, i)
    BY DEF PhaseInv
  <2>2. h # g
    OBVIOUS
  <2>3. QED
    BY <1>1, <2>1, <2>2 DEF PhaseWell
<1>3. OuterInv'
  BY DEF OuterInv, Live
<1>4. QED
  BY <1>2, <1>3

\* The content of a wrapper is untouched.
LEMMA FreshSame ==
  ASSUME phase' = phase, disposed' = disposed, outer' = outer, held' = held,
         NEW f \in Flows, NEW g \in Flows, local'[g] = local[f], Fresh(Inside(local[f]))
  PROVE  Fresh(Inside(local[g]))'
<1>1. Inside(local[g])' = Inside(local[f])
  BY DEF Inside
<1>2. PICK x : x = Inside(local[f])
  OBVIOUS
<1>3. QED
  BY <1>1, <1>2 DEF Fresh, Live

LEMMA StartRequestKeeps ==
  ASSUME IInv, ScopeInv, NEW d \in [Flows -> Nat], SeqInv(d),
         NEW f \in Flows, StartRequest(f)
  PROVE  SeqInv(d)'
<1>1. /\ f \in Roots /\ status[f] = "idle" /\ status' = [status EXCEPT ![f] = "running"]
      /\ parent' = parent /\ request' = request /\ local' = local /\ scopes' = scopes
      /\ nuow' = nuow /\ phase' = phase /\ disposed' = disposed /\ outer' = outer /\ held' = held
  BY DEF StartRequest, uowVars
<1>2. scopes[f] = <<>> /\ local[f] = NoUow /\ request[f] = f /\ parent[f] = f /\ ~Active(f)
  BY <1>1 DEF IInv, IdleInv, SeqInv, StackInv, Active
<1>3. status'[f] = "running" /\ \A g \in Flows : g # f => status'[g] = status[g]
  BY <1>1 DEF IInv, TypeOK
<1>4. \A g \in Flows : Active(g)' <=> Active(g) \/ g = f
  BY <1>3 DEF Active
<1>5. \A g \in Flows : Active(g) => request[g] # f
  BY <1>2 DEF SeqInv, StackInv
<1>6. \A g \in Flows : g # f => (HasRunningCallee(g)' <=> HasRunningCallee(g))
  BY <1>1, <1>2, <1>3 DEF HasRunningCallee
<1>7. \A g, h \in Flows : Active(g)' /\ Active(h)' /\ request[g] = request[h] /\ g # h =>
        Active(g) /\ Active(h)
  BY <1>2, <1>4, <1>5
<1>8. d[f] \in Nat
  OBVIOUS
<1>9. StackInv(d)'
  <2>1. \A g \in Flows : status'[g] = "idle" => request[g] = g /\ parent[g] = g
    BY <1>3 DEF SeqInv, StackInv
  <2>2. \A g \in Flows : Active(g)' =>
          /\ request[g] \in Roots /\ Active(request[g])' /\ d[request[g]] <= d[g]
          /\ request[request[g]] = request[g] /\ request[parent[g]] = request[g]
    BY <1>1, <1>2, <1>4, <1>8, FlowsAssumption DEF SeqInv, StackInv
  <2>3. \A g, h \in Flows : Active(g)' /\ Active(h)' /\ request[g] = request[h] =>
          /\ d[g] = d[h] => g = h
          /\ d[g] < d[h] => \E k \in Flows : /\ Active(k)' /\ k # g /\ parent[k] = g
                                             /\ d[k] = d[g] + 1
    BY <1>4, <1>7, <1>8 DEF SeqInv, StackInv
  <2>4. \A g \in Flows : status'[g] = "completing" => ~HasRunningCallee(g)'
    BY <1>3, <1>6 DEF SeqInv, StackInv
  <2>5. QED
    BY <1>1, <2>1, <2>2, <2>3, <2>4 DEF StackInv
<1>10. OrderInv(d)'
  BY <1>1 DEF SeqInv, OrderInv, IsUow
<1>11. PhaseInv' /\ OuterInv'
  BY <1>1, <1>2, <1>3, FrameStepKeeps DEF SeqInv
<1>12. LeafInv'
  <2> SUFFICES ASSUME NEW g \in Flows, Active(g)', ~HasRunningCallee(g)'
               PROVE  Fresh(Inside(local[g]))'
    BY DEF LeafInv
  <2>1. CASE g = f
    BY <1>1, <1>2, <2>1 DEF Fresh, Inside
  <2>2. CASE g # f
    <3>1. Fresh(Inside(local[g]))
      BY <1>4, <1>6, <2>2 DEF SeqInv, LeafInv
    <3>2. QED
      BY <1>1, <3>1, FreshSame
  <2>3. QED
    BY <2>1, <2>2
<1>13. WrapperInv(d)'
  <2> SUFFICES ASSUME NEW a \in Flows, NEW g \in Flows, Active(a)', Active(g)',
                      request[a] = request[g], d[a] < d[g]
               PROVE  /\ local[a] = local[g] \/ Frozen(a, d)'
                      /\ \A h \in Flows : /\ Active(h)' /\ request[h] = request[g] /\ d[g] < d[h]
                                          /\ local[a] = local[h] /\ local[a] # NoUow
                                          => local[a] = local[g]
    BY <1>1 DEF WrapperInv
  <2>1. a # g /\ Active(a) /\ Active(g)
    BY <1>7, <1>8
  <2>2. Frozen(a, d) => Frozen(a, d)'
    BY <1>1, <1>4 DEF Frozen, Inside, IsUow
  <2>3. \A h \in Flows : Active(h)' /\ request[h] = request[g] => Active(h)
    BY <1>4, <1>5, <1>2, <2>1
  <2>4. QED
    BY <2>1, <2>2, <2>3 DEF SeqInv, WrapperInv
<1>14. QED
  BY <1>9, <1>10, <1>11, <1>12, <1>13 DEF SeqInv

\* The frame that is called is one deeper than its caller.
LEMMA CallKeeps ==
  ASSUME IInv, ScopeInv, Concurrent = FALSE, NEW d \in [Flows -> Nat], SeqInv(d),
         NEW f \in Flows, NEW g \in Flows, Call(f, g)
  PROVE  \E e \in [Flows -> Nat] : e = [d EXCEPT ![g] = d[f] + 1] /\ SeqInv(e)'
<1>1. PICK e \in [Flows -> Nat] : e = [d EXCEPT ![g] = d[f] + 1]
  <2>1. d[f] + 1 \in Nat
    OBVIOUS
  <2>2. [d EXCEPT ![g] = d[f] + 1] \in [Flows -> Nat]
    BY <2>1
  <2>3. QED
    BY <2>2
<1>2. /\ g \notin Roots /\ status[g] = "idle" /\ status' = [status EXCEPT ![g] = "running"]
      /\ parent' = [parent EXCEPT ![g] = f] /\ request' = [request EXCEPT ![g] = request[f]]
      /\ local' = [local EXCEPT ![g] = local[f]] /\ scopes' = scopes
      /\ nuow' = nuow /\ phase' = phase /\ disposed' = disposed /\ outer' = outer /\ held' = held
  BY DEF Call, uowVars
<1>3. Leaf(f) /\ status[f] = "running" /\ f # g
  BY <1>2 DEF Call, CanStep, Leaf, Active
<1>4. scopes[g] = <<>> /\ request[g] = g /\ parent[g] = g /\ ~Active(g)
  BY <1>2 DEF IInv, IdleInv, SeqInv, StackInv, Active
<1>5. /\ status'[g] = "running" /\ parent'[g] = f /\ request'[g] = request[f]
      /\ local'[g] = local[f] /\ e[g] = d[f] + 1
      /\ \A h \in Flows : h # g => /\ status'[h] = status[h] /\ parent'[h] = parent[h]
                                   /\ request'[h] = request[h] /\ local'[h] = local[h]
                                   /\ e[h] = d[h]
      /\ \A h \in Flows : d[h] \in Nat
  BY <1>1, <1>2 DEF IInv, TypeOK
<1>6. \A h \in Flows : (Active(h)' <=> Active(h) \/ h = g) /\ (Active(h) => h # g)
  BY <1>4, <1>5 DEF Active
<1>7. /\ \A h \in Flows : Active(h) => /\ request[h] \in Roots /\ request[h] # g /\ parent[h] # g
                                       /\ parent[h] \in Flows /\ request[h] \in Flows
  <2> SUFFICES ASSUME NEW h \in Flows, Active(h)
               PROVE  /\ request[h] \in Roots /\ request[h] # g /\ parent[h] # g
                      /\ parent[h] \in Flows /\ request[h] \in Flows
    OBVIOUS
  <2>1. request[h] \in Roots /\ request[parent[h]] = request[h]
    BY DEF SeqInv, StackInv
  <2>2. QED
    BY <1>2, <1>4, <2>1 DEF IInv, TypeOK
\* The frames of the request are less deep than g.
<1>8. \A h \in Flows : Active(h) /\ request[h] = request[f] => e[h] < e[g] /\ e[h] = d[h]
  <2> SUFFICES ASSUME NEW h \in Flows, Active(h), request[h] = request[f]
               PROVE  e[h] < e[g] /\ e[h] = d[h]
    OBVIOUS
  <2>1. h = f \/ d[h] < d[f]
    BY <1>3, LeafIsDeepest DEF SeqInv
  <2>2. e[h] = d[h]
    BY <1>5, <1>6
  <2>3. QED
    BY <1>5, <2>1, <2>2
<1>9. \A h \in Flows : h # f /\ h # g => (HasRunningCallee(h)' <=> HasRunningCallee(h))
  <2> SUFFICES ASSUME NEW h \in Flows, h # f, h # g
               PROVE  HasRunningCallee(h)' <=> HasRunningCallee(h)
    OBVIOUS
  <2>1. \A k \in Flows : Active(k)' /\ parent'[k] = h <=> Active(k) /\ parent[k] = h
    BY <1>4, <1>5, <1>6
  <2>2. QED
    BY <2>1 DEF HasRunningCallee, Active
<1>10. StackInv(e)'
  <2>1. \A h \in Flows : status'[h] = "idle" => request'[h] = h /\ parent'[h] = h
    BY <1>5 DEF SeqInv, StackInv
  <2>2. \A h \in Flows : Active(h)' =>
          /\ request'[h] \in Roots /\ Active(request[h])' /\ e[request'[h]] <= e[h]
          /\ request'[request'[h]] = request'[h] /\ request'[parent'[h]] = request'[h]
    <3> SUFFICES ASSUME NEW h \in Flows, Active(h)'
                 PROVE  /\ request'[h] \in Roots /\ Active(request[h])' /\ e[request'[h]] <= e[h]
                        /\ request'[request'[h]] = request'[h]
                        /\ request'[parent'[h]] = request'[h]
      OBVIOUS
    <3>1. PICK k \in Flows : /\ k = IF h = g THEN f ELSE h
                             /\ Active(k) /\ request'[h] = request[k] /\ d[k] <= e[h]
      BY <1>3, <1>5, <1>6 DEF Leaf
    <3>2. PICK r \in Flows : /\ r = request[k] /\ r # g /\ r \in Roots
                             /\ Active(r) /\ d[r] <= d[k] /\ request[r] = r
      BY <1>7, <3>1 DEF SeqInv, StackInv
    <3>3. Active(r)' /\ e[r] = d[r] /\ request'[r] = r
      BY <1>5, <1>6, <3>2
    <3>4. e[r] <= e[h]
      BY <1>5, <3>1, <3>2, <3>3
    <3>5. request'[parent'[h]] = r
      <4>1. CASE h = g
        BY <1>3, <1>5, <3>1, <3>2, <4>1
      <4>2. CASE h # g
        <5>1. PICK p \in Flows : p = parent[h] /\ p # g /\ request[p] = request[h]
          BY <1>7, <3>1, <4>2 DEF SeqInv, StackInv
        <5>2. QED
          BY <1>5, <3>1, <3>2, <4>2, <5>1
      <4>3. QED
        BY <4>1, <4>2
    <3>6. Active(request[h])'
      BY <3>1, <3>2, <3>3 DEF Active
    <3>7. QED
      BY <3>1, <3>2, <3>3, <3>4, <3>5, <3>6
  <2>3. \A h, k \in Flows : Active(h)' /\ Active(k)' /\ request'[h] = request'[k] =>
          /\ e[h] = e[k] => h = k
          /\ e[h] < e[k] => \E m \in Flows : /\ Active(m)' /\ m # h /\ parent'[m] = h
                                             /\ e[m] = e[h] + 1
    <3> SUFFICES ASSUME NEW h \in Flows, NEW k \in Flows, Active(h)', Active(k)',
                        request'[h] = request'[k]
                 PROVE  /\ e[h] = e[k] => h = k
                        /\ e[h] < e[k] => \E m \in Flows : /\ Active(m)' /\ m # h /\ parent'[m] = h
                                                           /\ e[m] = e[h] + 1
      OBVIOUS
    <3>1. CASE h # g /\ k # g
      <4>1. Active(h) /\ Active(k) /\ request[h] = request[k] /\ e[h] = d[h] /\ e[k] = d[k]
        BY <1>5, <1>6, <3>1
      <4>2. d[h] = d[k] => h = k
        BY <4>1 DEF SeqInv, StackInv
      <4>3. d[h] < d[k] => \E m \in Flows : /\ Active(m) /\ m # h /\ parent[m] = h
                                            /\ d[m] = d[h] + 1
        BY <4>1 DEF SeqInv, StackInv
      <4>4. QED
        BY <1>5, <1>6, <4>1, <4>2, <4>3
    <3>2. CASE h = g /\ k # g
      <4>1. e[k] < e[h]
        BY <1>5, <1>6, <1>8, <3>2
      <4>2. e[h] \in Nat /\ e[k] \in Nat
        OBVIOUS
      <4>3. QED
        BY <4>1, <4>2
    <3>3. CASE h # g /\ k = g
      <4>1. e[h] < e[k] /\ e[h] = d[h] /\ Active(h) /\ request[h] = request[f]
        BY <1>5, <1>6, <1>8, <3>3
      <4>2. e[h] \in Nat /\ e[k] \in Nat
        OBVIOUS
      <4>3. CASE h = f
        BY <1>3, <1>5, <1>6, <4>1, <4>2, <4>3
      <4>4. CASE h # f
        <5>1. d[h] < d[f]
          BY <1>3, <4>1, <4>4, LeafIsDeepest DEF SeqInv
        <5>2. \E m \in Flows : Active(m) /\ m # h /\ parent[m] = h /\ d[m] = d[h] + 1
          BY <1>3, <4>1, <5>1 DEF SeqInv, StackInv, Leaf
        <5>3. QED
          BY <1>5, <1>6, <4>1, <4>2, <5>2
      <4>5. QED
        BY <4>3, <4>4
    <3>4. CASE h = g /\ k = g
      <4>1. e[g] \in Nat
        OBVIOUS
      <4>2. QED
        BY <3>4, <4>1
    <3>5. QED
      BY <3>1, <3>2, <3>3, <3>4
  <2>4. \A h \in Flows : status'[h] = "completing" => ~HasRunningCallee(h)'
    BY <1>3, <1>5, <1>9 DEF SeqInv, StackInv
  <2>5. QED
    BY <2>1, <2>2, <2>3, <2>4 DEF StackInv
<1>11. OrderInv(e)'
  <2> SUFFICES ASSUME NEW a \in Flows, NEW b \in Flows, request'[a] = request'[b],
                      NEW i \in 1 .. Len(scopes[a]), NEW j \in 1 .. Len(scopes[b]),
                      IsUow(a, i), IsUow(b, j), e[a] < e[b] \/ (a = b /\ i < j)
               PROVE  scopes[a][i].uow < scopes[b][j].uow
    BY <1>2 DEF OrderInv, IsUow
  <2>1. a # g /\ b # g
    BY <1>4
  <2>2. request[a] = request[b] /\ e[a] = d[a] /\ e[b] = d[b]
    BY <1>5, <2>1
  <2>3. QED
    BY <2>2 DEF SeqInv, OrderInv
<1>12. PhaseInv' /\ OuterInv'
  BY <1>2, <1>4, <1>5, FrameStepKeeps DEF SeqInv
<1>13. LeafInv'
  <2> SUFFICES ASSUME NEW h \in Flows, Active(h)', ~HasRunningCallee(h)'
               PROVE  Fresh(Inside(local[h]))'
    BY DEF LeafInv
  <2>1. CASE h = g
    <3>1. Fresh(Inside(local[f])) /\ local'[h] = local[f]
      BY <1>3, <1>5, <2>1 DEF SeqInv, LeafInv, Leaf
    <3>2. QED
      BY <1>2, <3>1, FreshSame
  <2>2. CASE h # g /\ h # f
    <3>1. Fresh(Inside(local[h])) /\ local'[h] = local[h]
      BY <1>5, <1>6, <1>9, <2>2 DEF SeqInv, LeafInv
    <3>2. QED
      BY <1>2, <3>1, FreshSame
  <2>3. CASE h = f
    <3>1. HasRunningCallee(f)'
      BY <1>3, <1>5 DEF HasRunningCallee
    <3>2. QED
      BY <2>3, <3>1 DEF HasRunningCallee
  <2>4. QED
    BY <2>1, <2>2, <2>3
<1>14. WrapperInv(e)'
  <2> SUFFICES ASSUME NEW a \in Flows, NEW b \in Flows, Active(a)', Active(b)',
                      request'[a] = request'[b], e[a] < e[b]
               PROVE  /\ local'[a] = local'[b] \/ Frozen(a, e)'
                      /\ \A h \in Flows : /\ Active(h)' /\ request'[h] = request'[b] /\ e[b] < e[h]
                                          /\ local'[a] = local'[h] /\ local'[a] # NoUow
                                          => local'[a] = local'[b]
    BY DEF WrapperInv
  <2>0. \A h \in Flows : e[h] \in Nat
    OBVIOUS
  <2>1. a # g
    BY <1>5, <1>6, <1>8, <2>0
  <2>2. Active(a) /\ local'[a] = local[a] /\ request'[a] = request[a] /\ e[a] = d[a]
    BY <1>5, <1>6, <2>1
  <2>3. Frozen(a, d) => Frozen(a, e)'
    <3> SUFFICES ASSUME Frozen(a, d)
                 PROVE  Frozen(a, e)'
      OBVIOUS
    <3>1. PICK x : x = Inside(local[a])
      OBVIOUS
    <3>2. Inside(local[a])' = x
      BY <1>2, <2>2, <3>1 DEF Inside
    <3>3. CASE x = NoUow \/ (outer[x] = NoUow /\ disposed[x])
      BY <1>2, <3>2, <3>3 DEF Frozen
    <3>4. CASE x # NoUow /\ ~(outer[x] = NoUow /\ disposed[x])
      <4>1. outer[x] = NoUow
        BY <3>1, <3>4 DEF Frozen
      <4>2. PICK h \in Flows : /\ Active(h) /\ request[h] = request[a] /\ d[h] > d[a]
                               /\ \E i \in 1 .. Len(scopes[h]) :
                                    IsUow(h, i) /\ scopes[h][i].uow = x
        BY <3>1, <3>4 DEF Frozen
      <4>3. Active(h)' /\ request'[h] = request[h] /\ e[h] = d[h]
        BY <1>5, <1>6, <4>2
      <4>4. \E i \in 1 .. Len(scopes[h]) : IsUow(h, i)' /\ scopes[h][i].uow = x
        BY <1>2, <4>2 DEF IsUow
      <4>5. QED
        BY <1>2, <2>2, <3>2, <4>1, <4>2, <4>3, <4>4 DEF Frozen
    <3>5. QED
      BY <3>3, <3>4
  <2>4. CASE b # g
    <3>1. Active(b) /\ local'[b] = local[b] /\ request'[b] = request[b] /\ e[b] = d[b]
      BY <1>5, <1>6, <2>4
    <3>2. local[a] = local[b] \/ Frozen(a, d)
      BY <2>2, <3>1 DEF SeqInv, WrapperInv
    <3>3. ASSUME NEW h \in Flows, Active(h)', request'[h] = request'[b], e[b] < e[h],
                 local'[a] = local'[h], local'[a] # NoUow
          PROVE  local[a] = local[b]
      <4>1. CASE h # g
        <5>1. Active(h) /\ local'[h] = local[h] /\ request'[h] = request[h] /\ e[h] = d[h]
          BY <1>5, <1>6, <3>3, <4>1
        <5>2. QED
          BY <2>2, <3>1, <3>3, <5>1 DEF SeqInv, WrapperInv
      <4>2. CASE h = g
        <5>1. local[a] = local[f] /\ request[b] = request[f]
          BY <1>5, <2>2, <3>1, <3>3, <4>2
        <5>2. b = f \/ d[b] < d[f]
          BY <1>3, <3>1, <5>1, LeafIsDeepest DEF SeqInv
        <5>3. CASE b = f
          BY <5>1, <5>3
        <5>4. CASE d[b] < d[f]
          <6>1. Active(f) /\ request[f] = request[b] /\ request[a] = request[b] /\ d[a] < d[b]
            BY <1>3, <2>2, <3>1, <5>1 DEF Leaf
          <6>2. local[a] # NoUow
            BY <2>2, <3>3
          <6>3. QED
            BY <2>2, <3>1, <5>1, <5>4, <6>1, <6>2 DEF SeqInv, WrapperInv
        <5>5. QED
          BY <5>2, <5>3, <5>4
      <4>3. QED
        BY <4>1, <4>2
    <3>4. QED
      BY <2>2, <2>3, <3>1, <3>2, <3>3
  <2>5. CASE b = g
    <3>1. request[a] = request[f] /\ local'[b] = local[f]
      BY <1>5, <2>2, <2>5
    <3>2. a = f \/ d[a] < d[f]
      BY <1>3, <2>2, <3>1, LeafIsDeepest DEF SeqInv
    <3>3. local[a] = local[f] \/ Frozen(a, d)
      BY <1>3, <2>2, <3>1, <3>2 DEF SeqInv, WrapperInv, Leaf
    <3>4. \A h \in Flows : Active(h)' /\ request'[h] = request'[b] => ~(e[b] < e[h])
      <4> SUFFICES ASSUME NEW h \in Flows, Active(h)', request'[h] = request'[b], h # g
                   PROVE  e[h] < e[g]
        BY <2>0, <2>5
      <4>1. Active(h) /\ request[h] = request[f]
        BY <1>5, <1>6, <2>5
      <4>2. QED
        BY <1>8, <4>1
    <3>5. QED
      BY <2>2, <2>3, <3>1, <3>3, <3>4
  <2>6. QED
    BY <2>4, <2>5
<1>15. QED
  BY <1>1, <1>10, <1>11, <1>12, <1>13, <1>14 DEF SeqInv

LEMMA ReturnKeeps ==
  ASSUME IInv, ScopeInv, Concurrent = FALSE, NEW d \in [Flows -> Nat], SeqInv(d),
         NEW f \in Flows, Return(f)
  PROVE  SeqInv(d)'
<1>1. /\ scopes[f] = <<>> /\ status' = [status EXCEPT ![f] = "returned"]
      /\ parent' = parent /\ request' = request /\ local' = local /\ scopes' = scopes
      /\ nuow' = nuow /\ phase' = phase /\ disposed' = disposed /\ outer' = outer /\ held' = held
  BY DEF Return, uowVars
<1>2. Leaf(f) /\ status[f] = "running"
  BY DEF Return, CanStep, Leaf, Active
<1>3. status'[f] = "returned" /\ \A g \in Flows : g # f => status'[g] = status[g]
  BY <1>1 DEF IInv, TypeOK
<1>4. \A g \in Flows : Active(g)' <=> Active(g) /\ g # f
  BY <1>3 DEF Active
<1>5. \A g \in Flows : HasRunningCallee(g)' => HasRunningCallee(g)
  BY <1>1, <1>2, <1>3 DEF HasRunningCallee
<1>6. \A g \in Flows : Active(g) /\ request[g] = request[f] /\ g # f => d[g] < d[f]
  BY <1>2, LeafIsDeepest DEF SeqInv
<1>7. \A g \in Flows : d[g] \in Nat
  OBVIOUS
\* f is the root of no other active frame.
<1>8. \A g \in Flows : Active(g) /\ g # f => request[g] # f
  <2> SUFFICES ASSUME NEW g \in Flows, Active(g), g # f, request[g] = f
               PROVE  FALSE
    OBVIOUS
  <2>1. request[f] = f /\ d[f] <= d[g]
    BY DEF SeqInv, StackInv
  <2>2. QED
    BY <1>6, <1>7, <2>1
\* A callee of f's caller that is deeper than f is none: f is the only one.
<1>9. \A g, h \in Flows : Active(g) /\ Active(h) /\ request[g] = request[h] /\ d[g] < d[h]
                           /\ h # f =>
        \E k \in Flows : /\ Active(k) /\ k # f /\ k # g /\ parent[k] = g /\ d[k] = d[g] + 1
  <2> SUFFICES ASSUME NEW g \in Flows, NEW h \in Flows, Active(g), Active(h),
                      request[g] = request[h], d[g] < d[h], h # f
               PROVE  \E k \in Flows : /\ Active(k) /\ k # f /\ k # g /\ parent[k] = g
                                       /\ d[k] = d[g] + 1
    OBVIOUS
  <2>1. PICK k \in Flows : Active(k) /\ k # g /\ parent[k] = g /\ d[k] = d[g] + 1
    BY DEF SeqInv, StackInv
  <2>2. k # f
    <3> SUFFICES ASSUME k = f
                 PROVE  FALSE
      OBVIOUS
    <3>1. request[f] = request[g]
      BY <2>1 DEF SeqInv, StackInv
    <3>2. d[h] < d[f]
      BY <1>6, <3>1
    <3>3. QED
      BY <1>7, <2>1, <3>2
  <2>3. QED
    BY <2>1, <2>2
<1>10. StackInv(d)'
  <2>1. \A g \in Flows : status'[g] = "idle" => request[g] = g /\ parent[g] = g
    BY <1>3 DEF SeqInv, StackInv
  <2>2. \A g \in Flows : Active(g)' =>
          /\ request[g] \in Roots /\ Active(request[g])' /\ d[request[g]] <= d[g]
          /\ request[request[g]] = request[g] /\ request[parent[g]] = request[g]
    <3> SUFFICES ASSUME NEW g \in Flows, Active(g)'
                 PROVE  /\ request[g] \in Roots /\ Active(request[g])' /\ d[request[g]] <= d[g]
                        /\ request[request[g]] = request[g] /\ request[parent[g]] = request[g]
      OBVIOUS
    <3>1. PICK r \in Flows : /\ r = request[g] /\ r \in Roots /\ Active(r) /\ d[r] <= d[g]
                             /\ request[r] = r /\ request[parent[g]] = r
      BY <1>4 DEF SeqInv, StackInv, IInv, TypeOK
    <3>2. Active(r)'
      BY <1>4, <1>8, <3>1
    <3>3. Active(request[g])'
      BY <1>1, <3>1, <3>2 DEF Active
    <3>4. QED
      BY <3>1, <3>3
  <2>3. \A g, h \in Flows : Active(g)' /\ Active(h)' /\ request[g] = request[h] =>
          /\ d[g] = d[h] => g = h
          /\ d[g] < d[h] => \E k \in Flows : /\ Active(k)' /\ k # g /\ parent[k] = g
                                             /\ d[k] = d[g] + 1
    <3> SUFFICES ASSUME NEW g \in Flows, NEW h \in Flows, Active(g), Active(h), g # f, h # f,
                        request[g] = request[h]
                 PROVE  /\ d[g] = d[h] => g = h
                        /\ d[g] < d[h] => \E k \in Flows : /\ Active(k)' /\ k # g /\ parent[k] = g
                                                           /\ d[k] = d[g] + 1
      BY <1>4
    <3>1. d[g] = d[h] => g = h
      BY DEF SeqInv, StackInv
    <3>2. QED
      BY <1>4, <1>9, <3>1
  <2>4. \A g \in Flows : status'[g] = "completing" => ~HasRunningCallee(g)'
    BY <1>3, <1>5 DEF SeqInv, StackInv
  <2>5. QED
    BY <1>1, <2>1, <2>2, <2>3, <2>4 DEF StackInv
<1>11. OrderInv(d)'
  BY <1>1 DEF SeqInv, OrderInv, IsUow
<1>12. PhaseInv' /\ OuterInv'
  BY <1>1, <1>3, FrameStepKeeps DEF SeqInv
\* The caller of f is the next to execute.
<1>13. LeafInv'
  <2> SUFFICES ASSUME NEW g \in Flows, Active(g)', ~HasRunningCallee(g)'
               PROVE  Fresh(Inside(local[g]))'
    BY DEF LeafInv
  <2>1. Active(g) /\ g # f
    BY <1>4
  <2>2. Fresh(Inside(local[g]))
    <3>1. CASE ~HasRunningCallee(g)
      BY <2>1, <3>1 DEF SeqInv, LeafInv
    <3>2. CASE HasRunningCallee(g)
      <4>1. PICK h \in Flows : h # g /\ parent[h] = g /\ Active(h)
        BY <3>2 DEF HasRunningCallee, Active
      <4>2. ~\E k \in Flows : k # g /\ k # f /\ parent[k] = g /\ Active(k)
        <5> SUFFICES ASSUME NEW k \in Flows, k # g, k # f, parent[k] = g, Active(k)
                     PROVE  FALSE
          OBVIOUS
        <5>1. parent'[k] = g /\ status'[k] \in {"running", "completing"}
          BY <1>1, <1>3 DEF Active
        <5>2. HasRunningCallee(g)'
          BY <5>1 DEF HasRunningCallee
        <5>3. QED
          BY <5>2
      <4>3. parent[f] = g
        BY <4>1, <4>2
      <4>4. request[g] = request[f] /\ d[g] < d[f]
        BY <1>2, <1>6, <2>1, <4>3 DEF SeqInv, StackInv, Leaf
      <4>5. local[g] = local[f] \/ Frozen(g, d)
        BY <1>2, <2>1, <4>4 DEF SeqInv, WrapperInv, Leaf
      <4>6. CASE local[g] = local[f]
        <5>1. Fresh(Inside(local[f]))
          BY <1>2 DEF SeqInv, LeafInv, Leaf
        <5>2. QED
          BY <4>6, <5>1
      <4>7. CASE Frozen(g, d)
        <5>1. ~\E h2 \in Flows : /\ Active(h2) /\ request[h2] = request[g] /\ d[h2] > d[g]
                                 /\ scopes[h2] # <<>>
          BY <1>1, <1>9, <2>1, <4>2
        <5>2. \A h2 \in Flows : scopes[h2] = <<>> => 1 .. Len(scopes[h2]) = {}
          OBVIOUS
        <5>3. Inside(local[g]) = NoUow
              \/ (outer[Inside(local[g])] = NoUow /\ disposed[Inside(local[g])])
          BY <4>7, <5>1, <5>2 DEF Frozen
        <5>4. QED
          BY <5>3 DEF Fresh
      <4>8. QED
        BY <4>5, <4>6, <4>7
    <3>3. QED
      BY <3>1, <3>2
  <2>3. QED
    BY <1>1, <2>2, FreshSame
<1>14. WrapperInv(d)'
  <2> SUFFICES ASSUME NEW a \in Flows, NEW b \in Flows, Active(a), Active(b),
                      request[a] = request[b], d[a] < d[b]
               PROVE  /\ local[a] = local[b] \/ Frozen(a, d)'
                      /\ \A h \in Flows : /\ Active(h) /\ request[h] = request[b] /\ d[b] < d[h]
                                          /\ local[a] = local[h] /\ local[a] # NoUow
                                          => local[a] = local[b]
    BY <1>1, <1>4 DEF WrapperInv
  <2>1. /\ local[a] = local[b] \/ Frozen(a, d)
        /\ \A h \in Flows : /\ Active(h) /\ request[h] = request[b] /\ d[b] < d[h]
                            /\ local[a] = local[h] /\ local[a] # NoUow
                            => local[a] = local[b]
    BY DEF SeqInv, WrapperInv
  <2>2. Frozen(a, d) => Frozen(a, d)'
    <3> SUFFICES ASSUME Frozen(a, d)
                 PROVE  Frozen(a, d)'
      OBVIOUS
    <3>1. PICK x : x = Inside(local[a])
      OBVIOUS
    <3>2. Inside(local[a])' = x
      BY <1>1, <3>1 DEF Inside
    <3>3. CASE x = NoUow \/ (outer[x] = NoUow /\ disposed[x])
      BY <1>1, <3>2, <3>3 DEF Frozen
    <3>4. CASE x # NoUow /\ ~(outer[x] = NoUow /\ disposed[x])
      <4>1. outer[x] = NoUow
        BY <3>1, <3>4 DEF Frozen
      <4>2. PICK h \in Flows : /\ Active(h) /\ request[h] = request[a] /\ d[h] > d[a]
                               /\ \E i \in 1 .. Len(scopes[h]) :
                                    IsUow(h, i) /\ scopes[h][i].uow = x
        BY <3>1, <3>4 DEF Frozen
      <4>3. h # f
        BY <1>1, <4>2
      <4>4. Active(h)' /\ request'[h] = request'[a]
        BY <1>1, <1>4, <4>2, <4>3
      <4>5. \E i \in 1 .. Len(scopes[h]) : IsUow(h, i)' /\ scopes[h][i].uow = x
        BY <1>1, <4>2 DEF IsUow
      <4>6. QED
        BY <1>1, <3>2, <4>1, <4>2, <4>4, <4>5 DEF Frozen
    <3>5. QED
      BY <3>3, <3>4
  <2>3. QED
    BY <2>1, <2>2
<1>15. QED
  BY <1>10, <1>11, <1>12, <1>13, <1>14 DEF SeqInv

-----------------------------------------------------------------------------
(* What is current is active.                                              *)

SomeDepths == \E d \in [Flows -> Nat] : SeqInv(d)

LEMMA InitFrames == Init => SomeDepths
<1> SUFFICES ASSUME Init PROVE SomeDepths
  OBVIOUS
<1>1. PICK d \in [Flows -> Nat] : \A f \in Flows : d[f] = 0
  <2>1. [f \in Flows |-> 0] \in [Flows -> Nat]
    OBVIOUS
  <2>2. QED
    BY <2>1
<1>2. \A f \in Flows : ~Active(f) /\ scopes[f] = <<>>
  BY DEF Init, Active
<1>3. StackInv(d) /\ WrapperInv(d) /\ LeafInv
  BY <1>2 DEF Init, StackInv, WrapperInv, LeafInv, Active
<1>4. OrderInv(d) /\ PhaseInv
  BY <1>2 DEF OrderInv, PhaseInv
<1>5. OuterInv
  BY DEF Init, OuterInv, Live
<1>6. QED
  BY <1>3, <1>4, <1>5 DEF SomeDepths, SeqInv

LEMMA FrameStepDepths ==
  ASSUME IInv, ScopeInv, Concurrent = FALSE, NEW d \in [Flows -> Nat], SeqInv(d),
         NEW f \in Flows, FrameStep(f)
  PROVE  SeqInv(d)'
<1>1. CASE Return(f)
  BY <1>1, ReturnKeeps
<1>2. CASE ReadCurrent(f) \/ BeginJoin(f) \/ CompleteJoined(f) \/ DisposeJoined(f)
  BY <1>2, QuietSteps
<1>3. CASE \E opt \in Options : BeginNew(f, opt)
  BY <1>3, BeginNewKeeps
<1>4. CASE CompleteStart(f)
  BY <1>4, CompleteStartKeeps
<1>5. CASE CompleteSucceeds(f) \/ CompleteFails(f) \/ PublishFails(f)
  BY <1>5, CompleteEnds
<1>6. CASE DisposeUow(f)
  BY <1>6, DisposeKeeps
<1>7. QED
  BY <1>1, <1>2, <1>3, <1>4, <1>5, <1>6 DEF FrameStep

LEMMA SameFrames ==
  ASSUME NEW d \in [Flows -> Nat], SeqInv(d), UNCHANGED vars
  PROVE  SeqInv(d)'
  BY DEF vars, SeqInv, StackInv, OrderInv, WrapperInv, PhaseInv, OuterInv, LeafInv,
         PhaseWell, Frozen, Fresh, Live, Active, IsUow, Inside, HasRunningCallee

LEMMA StepFrames ==
  ASSUME Concurrent = FALSE
  PROVE  IInv /\ ScopeInv /\ SomeDepths /\ [Next]_vars => SomeDepths'
<1> SUFFICES ASSUME IInv, ScopeInv, NEW d \in [Flows -> Nat], SeqInv(d), [Next]_vars
             PROVE  \E e \in [Flows -> Nat] : SeqInv(e)'
  BY DEF SomeDepths
<1>1. ASSUME NEW f \in Flows, StartRequest(f)
      PROVE  SeqInv(d)'
  BY <1>1, StartRequestKeeps
<1>2. ASSUME NEW f \in Flows, NEW g \in Flows, Call(f, g)
      PROVE  \E e \in [Flows -> Nat] : SeqInv(e)'
  BY <1>2, CallKeeps
<1>3. ASSUME NEW f \in Flows, FrameStep(f)
      PROVE  SeqInv(d)'
  BY <1>3, FrameStepDepths
<1>4. CASE UNCHANGED vars
  BY <1>4, SameFrames
<1>5. QED
  BY <1>1, <1>2, <1>3, <1>4 DEF Next

\* While the frames of a request run one at a time, the unit of work that the executing
\* frame gets as current has not ended, whatever failed or was left open before.
THEOREM CurrentStaysActive ==
  ASSUME Concurrent = FALSE
  PROVE  Spec => []CurrentIsActive
<1>1. Init => IInv /\ ScopeInv /\ SomeDepths
  <2>1. Init => ScopeInv
    BY DEF Init, ScopeInv
  <2>2. QED
    BY <2>1, InitInv, InitFrames
<1>2. IInv /\ ScopeInv /\ SomeDepths /\ [Next]_vars => IInv' /\ ScopeInv' /\ SomeDepths'
  BY NextInv, StepScopes, StepFrames
<1>3. IInv /\ ScopeInv /\ SomeDepths => CurrentIsActive
  <2> SUFFICES ASSUME IInv, NEW d \in [Flows -> Nat], SeqInv(d),
                      NEW f \in Flows, Executing(f), Current(f) # NoUow
               PROVE  Current(f) \in LiveUows(request[f])
    BY DEF SomeDepths, CurrentIsActive
  <2>1. Leaf(f)
    BY DEF Executing, Leaf, Active
  <2>2. Current(f) = Inside(local[f]) /\ local[f] # NoUow /\ Current(f) = held[local[f]]
    BY DEF Current, Inside
  <2>3. ~disposed[Current(f)]
    BY <2>2 DEF Current, Stale
  <2>4. local[f] \in Uow /\ owner[local[f]] = request[f]
    BY <2>2, LocalFacts
  <2>5. Current(f) \in Uow /\ owner[Current(f)] = request[f]
    BY <2>2, <2>4 DEF IInv, TypeOK, OwnedInv, NoUow, Uow, UowOrNull
  <2>6. Live(Current(f))
    BY <2>1, <2>2, <2>3, <2>5 DEF SeqInv, LeafInv, Leaf, Fresh
  <2>7. QED
    BY <2>5, <2>6 DEF LiveUows, Live
<1>4. QED
  BY <1>1, <1>2, <1>3, PTL DEF Spec

-----------------------------------------------------------------------------
(* The plain stack of units of work.                                       *)

\* x is the youngest of the units of work in S, or there is none.
Top(x, S) == IF x = NoUow THEN S = {} ELSE x \in S /\ \A v \in S : v <= x

LiveBelow(u) == {v \in LiveUows(owner[u]) : v < u}

\* A callee is one deeper than its caller, and a request that is active has a frame that
\* executes.
TreeInv(d) ==
  /\ \A f \in Flows : Active(f) /\ request[f] # f => parent[f] # f
  /\ \A f \in Flows : Active(f) /\ parent[f] # f =>
       Active(parent[f]) /\ d[f] = d[parent[f]] + 1
  /\ \A r \in Roots : Active(r) => \E f \in Flows : Leaf(f) /\ request[f] = r

\* The executing frame finds the youngest live unit of work of its request.
CurrentInv ==
  \A f \in Flows : Leaf(f) /\ Unharmed(request[f]) => Top(Current(f), LiveUows(request[f]))

\* Outer is the live unit of work begun last before.
NestedInv == \A u \in Uow : Live(u) /\ Unharmed(owner[u]) => Top(outer[u], LiveBelow(u))

\* Where a callee has another wrapper than its caller, nothing is live that was begun
\* by the caller or further out.
ApartInv(d) ==
  \A a, g \in Flows :
    /\ Active(a) /\ Active(g) /\ request[a] = request[g] /\ d[a] < d[g] /\ local[a] # local[g]
    /\ Unharmed(request[g])
    => \A h \in Flows : request[h] = request[g] /\ d[h] <= d[a] =>
         \A i \in 1 .. Len(scopes[h]) : IsUow(h, i) => ~Live(scopes[h][i].uow)

NestInv(d) == TreeInv(d) /\ CurrentInv /\ NestedInv /\ ApartInv(d)

LEMMA TopIsOne ==
  ASSUME NEW S \in SUBSET Uow, NEW x, NEW y, Top(x, S), Top(y, S)
  PROVE  x = y
<1>1. NoUow \notin Uow
  BY DEF NoUow, Uow
<1>2. CASE x = NoUow \/ y = NoUow
  BY <1>1, <1>2 DEF Top
<1>3. CASE x # NoUow /\ y # NoUow
  <2>1. x \in Uow /\ y \in Uow /\ x <= y /\ y <= x
    BY <1>3 DEF Top
  <2>2. QED
    BY <2>1 DEF Uow
<1>4. QED
  BY <1>2, <1>3

LEMMA LiveFacts ==
  ASSUME IInv
  PROVE  /\ \A r : LiveUows(r) \in SUBSET Uow
         /\ \A r : \A x \in Uow : x \in LiveUows(r) <=> Live(x) /\ owner[x] = r
         /\ \A x \in Uow : Live(x) => x <= nuow
<1>1. \A x \in Uow : Live(x) => x <= nuow
  BY DEF IInv, TypeOK, CreatedInv, Live, Uow, UowOrNull
<1>2. QED
  BY <1>1 DEF LiveUows, Live

LEMMA CurrentFacts ==
  ASSUME IInv, NEW f \in Flows
  PROVE  /\ Current(f) \in UowOrNull
         /\ Current(f) # NoUow =>
              /\ Current(f) \in Uow /\ Current(f) <= nuow /\ owner[Current(f)] = request[f]
              /\ local[f] # NoUow /\ Current(f) = held[local[f]] /\ ~disposed[Current(f)]
<1>1. CASE Current(f) = NoUow
  BY <1>1 DEF NoUow, UowOrNull
<1>2. CASE Current(f) # NoUow
  <2>1. local[f] # NoUow /\ Current(f) = held[local[f]] /\ ~disposed[Current(f)]
    BY <1>2 DEF Current, Stale, Inside
  <2>2. local[f] \in Uow /\ owner[local[f]] = request[f]
    BY <2>1, LocalFacts
  <2>3. Current(f) \in UowOrNull /\ Current(f) <= nuow /\ owner[Current(f)] = request[f]
    BY <1>2, <2>1, <2>2 DEF IInv, TypeOK, CreatedInv, OwnedInv
  <2>4. Current(f) \in Uow
    BY <1>2, <2>3 DEF NoUow, Uow, UowOrNull
  <2>5. QED
    BY <2>1, <2>3, <2>4
<1>3. QED
  BY <1>1, <1>2

\* What every step of an executing frame f does to the units of work.
OwnStep(f) ==
  /\ LeafStep(f)
  /\ \A x \in Uow : x <= nuow =>
       /\ owner'[x] = owner[x]
       /\ Live(x)' => Live(x)
       /\ phase[x] \in {"failed", "unpublished"} => phase'[x] = phase[x]
  /\ \A x \in Uow : x > nuow /\ Live(x)' => owner'[x] = request[f]

LEMMA OthersKept ==
  ASSUME IInv, NEW d \in [Flows -> Nat], StackInv(d), NEW f \in Flows, Leaf(f), OwnStep(f)
  PROVE  /\ \A r : Unharmed(r)' => Unharmed(r)
         /\ \A r : r # request[f] => LiveUows(r)' = LiveUows(r)
         /\ \A g \in Flows : request[g] # request[f] => Current(g)' = Current(g)
<1>1. ASSUME NEW r, Unharmed(r)'
      PROVE  Unharmed(r)
  <2> SUFFICES ASSUME NEW x \in Uow, owner[x] = r, phase[x] \in {"failed", "unpublished"}
               PROVE  FALSE
    BY DEF Unharmed
  <2>1. x <= nuow
    BY DEF IInv, TypeOK, CreatedInv, Uow, UowOrNull
  <2>2. owner'[x] = r /\ phase'[x] = phase[x]
    BY <2>1 DEF OwnStep
  <2>3. QED
    BY <1>1, <2>2 DEF Unharmed
<1>2. ASSUME NEW r, r # request[f]
      PROVE  LiveUows(r)' = LiveUows(r)
  <2>1. ASSUME NEW x \in Uow
        PROVE  x \in LiveUows(r)' <=> x \in LiveUows(r)
    <3>1. x <= nuow \/ x > nuow
      BY DEF IInv, TypeOK, Uow, UowOrNull
    <3>2. CASE x <= nuow
      <4>1. owner'[x] = owner[x] /\ (Live(x)' => Live(x))
        BY <3>2 DEF OwnStep
      <4>2. owner[x] = r => phase'[x] = phase[x] /\ disposed'[x] = disposed[x]
        BY <1>2, <3>2 DEF OwnStep, LeafStep
      <4>3. QED
        BY <4>1, <4>2 DEF LiveUows, Live
    <3>3. CASE x > nuow
      <4>1. ~Live(x)
        BY <3>3, LiveFacts DEF IInv, TypeOK, Uow, UowOrNull
      <4>2. Live(x)' => owner'[x] # r
        BY <1>2, <3>3 DEF OwnStep
      <4>3. QED
        BY <4>1, <4>2 DEF LiveUows, Live
    <3>4. QED
      BY <3>1, <3>2, <3>3
  <2>2. QED
    BY <2>1 DEF LiveUows
<1>3. ASSUME NEW g \in Flows, request[g] # request[f]
      PROVE  Current(g)' = Current(g)
  <2>1. local'[g] = local[g]
    BY <1>3 DEF OwnStep, LeafStep
  <2>2. CASE local[g] = NoUow
    BY <2>1, <2>2 DEF Current, Stale, Inside
  <2>3. CASE local[g] # NoUow
    <3>1. /\ local[g] \in Uow /\ local[g] <= nuow /\ owner[local[g]] = request[g]
          /\ local[f] # NoUow => owner[local[f]] = request[f]
      BY <2>3, LocalFacts
    <3>2. held'[local[g]] = held[local[g]]
      BY <1>3, <2>3, <3>1 DEF OwnStep, LeafStep
    <3>3. PICK x \in UowOrNull : x = held[local[g]]
      BY <3>1 DEF IInv, TypeOK
    <3>4. Inside(local[g]) = x /\ Inside(local[g])' = x
      BY <2>1, <2>3, <3>2, <3>3 DEF Inside
    <3>5. CASE x = NoUow
      BY <3>4, <3>5 DEF Current, Stale
    <3>6. CASE x # NoUow
      <4>1. x \in Uow /\ x <= nuow /\ owner[x] = request[g]
        BY <3>1, <3>3, <3>6 DEF IInv, CreatedInv, OwnedInv, NoUow, Uow, UowOrNull
      <4>2. disposed'[x] = disposed[x]
        BY <1>3, <4>1 DEF OwnStep, LeafStep
      <4>3. QED
        BY <3>4, <4>2 DEF Current, Stale
    <3>7. QED
      BY <3>5, <3>6
  <2>4. QED
    BY <2>2, <2>3
<1>4. QED
  BY <1>1, <1>2, <1>3

LEMMA OwnStepKeeps ==
  ASSUME IInv, ScopeInv, NEW d \in [Flows -> Nat], SeqInv(d), NestInv(d),
         NEW f \in Flows, Leaf(f), OwnStep(f), NEW r, r = request[f],
         Unharmed(r)' => Top(Current(f)', LiveUows(r)'),
         Unharmed(r)' => \A u \in Uow : Live(u)' /\ owner'[u] = r =>
                           Top(outer'[u], {v \in LiveUows(r)' : v < u}),
         Unharmed(r)' /\ local'[f] # local[f] =>
           \A x \in Uow : Live(x) /\ owner[x] = r => ~Live(x)'
  PROVE  NestInv(d)'
<1>1. /\ \A g \in Flows : (Active(g)' <=> Active(g)) /\ (Leaf(g)' <=> Leaf(g))
      /\ request' = request /\ parent' = parent
  <2>1. \A g \in Flows : HasRunningCallee(g)' <=> HasRunningCallee(g)
    BY StackKept DEF SeqInv, OwnStep
  <2>2. QED
    BY <2>1 DEF Leaf, OwnStep, LeafStep
<1>2. /\ \A q : Unharmed(q)' => Unharmed(q)
      /\ \A q : q # r => LiveUows(q)' = LiveUows(q)
      /\ \A g \in Flows : request[g] # r => Current(g)' = Current(g)
  BY OthersKept DEF SeqInv
<1>3. TreeInv(d)'
  <2>1. \A g \in Flows : Active(g)' /\ parent'[g] # g =>
          Active(parent[g])' /\ d[g] = d[parent'[g]] + 1
    <3> SUFFICES ASSUME NEW g \in Flows, Active(g)', parent'[g] # g
                 PROVE  Active(parent[g])' /\ d[g] = d[parent'[g]] + 1
      OBVIOUS
    <3>1. PICK p \in Flows : p = parent[g]
      BY DEF IInv, TypeOK
    <3>2. Active(p) /\ d[g] = d[p] + 1
      BY <1>1, <3>1 DEF NestInv, TreeInv
    <3>3. Active(p)' /\ parent'[g] = p
      BY <1>1, <3>1, <3>2
    <3>4. QED
      BY <3>2, <3>3 DEF Active
  <2>2. \A g \in Flows : Active(g)' /\ request'[g] # g => parent'[g] # g
    BY <1>1 DEF NestInv, TreeInv
  <2>3. \A q \in Roots : Active(q)' => \E g \in Flows : Leaf(g)' /\ request'[g] = q
    BY <1>1, FlowsAssumption DEF NestInv, TreeInv
  <2>4. QED
    BY <2>1, <2>2, <2>3 DEF TreeInv
<1>4. CurrentInv'
  <2> SUFFICES ASSUME NEW g \in Flows, Leaf(g)', NEW q, q = request[g], Unharmed(q)'
               PROVE  Top(Current(g)', LiveUows(q)')
    BY <1>1 DEF CurrentInv, LiveUows, Unharmed
  <2>1. Leaf(g)
    BY <1>1
  <2>2. CASE g = f
    BY <2>2
  <2>3. CASE g # f
    <3>1. q # r
      BY <2>1, <2>3, LeafIsDeepest DEF SeqInv, Leaf
    <3>2. Top(Current(g), LiveUows(q))
      BY <1>2, <2>1 DEF NestInv, CurrentInv
    <3>3. QED
      BY <1>2, <3>1, <3>2
  <2>4. QED
    BY <2>2, <2>3
<1>5. NestedInv'
  <2> SUFFICES ASSUME NEW u \in Uow, Live(u)', NEW q, q = owner'[u], Unharmed(q)'
               PROVE  Top(outer'[u], {v \in LiveUows(q)' : v < u})
    BY DEF NestedInv, LiveBelow, LiveUows, Unharmed
  <2>1. CASE q = r
    BY <2>1
  <2>2. CASE q # r
    <3>1. u <= nuow
      BY <2>2 DEF OwnStep, IInv, TypeOK, Uow, UowOrNull
    <3>2. owner[u] = q /\ outer'[u] = outer[u] /\ Live(u)
      BY <3>1 DEF OwnStep, LeafStep
    <3>3. Top(outer[u], {v \in LiveUows(q) : v < u})
      BY <1>2, <3>2 DEF NestInv, NestedInv, LiveBelow
    <3>4. LiveUows(q)' = LiveUows(q)
      BY <1>2, <2>2
    <3>5. QED
      BY <3>2, <3>3, <3>4
  <2>3. QED
    BY <2>1, <2>2
<1>6. ApartInv(d)'
  <2> SUFFICES ASSUME NEW a \in Flows, NEW g \in Flows, Active(a), Active(g),
                      NEW q, request[a] = q, request[g] = q, d[a] < d[g],
                      local'[a] # local'[g], Unharmed(q)',
                      NEW h \in Flows, request[h] = q, d[h] <= d[a],
                      NEW i \in 1 .. Len(scopes'[h]), IsUow(h, i)',
                      NEW x, x = scopes'[h][i].uow, Live(x)'
               PROVE  FALSE
    BY <1>1 DEF ApartInv, Live, Unharmed
  <2>0. \A k \in Flows : d[k] \in Nat
    OBVIOUS
  <2>1. \A k \in Flows : Active(k) /\ request[k] = r /\ k # f => d[k] < d[f]
    BY LeafIsDeepest DEF SeqInv
  <2>2. a # f /\ h # f
    <3>1. CASE q = r
      <4>1. d[g] <= d[f]
        BY <2>0, <2>1, <3>1
      <4>2. QED
        BY <2>0, <4>1
    <3>2. CASE q # r
      BY <3>2
    <3>3. QED
      BY <3>1, <3>2
  <2>3. /\ scopes'[h] = scopes[h] /\ IsUow(h, i) /\ i \in 1 .. Len(scopes[h])
        /\ x = scopes[h][i].uow /\ local'[a] = local[a]
    BY <2>2 DEF OwnStep, LeafStep, IsUow
  <2>4. x \in Uow /\ x <= nuow /\ owner[x] = q
    <3>1. x \in Uow
      BY <2>3, ScopeTypes DEF IInv
    <3>2. QED
      BY <2>3, <3>1 DEF IInv, CreatedInv, OwnedInv
  <2>5. Live(x)
    BY <2>4 DEF OwnStep
  <2>6. local[a] = local[g]
    BY <1>2, <2>3, <2>5 DEF NestInv, ApartInv
  <2>7. g = f /\ local'[f] # local[f] /\ q = r
    BY <2>3, <2>6 DEF OwnStep, LeafStep
  <2>8. QED
    BY <2>4, <2>5, <2>7
<1>7. QED
  BY <1>3, <1>4, <1>5, <1>6 DEF NestInv

\* What changes nothing that is live.
LEMMA SameKeeps ==
  ASSUME IInv, IInv', ScopeInv, NEW d \in [Flows -> Nat], SeqInv(d), NestInv(d),
         NEW f \in Flows, Leaf(f), OwnStep(f), nuow' = nuow, outer' = outer,
         \A x \in Uow : Live(x) => Live(x)',
         Unharmed(request[f]) => Current(f)' = Current(f),
         local'[f] # local[f] => Current(f) = NoUow
  PROVE  NestInv(d)' /\ \A r : LiveUows(r)' = LiveUows(r)
<1>1. \A x \in Uow : (Live(x)' <=> Live(x)) /\ (Live(x) => owner'[x] = owner[x])
  <2> TAKE x \in Uow
  <2>1. CASE x <= nuow
    BY <2>1 DEF OwnStep
  <2>2. CASE ~(x <= nuow)
    <3>1. x > nuow
      BY <2>2 DEF IInv, TypeOK, Uow, UowOrNull
    <3>2. phase[x] = "none" /\ phase'[x] = "none"
      BY <3>1 DEF IInv, CreatedInv
    <3>3. QED
      BY <3>2 DEF Live
  <2>3. QED
    BY <2>1, <2>2
<1>2. ASSUME NEW r
      PROVE  LiveUows(r)' = LiveUows(r)
  <2>1. \A x \in Uow : x \in LiveUows(r)' <=> x \in LiveUows(r)
    BY <1>1 DEF LiveUows, Live
  <2>2. QED
    BY <2>1 DEF LiveUows
<1>3. PICK r \in Flows : r = request[f]
  BY DEF IInv, TypeOK
<1>4. ASSUME Unharmed(r)'
      PROVE  Unharmed(r) /\ Top(Current(f), LiveUows(r))
  <2>1. Unharmed(r)
    BY <1>4, OthersKept DEF SeqInv
  <2>2. QED
    BY <1>3, <2>1 DEF NestInv, CurrentInv
<1>5. ASSUME Unharmed(r)'
      PROVE  Top(Current(f)', LiveUows(r)')
  BY <1>2, <1>3, <1>4, <1>5
<1>6. ASSUME Unharmed(r)', NEW u \in Uow, Live(u)', owner'[u] = r
      PROVE  Top(outer'[u], {v \in LiveUows(r)' : v < u})
  <2>1. Live(u) /\ owner[u] = r /\ outer'[u] = outer[u]
    BY <1>1, <1>6
  <2>2. Top(outer[u], {v \in LiveUows(r) : v < u})
    BY <1>4, <1>6, <2>1 DEF NestInv, NestedInv, LiveBelow
  <2>3. QED
    BY <1>2, <2>1, <2>2
<1>7. ASSUME Unharmed(r)', local'[f] # local[f], NEW x \in Uow, Live(x), owner[x] = r
      PROVE  FALSE
  <2>1. LiveUows(r) = {}
    BY <1>4, <1>7 DEF Top
  <2>2. QED
    BY <1>7, <2>1, LiveFacts
<1>8. QED
  BY <1>2, <1>3, <1>5, <1>6, <1>7, OwnStepKeeps

\* What ends the youngest live unit of work of its request.
LEMMA EndKeeps ==
  ASSUME IInv, IInv', ScopeInv, NEW d \in [Flows -> Nat], SeqInv(d), NestInv(d),
         NEW f \in Flows, Leaf(f), OwnStep(f), nuow' = nuow, outer' = outer, owner' = owner,
         NEW u \in Uow, Live(u), Ends(f, u), NEW r, r = request[f],
         Current(f) = u => Current(f)' = outer[u],
         Current(f) = u /\ local'[f] # local[f] => outer[u] = NoUow
  PROVE  /\ NestInv(d)'
         /\ Top(u, LiveUows(r)) /\ LiveUows(r)' = LiveUows(r) \ {u}
         /\ \A q : q # r => LiveUows(q)' = LiveUows(q)
<1>1. Top(u, LiveUows(r)) /\ LiveUows(r) \in SUBSET Uow
  <2>1. \A x \in Uow : x \in LiveUows(r) <=> Live(x) /\ owner[x] = r
    BY LiveFacts
  <2>2. LiveUows(r) \in SUBSET Uow
    BY LiveFacts
  <2>3. u # NoUow
    BY DEF Uow, NoUow
  <2>4. QED
    BY <2>1, <2>2, <2>3 DEF Ends, Top
<1>2. \A q : LiveUows(q)' = LiveUows(q) \ {u}
  <2> SUFFICES ASSUME NEW q, NEW x \in Uow
               PROVE  x \in LiveUows(q)' <=> x \in LiveUows(q) /\ x # u
    BY DEF LiveUows
  <2>1. x \in LiveUows(q) <=> Live(x) /\ owner[x] = q
    BY LiveFacts
  <2>2. x \in LiveUows(q)' <=> Live(x)' /\ owner'[x] = q
    BY DEF LiveUows, Live
  <2>3. QED
    BY <2>1, <2>2 DEF Ends
<1>3. \A q : q # r => LiveUows(q)' = LiveUows(q)
  BY OthersKept DEF SeqInv
<1>4. ASSUME Unharmed(r)'
      PROVE  Unharmed(r) /\ Current(f) = u
  <2>1. Unharmed(r)
    BY <1>4, OthersKept DEF SeqInv
  <2>2. Top(Current(f), LiveUows(r))
    BY <2>1 DEF NestInv, CurrentInv
  <2>3. QED
    BY <1>1, <2>1, <2>2, TopIsOne
<1>5. ASSUME Unharmed(r)'
      PROVE  Top(Current(f)', LiveUows(r)')
  <2>0. Current(f)' = outer[u]
    BY <1>4, <1>5
  <2>1. Top(outer[u], {v \in LiveUows(r) : v < u})
    BY <1>4, <1>5 DEF NestInv, NestedInv, LiveBelow, Ends
  <2>2. {v \in LiveUows(r) : v < u} = LiveUows(r) \ {u}
    <3>1. u # NoUow /\ \A v \in LiveUows(r) : v <= u /\ v \in Nat /\ u \in Nat
      BY <1>1 DEF Top, Uow, NoUow
    <3>2. \A v \in LiveUows(r) : v < u <=> v # u
      BY <3>1
    <3>3. QED
      BY <3>2
  <2>3. QED
    BY <1>2, <2>0, <2>1, <2>2
<1>6. ASSUME Unharmed(r)', NEW w \in Uow, Live(w)', owner'[w] = r
      PROVE  Top(outer'[w], {v \in LiveUows(r)' : v < w})
  <2>1. Live(w) /\ owner[w] = r /\ w # u
    BY <1>6 DEF Ends
  <2>2. Top(outer[w], {v \in LiveUows(r) : v < w})
    BY <1>4, <1>6, <2>1 DEF NestInv, NestedInv, LiveBelow
  <2>3. ~(u < w)
    BY <2>1 DEF Ends, Uow
  <2>4. {v \in LiveUows(r)' : v < w} = {v \in LiveUows(r) : v < w}
    BY <1>2, <2>3
  <2>5. QED
    BY <2>2, <2>4
<1>7. ASSUME Unharmed(r)', local'[f] # local[f], NEW x \in Uow, Live(x), owner[x] = r
      PROVE  ~Live(x)'
  <2>1. LiveUows(r)' = {}
    <3>1. Current(f)' = outer[u] /\ outer[u] = NoUow
      BY <1>4, <1>7
    <3>2. QED
      BY <1>5, <1>7, <3>1 DEF Top
  <2>2. owner'[x] = r
    BY <1>7
  <2>3. QED
    BY <2>1, <2>2 DEF LiveUows, Live
<1>8. QED
  BY <1>1, <1>2, <1>3, <1>5, <1>6, <1>7, OwnStepKeeps

-----------------------------------------------------------------------------
(* Each step on the stack.                                                 *)

\* What a step means for the live units of work of the requests.
Rests == \A r : LiveUows(r)' = LiveUows(r)

Begins(r) ==
  /\ nuow + 1 \in Uow /\ nuow' = nuow + 1
  /\ LiveUows(r)' = LiveUows(r) \cup {nuow + 1}
  /\ \A q : q # r => LiveUows(q)' = LiveUows(q)

EndsTop(r) ==
  /\ \E u \in Uow : Top(u, LiveUows(r)) /\ LiveUows(r)' = LiveUows(r) \ {u}
  /\ \A q : q # r => LiveUows(q)' = LiveUows(q)

StackMove(r) == Rests \/ Begins(r) \/ EndsTop(r)

LEMMA QuietNest ==
  ASSUME IInv, IInv', ScopeInv, Concurrent = FALSE, NEW d \in [Flows -> Nat], SeqInv(d),
         NestInv(d), NEW f \in Flows,
         ReadCurrent(f) \/ BeginJoin(f) \/ CompleteJoined(f) \/ DisposeJoined(f)
  PROVE  NestInv(d)' /\ Rests
<1>1. Leaf(f) /\ LeafStep(f)
  BY QuietSteps DEF ReadCurrent, BeginJoin, CompleteJoined, DisposeJoined, CanStep, Leaf, Active
<1>2. /\ nuow' = nuow /\ phase' = phase /\ disposed' = disposed /\ outer' = outer /\ held' = held
      /\ owner' = owner
  BY DEF ReadCurrent, BeginJoin, CompleteJoined, DisposeJoined, uowVars
<1>3. \A x \in Uow : Live(x)' <=> Live(x)
  BY <1>2 DEF Live
<1>4. OwnStep(f)
  <2>1. \A x \in Uow : x > nuow => ~Live(x)'
    BY <1>2, <1>3, LiveFacts DEF IInv, TypeOK, Uow, UowOrNull
  <2>2. QED
    BY <1>1, <1>2, <1>3, <2>1 DEF OwnStep
<1>5. Current(f)' = Current(f) /\ (local'[f] # local[f] => Current(f) = NoUow)
  <2>1. CASE ReadCurrent(f)
    <3>1. Stale(f) /\ local'[f] = NoUow
      BY <2>1 DEF ReadCurrent, LocalAfterGet, IInv, TypeOK
    <3>2. Current(f) = NoUow /\ Current(f)' = NoUow
      BY <3>1 DEF Current, Stale, Inside
    <3>3. QED
      BY <3>2
  <2>2. CASE local' = local
    BY <1>2, <2>2 DEF Current, Stale, Inside
  <2>3. QED
    BY <2>1, <2>2 DEF BeginJoin, CompleteJoined, DisposeJoined
<1>6. QED
  BY <1>1, <1>2, <1>3, <1>4, <1>5, SameKeeps DEF Rests

LEMMA CompleteStartNest ==
  ASSUME IInv, IInv', ScopeInv, Concurrent = FALSE, NEW d \in [Flows -> Nat], SeqInv(d),
         NestInv(d), NEW f \in Flows, CompleteStart(f)
  PROVE  NestInv(d)' /\ Rests
<1>1. Leaf(f) /\ LeafStep(f)
  BY CompleteStartKeeps DEF CompleteStart, CanStep, Leaf, Active
<1>2. /\ nuow' = nuow /\ disposed' = disposed /\ outer' = outer /\ held' = held
      /\ owner' = owner /\ local' = local
  BY DEF CompleteStart
<1>3. PICK k \in Pending(f) : /\ phase[scopes[f][k].uow] = "active"
                              /\ phase' = [phase EXCEPT ![scopes[f][k].uow] = "completing"]
  BY DEF CompleteStart
<1>4. PICK u \in Uow : u = scopes[f][k].uow
  BY ScopeTypes DEF Pending, IInv
<1>5. phase[u] = "active" /\ phase'[u] = "completing" /\ \A x \in Uow : x # u => phase'[x] = phase[x]
  BY <1>3, <1>4 DEF IInv, TypeOK
<1>6. \A x \in Uow : Live(x)' <=> Live(x)
  BY <1>2, <1>5 DEF Live
<1>7. OwnStep(f)
  <2>1. \A x \in Uow : x > nuow => ~Live(x)'
    BY <1>2, <1>6, LiveFacts DEF IInv, TypeOK, Uow, UowOrNull
  <2>2. \A x \in Uow : phase[x] \in {"failed", "unpublished"} => phase'[x] = phase[x]
    BY <1>5
  <2>3. QED
    BY <1>1, <1>2, <1>6, <2>1, <2>2 DEF OwnStep
<1>8. Current(f)' = Current(f)
  BY <1>2 DEF Current, Stale, Inside
<1>9. QED
  BY <1>1, <1>2, <1>6, <1>7, <1>8, SameKeeps DEF Rests

LEMMA BeginNewNest ==
  ASSUME IInv, IInv', ScopeInv, Concurrent = FALSE, NEW d \in [Flows -> Nat], SeqInv(d),
         NestInv(d), NEW f \in Flows, NEW opt \in Options, BeginNew(f, opt)
  PROVE  NestInv(d)' /\ Begins(request[f])
<1>0. PICK u \in Uow : u = nuow + 1 /\ u \in Nat /\ nuow \in Nat
  BY DEF BeginNew, IInv, TypeOK, Uow, UowOrNull
<1> DEFINE w == LocalAfterGet(f)
           c == Current(f)
<1>1. Leaf(f) /\ LeafStep(f)
  BY BeginNewKeeps DEF BeginNew, CanStep, Leaf, Active
<1>2. PICK r \in Flows : r = request[f]
  BY DEF IInv, TypeOK
<1>3. /\ nuow' = u /\ phase' = [phase EXCEPT ![u] = "active"] /\ disposed' = disposed
      /\ owner' = [owner EXCEPT ![u] = r] /\ PushInto(f, u, w)
  BY <1>0, <1>2 DEF BeginNew
<1>4. /\ phase'[u] = "active" /\ ~disposed'[u] /\ owner'[u] = r
      /\ phase[u] = "none" /\ held[u] = NoUow
      /\ \A x \in Uow : x # u => phase'[x] = phase[x] /\ owner'[x] = owner[x]
  BY <1>0, <1>3 DEF IInv, TypeOK, CreatedInv, ScopeInv
<1>5. \A x \in Uow : (Live(x)' <=> Live(x) \/ x = u) /\ (Live(x) => x < u)
  <2>1. \A x \in Uow : Live(x) => x < u
    BY <1>0, LiveFacts DEF Uow
  <2>2. \A x \in Uow : Live(x)' <=> Live(x) \/ x = u
    BY <1>3, <1>4 DEF Live
  <2>3. QED
    BY <2>1, <2>2
<1>6. OwnStep(f)
  <2>1. \A x \in Uow : x <= nuow => x # u
    BY <1>0
  <2>2. \A x \in Uow : x > nuow /\ Live(x)' => x = u
    BY <1>0, <1>5 DEF Uow
  <2>3. QED
    BY <1>1, <1>2, <1>4, <1>5, <2>1, <2>2 DEF OwnStep
\* The live units of work.
<1>7. /\ LiveUows(r)' = LiveUows(r) \cup {u}
      /\ \A q : q # r => LiveUows(q)' = LiveUows(q)
      /\ LiveUows(r) \in SUBSET Uow
  <2>1. \A x \in Uow : x \in LiveUows(r)' <=> x \in LiveUows(r) \/ x = u
    <3> TAKE x \in Uow
    <3>1. x # u => owner'[x] = owner[x]
      BY <1>4
    <3>2. QED
      BY <1>4, <1>5, <3>1 DEF LiveUows, Live
  <2>2. \A q : q # r => LiveUows(q)' = LiveUows(q)
    BY <1>1, <1>2, <1>6, OthersKept DEF SeqInv
  <2>3. LiveUows(r) \in SUBSET Uow
    BY LiveFacts
  <2>4. LiveUows(r)' \in SUBSET Uow
    BY DEF LiveUows
  <2>5. QED
    BY <2>1, <2>2, <2>3, <2>4
\* The new one is current, and Outer is what was.
<1>8. /\ c \in UowOrNull /\ Inside(w) = c
      /\ w # NoUow => w = local[f] /\ w \in Uow /\ w # u
      /\ c # NoUow => w = local[f] /\ w # NoUow /\ held[w] = c
  <2>1. CASE Stale(f)
    BY <2>1 DEF LocalAfterGet, Current, Inside, NoUow, UowOrNull
  <2>2. CASE ~Stale(f)
    <3>1. w = local[f] /\ c = Inside(local[f])
      BY <2>2 DEF LocalAfterGet, Current
    <3>2. c \in UowOrNull
      BY CurrentFacts
    <3>3. w # NoUow => w \in Uow /\ w <= nuow
      BY <3>1, LocalFacts
    <3>4. c # NoUow => w # NoUow /\ held[w] = c
      BY <3>1 DEF Inside
    <3> HIDE DEF w, c
    <3>5. QED
      BY <1>0, <3>1, <3>2, <3>3, <3>4
  <2>3. QED
    BY <2>1, <2>2
<1> HIDE DEF w, c
<1>9. /\ outer'[u] = c /\ \A x \in Uow : x # u => outer'[x] = outer[x]
      /\ local'[f] # NoUow /\ local'[f] \in Uow /\ held'[local'[f]] = u
      /\ local'[f] # local[f] => c = NoUow
  <2>1. CASE c = NoUow
    <3>1. /\ held' = [v \in Uow |-> IF v \in {u, w} THEN u ELSE held[v]]
          /\ local' = [local EXCEPT ![f] = u] /\ outer' = outer
      BY <1>3, <1>8, <2>1 DEF PushInto
    <3>2. outer[u] = NoUow /\ u # NoUow
      BY <1>0 DEF IInv, CreatedInv, NoUow, Uow
    <3>3. local'[f] = u
      BY <3>1 DEF IInv, TypeOK
    <3>4. QED
      BY <2>1, <3>1, <3>2, <3>3
  <2>2. CASE c # NoUow
    <3>1. /\ outer' = [outer EXCEPT ![u] = held[w]] /\ held' = [held EXCEPT ![w] = u]
          /\ local' = local
      BY <1>3, <1>8, <2>2 DEF PushInto
    <3>2. QED
      BY <1>8, <2>2, <3>1 DEF IInv, TypeOK
  <2>3. QED
    BY <2>1, <2>2
<1>10. Current(f)' = u
  BY <1>4, <1>9 DEF Current, Stale, Inside
<1>11. ASSUME Unharmed(r)'
       PROVE  Unharmed(r) /\ Top(c, LiveUows(r))
  <2>1. Unharmed(r)
    BY <1>1, <1>6, <1>11, OthersKept DEF SeqInv
  <2>2. QED
    BY <1>1, <1>2, <2>1 DEF NestInv, CurrentInv, c
<1>12. Top(Current(f)', LiveUows(r)')
  <2>1. u # NoUow /\ \A x \in LiveUows(r) : x <= u
    <3>1. \A x \in LiveUows(r) : Live(x) /\ x \in Uow
      BY <1>7, LiveFacts
    <3>2. u # NoUow /\ \A x \in Uow : Live(x) => x <= u
      BY <1>0, <1>5 DEF Uow, NoUow
    <3>3. QED
      BY <3>1, <3>2
  <2>2. u <= u
    BY <1>0
  <2>3. QED
    BY <1>7, <1>10, <2>1, <2>2 DEF Top
<1>13. ASSUME Unharmed(r)', NEW x \in Uow, Live(x)', owner'[x] = r
       PROVE  Top(outer'[x], {v \in LiveUows(r)' : v < x})
  <2>1. CASE x = u
    <3>1. {v \in LiveUows(r)' : v < u} = LiveUows(r)
      <4>1. \A v \in LiveUows(r) : v < u
        BY <1>5, <1>7, LiveFacts
      <4>2. ~(u < u)
        BY <1>0
      <4>3. QED
        BY <1>7, <4>1, <4>2
    <3>2. QED
      BY <1>9, <1>11, <1>13, <2>1, <3>1
  <2>2. CASE x # u
    <3>1. Live(x) /\ owner[x] = r /\ outer'[x] = outer[x] /\ x < u
      BY <1>4, <1>5, <1>9, <1>13, <2>2
    <3>2. Top(outer[x], {v \in LiveUows(r) : v < x})
      BY <1>11, <1>13, <3>1 DEF NestInv, NestedInv, LiveBelow
    <3>3. {v \in LiveUows(r)' : v < x} = {v \in LiveUows(r) : v < x}
      <4>1. ~(u < x)
        BY <1>0, <3>1 DEF Uow
      <4>2. QED
        BY <1>7, <4>1
    <3>4. QED
      BY <3>1, <3>2, <3>3
  <2>3. QED
    BY <2>1, <2>2
<1>14. ASSUME Unharmed(r)', local'[f] # local[f], NEW x \in Uow, Live(x), owner[x] = r
       PROVE  ~Live(x)'
  <2>1. LiveUows(r) = {}
    BY <1>9, <1>11, <1>14 DEF Top
  <2>2. QED
    BY <1>14, <2>1, LiveFacts
<1>15. NestInv(d)'
  BY <1>1, <1>2, <1>6, <1>12, <1>13, <1>14, OwnStepKeeps
<1>16. Begins(r)
  BY <1>0, <1>3, <1>7 DEF Begins
<1>17. QED
  BY <1>2, <1>15, <1>16

LEMMA NoneYounger == IInv => \A x \in Uow : x > nuow => ~Live(x)
  BY DEF IInv, CreatedInv, Live

\* A unit of work that ends is popped.
LEMMA PoppedCurrent ==
  ASSUME IInv, OuterInv, NEW f \in Flows, NEW u \in Uow, Live(u), Current(f) = u,
         NEW l, l = local[f], held' = PopHeld(l, held), local'[f] \in {l, PopLocal(l, held)},
         \A y \in Uow : Live(y) /\ y # u => ~disposed'[y]
  PROVE  Current(f)' = outer[u] /\ (local'[f] # l => outer[u] = NoUow)
<1>1. u # NoUow /\ l # NoUow /\ l \in Uow /\ held[l] = u
  <2>1. u # NoUow
    BY DEF Uow, NoUow
  <2>2. l # NoUow /\ u = held[l]
    BY <2>1, CurrentFacts
  <2>3. QED
    BY <2>1, <2>2, LocalFacts
<1>2. PICK o \in UowOrNull : o = outer[u] /\ o < u
  BY DEF IInv, TypeOK, CreatedInv
<1>3. held'[l] = o /\ PopLocal(l, held) = IF o = NoUow THEN NoUow ELSE l
  BY <1>1, <1>2 DEF PopHeld, PopLocal, Beneath, IInv, TypeOK
<1>4. CASE o = NoUow
  <2>1. Inside(local[f])' = NoUow
    BY <1>3, <1>4 DEF Inside
  <2>2. QED
    BY <1>2, <1>4, <2>1 DEF Current, Stale
<1>5. CASE o # NoUow
  <2>1. o \in Uow /\ Live(o) /\ o # u
    BY <1>2, <1>5 DEF OuterInv, Uow, UowOrNull, NoUow
  <2>2. local'[f] = l /\ ~disposed'[o]
    BY <1>3, <1>5, <2>1
  <2>3. Inside(local[f])' = o
    BY <1>1, <1>3, <2>2 DEF Inside
  <2>4. QED
    BY <1>2, <2>2, <2>3 DEF Current, Stale
<1>6. QED
  BY <1>4, <1>5

LEMMA CompleteNest ==
  ASSUME IInv, IInv', ScopeInv, NEW d \in [Flows -> Nat], SeqInv(d), NestInv(d),
         NEW f \in Flows, CompleteSucceeds(f) \/ CompleteFails(f) \/ PublishFails(f)
  PROVE  NestInv(d)' /\ (Unharmed(request[f])' => EndsTop(request[f]))
<1>1. PICK u \in Uow : LeafStep(f) /\ Ends(f, u)
  BY CompleteEnds
<1>2. /\ local' = local /\ nuow' = nuow /\ disposed' = disposed /\ outer' = outer
      /\ owner' = owner /\ status[f] = "completing" /\ Leaf(f)
  BY DEF CompleteSucceeds, CompleteFails, PublishFails, CompleteEnd, SeqInv, StackInv, Leaf, Active
<1>3. PICK result \in {"succeeded", "failed", "unpublished"}, v \in Completing(f) :
        /\ phase' = [phase EXCEPT ![v] = result]
        /\ result = "succeeded" => CompleteSucceeds(f)
  BY DEF CompleteSucceeds, CompleteFails, PublishFails, CompleteEnd
<1>4. v \in Uow /\ phase[v] = "completing" /\ ~disposed[v] /\ owner[v] = request[f]
  <2>1. PICK i \in 1 .. Len(scopes[f]) : scopes[f][i].uow = v /\ scopes[f][i].kind = "uow"
    BY <1>3 DEF Completing
  <2>2. v \in Uow /\ phase[v] = "completing"
    BY <1>3 DEF Completing
  <2>3. IsUow(f, i)
    BY <2>1 DEF IsUow
  <2>4. ~disposed[v]
    BY <2>1, <2>3 DEF SeqInv, PhaseInv, PhaseWell
  <2>5. QED
    BY <2>1, <2>2, <2>4 DEF IInv, OwnedInv
<1>5. phase'[v] = result /\ \A x \in Uow : x # v => phase'[x] = phase[x]
  BY <1>3, <1>4 DEF IInv, TypeOK
<1>6. Live(v) /\ v = u
  <2>1. Live(v) /\ ~Live(v)'
    BY <1>3, <1>4, <1>5 DEF Live
  <2>2. QED
    BY <1>1, <1>4, <2>1 DEF Ends
<1>7. OwnStep(f)
  <2>1. \A x \in Uow : Live(x)' => Live(x)
    BY <1>1 DEF Ends
  <2>2. \A x \in Uow : x > nuow => ~Live(x)'
    BY <2>1, NoneYounger
  <2>3. \A x \in Uow : phase[x] \in {"failed", "unpublished"} => phase'[x] = phase[x]
    BY <1>4, <1>5
  <2>4. QED
    BY <1>1, <1>2, <2>1, <2>2, <2>3 DEF OwnStep
<1>8. PICK r \in Flows : r = request[f]
  BY DEF IInv, TypeOK
<1>9. CASE result = "succeeded"
  <2>1. held' = PopHeld(local[f], held)
    BY <1>3, <1>9 DEF CompleteSucceeds, CompleteEnd
  <2>2. Current(f) = u => Current(f)' = outer[u]
    <3>1. \A y \in Uow : Live(y) /\ y # u => ~disposed'[y]
      BY <1>2 DEF Live
    <3>2. QED
      BY <1>2, <1>6, <2>1, <3>1, PoppedCurrent DEF SeqInv
  <2>3. local'[f] = local[f]
    BY <1>2
  <2>4. NestInv(d)' /\ EndsTop(r)
    BY <1>1, <1>2, <1>6, <1>7, <1>8, <2>2, <2>3, EndKeeps DEF EndsTop
  <2>5. QED
    BY <1>8, <2>4
<1>10. CASE result # "succeeded"
  <2>1. ~Unharmed(r)'
    BY <1>2, <1>3, <1>4, <1>5, <1>8, <1>10 DEF Unharmed
  <2>2. NestInv(d)'
    BY <1>2, <1>7, <1>8, <2>1, OwnStepKeeps
  <2>3. ~Unharmed(request[f])'
    BY <1>1, <1>8, <2>1 DEF Unharmed, LeafStep
  <2>4. QED
    BY <2>2, <2>3
<1>11. QED
  BY <1>9, <1>10

LEMMA DisposeNest ==
  ASSUME IInv, IInv', ScopeInv, Concurrent = FALSE, NEW d \in [Flows -> Nat], SeqInv(d),
         NestInv(d), NEW f \in Flows, DisposeUow(f)
  PROVE  NestInv(d)' /\ (Unharmed(request[f])' => Rests \/ EndsTop(request[f]))
<1>1. PICK v \in Uow : LeafStep(f) /\ Ends(f, v)
  BY DisposeKeeps
<1>2. Leaf(f) /\ status[f] = "running"
  BY DEF DisposeUow, CanStep, Leaf, Active
<1>3. PICK n \in 1 .. Len(scopes[f]) : n = Len(scopes[f]) /\ IsUow(f, n)
  <2>1. Len(scopes[f]) \in 1 .. Len(scopes[f])
    <3>1. scopes[f] \in Seq(Scope) /\ scopes[f] # <<>>
      BY DEF DisposeUow, IInv, TypeOK
    <3>2. QED
      BY <3>1
  <2>2. QED
    BY <2>1 DEF DisposeUow, Innermost, IsUow
<1>4. PICK u \in Uow : u = scopes[f][n].uow
  BY <1>3, ScopeTypes DEF IInv
<1>5. /\ nuow' = nuow /\ phase' = phase /\ outer' = outer /\ owner' = owner
      /\ disposed' = [disposed EXCEPT ![u] = TRUE]
      /\ \/ /\ held' = PopHeld(local[f], held)
            /\ local' = [local EXCEPT ![f] = PopLocal(local[f], held)]
         \/ /\ phase[u] \in {"succeeded", "unpublished"}
            /\ held' = held /\ local' = local
  BY <1>3, <1>4 DEF DisposeUow, Innermost
<1>6. /\ disposed'[u] /\ \A y \in Uow : y # u => disposed'[y] = disposed[y]
      /\ owner[u] = request[f]
  <2>1. owner[u] = request[f]
    BY <1>3, <1>4 DEF IInv, OwnedInv
  <2>2. disposed \in [Uow -> BOOLEAN] /\ disposed' = [disposed EXCEPT ![u] = TRUE]
    BY <1>5 DEF IInv, TypeOK
  <2>3. QED
    BY <2>1, <2>2
<1>7. phase[u] \in {"active", "succeeded", "unpublished", "failed"} /\ ~disposed[u]
  <2>1. PhaseWell(f, n)
    BY <1>3 DEF SeqInv, PhaseInv
  <2>2. QED
    BY <1>2, <1>4, <2>1 DEF PhaseWell, IInv, TypeOK
<1>8. OwnStep(f)
  <2>1. \A x \in Uow : Live(x)' => Live(x)
    BY <1>1 DEF Ends
  <2>2. \A x \in Uow : x > nuow => ~Live(x)'
    BY <2>1, NoneYounger
  <2>3. QED
    BY <1>1, <1>5, <2>1, <2>2 DEF OwnStep
<1>9. PICK r \in Flows : r = request[f]
  BY DEF IInv, TypeOK
<1>10. CASE phase[u] = "active"
  <2>1. Live(u) /\ u = v
    <3>1. Live(u) /\ ~Live(u)'
      BY <1>6, <1>7, <1>10 DEF Live
    <3>2. QED
      BY <1>1, <3>1 DEF Ends
  <2>2. /\ held' = PopHeld(local[f], held)
        /\ local'[f] = PopLocal(local[f], held)
    BY <1>5, <1>10 DEF IInv, TypeOK
  <2>3. /\ Current(f) = u => Current(f)' = outer[u]
        /\ Current(f) = u /\ local'[f] # local[f] => outer[u] = NoUow
    <3>1. \A y \in Uow : Live(y) /\ y # u => ~disposed'[y]
      BY <1>6 DEF Live
    <3>2. QED
      BY <2>1, <2>2, <3>1, PoppedCurrent DEF SeqInv
  <2>4. NestInv(d)' /\ EndsTop(r)
    BY <1>1, <1>2, <1>5, <1>8, <1>9, <2>1, <2>3, EndKeeps DEF EndsTop
  <2>5. QED
    BY <1>9, <2>4
<1>11. CASE phase[u] = "succeeded"
  <2>2. held' = held /\ local' = local
    BY <1>3, <1>4, <1>11 DEF DisposeUow, Innermost
  <2>3. \A x \in Uow : Live(x) => Live(x)'
    BY <1>5, <1>6, <1>11 DEF Live
  <2>4. Unharmed(r) => Current(f)' = Current(f)
    <3> SUFFICES ASSUME Unharmed(r)
                 PROVE  Current(f)' = Current(f)
      OBVIOUS
    <3>1. Top(Current(f), LiveUows(r))
      BY <1>2, <1>9 DEF NestInv, CurrentInv
    <3>2. Inside(local[f])' = Inside(local[f])
      BY <2>2 DEF Inside
    <3>3. PICK x : x = Inside(local[f])
      OBVIOUS
    <3>4. CASE x = NoUow
      BY <3>2, <3>3, <3>4 DEF Current, Stale
    <3>5. CASE x # NoUow /\ disposed[x]
      <4>1. local[f] # NoUow /\ x = held[local[f]]
        BY <3>3, <3>5 DEF Inside
      <4>2. x \in Uow
        <5>1. local[f] \in Uow
          BY <4>1, LocalFacts
        <5>2. x \in UowOrNull
          BY <4>1, <5>1 DEF IInv, TypeOK
        <5>3. QED
          BY <3>5, <5>2 DEF NoUow, Uow, UowOrNull
      <4>3. disposed'[x]
        BY <1>6, <3>5, <4>2
      <4>4. QED
        BY <3>2, <3>3, <3>5, <4>3 DEF Current, Stale
    <3>6. CASE x # NoUow /\ ~disposed[x]
      <4>1. Current(f) = x /\ x \in Uow
        <5>1. Current(f) = x
          BY <3>3, <3>6 DEF Current, Stale
        <5>2. QED
          BY <3>6, <5>1, CurrentFacts
      <4>2. Live(x)
        BY <3>1, <3>6, <4>1, LiveFacts DEF Top
      <4>3. ~disposed'[x]
        BY <2>3, <4>1, <4>2 DEF Live
      <4>4. QED
        BY <3>2, <3>3, <4>1, <4>3 DEF Current, Stale
    <3>7. QED
      BY <3>4, <3>5, <3>6
  <2>5. local'[f] = local[f]
    BY <2>2
  <2>6. NestInv(d)' /\ Rests
    BY <1>2, <1>5, <1>8, <1>9, <2>3, <2>4, <2>5, SameKeeps DEF Rests
  <2>7. QED
    BY <2>6
<1>12. CASE phase[u] \in {"unpublished", "failed"}
  <2>1. ~Unharmed(r)'
    BY <1>5, <1>6, <1>9, <1>12 DEF Unharmed
  <2>2. NestInv(d)'
    BY <1>2, <1>8, <1>9, <2>1, OwnStepKeeps
  <2>3. ~Unharmed(request[f])'
    BY <1>1, <1>9, <2>1 DEF Unharmed, LeafStep
  <2>4. QED
    BY <2>2, <2>3
<1>13. QED
  BY <1>7, <1>10, <1>11, <1>12

\* A step that only starts or ends a frame.
LEMMA SameUows ==
  ASSUME phase' = phase, disposed' = disposed, owner' = owner, outer' = outer
  PROVE  /\ Rests /\ (NestedInv' <=> NestedInv)
         /\ \A r : Unharmed(r)' <=> Unharmed(r)
         /\ \A x : Live(x)' <=> Live(x)
<1>1. /\ \A r : LiveUows(r)' = LiveUows(r)
      /\ \A r : Unharmed(r)' <=> Unharmed(r)
      /\ \A x : Live(x)' <=> Live(x)
  BY DEF LiveUows, Unharmed, Live
<1>2. NestedInv' <=> NestedInv
  <2>1. \A u \in Uow : /\ LiveBelow(u)' = LiveBelow(u) /\ outer'[u] = outer[u]
                       /\ Unharmed(owner[u])' <=> Unharmed(owner[u])
    BY DEF LiveBelow, LiveUows, Unharmed
  <2>2. \A u \in Uow : Top(outer[u], LiveBelow(u))' <=> Top(outer[u], LiveBelow(u))
    BY <2>1 DEF Top
  <2>3. QED
    BY <1>1, <2>1, <2>2 DEF NestedInv
<1>3. QED
  BY <1>1, <1>2 DEF Rests

LEMMA StartRequestNest ==
  ASSUME IInv, ScopeInv, NEW d \in [Flows -> Nat], SeqInv(d), NestInv(d),
         NEW f \in Flows, StartRequest(f)
  PROVE  NestInv(d)' /\ Rests
<1>1. /\ f \in Roots /\ status[f] = "idle" /\ status' = [status EXCEPT ![f] = "running"]
      /\ parent' = parent /\ request' = request /\ local' = local /\ scopes' = scopes
      /\ phase' = phase /\ disposed' = disposed /\ outer' = outer /\ held' = held
      /\ owner' = owner
  BY DEF StartRequest, uowVars
<1>2. local[f] = NoUow /\ request[f] = f /\ parent[f] = f /\ ~Active(f)
  BY <1>1 DEF IInv, IdleInv, SeqInv, StackInv, Active
<1>3. status'[f] = "running" /\ \A g \in Flows : g # f => status'[g] = status[g]
  BY <1>1 DEF IInv, TypeOK
<1>4. \A g \in Flows : Active(g)' <=> Active(g) \/ g = f
  BY <1>3 DEF Active
<1>5. \A g \in Flows : Active(g) => request[g] # f
  BY <1>2 DEF SeqInv, StackInv
<1>6. \A g \in Flows : g # f => (HasRunningCallee(g)' <=> HasRunningCallee(g))
  BY <1>1, <1>2, <1>3 DEF HasRunningCallee
<1>7. Leaf(f)' /\ \A g \in Flows : g # f => (Leaf(g)' <=> Leaf(g))
  <2>1. ~HasRunningCallee(f)'
    <3> SUFFICES ASSUME NEW g \in Flows, g # f, parent[g] = f, Active(g)'
                 PROVE  FALSE
      BY <1>1 DEF HasRunningCallee, Active
    <3>1. Active(g) /\ request[parent[g]] = request[g]
      BY <1>4 DEF SeqInv, StackInv
    <3>2. QED
      BY <1>2, <1>5, <3>1
  <2>2. QED
    BY <1>4, <1>6, <2>1 DEF Leaf
<1>8. /\ Rests /\ NestedInv' /\ \A r : Unharmed(r)' <=> Unharmed(r)
      /\ \A x : Live(x)' <=> Live(x)
  BY <1>1, SameUows DEF NestInv
<1>9. TreeInv(d)'
  <2>1. \A g \in Flows : Active(g)' /\ parent[g] # g =>
          Active(parent[g])' /\ d[g] = d[parent[g]] + 1
    <3> SUFFICES ASSUME NEW g \in Flows, Active(g)', parent[g] # g
                 PROVE  Active(parent[g])' /\ d[g] = d[parent[g]] + 1
      OBVIOUS
    <3>1. PICK p \in Flows : p = parent[g]
      BY DEF IInv, TypeOK
    <3>2. Active(p) /\ d[g] = d[p] + 1
      BY <1>2, <1>4, <3>1 DEF NestInv, TreeInv
    <3>3. Active(p)'
      BY <1>4, <3>2
    <3>4. QED
      BY <1>1, <3>1, <3>2, <3>3 DEF Active
  <2>2. \A g \in Flows : Active(g)' /\ request[g] # g => parent[g] # g
    BY <1>2, <1>4 DEF NestInv, TreeInv
  <2>3. \A r \in Roots : Active(r)' => \E g \in Flows : Leaf(g)' /\ request[g] = r
    <3> SUFFICES ASSUME NEW r \in Roots, Active(r)'
                 PROVE  \E g \in Flows : Leaf(g)' /\ request[g] = r
      OBVIOUS
    <3>1. CASE r = f
      BY <1>2, <1>7, <3>1
    <3>2. CASE r # f
      <4>1. PICK g \in Flows : Leaf(g) /\ request[g] = r
        BY <1>4, <3>2, FlowsAssumption DEF NestInv, TreeInv
      <4>2. g # f
        BY <1>2, <3>2, <4>1
      <4>3. QED
        BY <1>7, <4>1, <4>2
    <3>3. QED
      BY <3>1, <3>2
  <2>4. QED
    BY <1>1, <2>1, <2>2, <2>3 DEF TreeInv
<1>10. CurrentInv'
  <2>0. \A g \in Flows : Current(g)' = Current(g)
    BY <1>1 DEF Current, Stale, Inside
  <2> SUFFICES ASSUME NEW g \in Flows, Leaf(g)', Unharmed(request[g])
               PROVE  Top(Current(g), LiveUows(request[g]))
    BY <1>1, <1>8, <2>0 DEF CurrentInv, Rests, Unharmed, LiveUows, Top
  <2>1. CASE g = f
    <3>1. LiveUows(f) = {}
      <4> SUFFICES ASSUME NEW x \in LiveUows(f)
                   PROVE  FALSE
        OBVIOUS
      <4>1. x \in Uow /\ Live(x) /\ owner[x] = f
        BY DEF LiveUows, Live
      <4>2. \E h \in Flows : Active(h) /\ request[h] = f
        BY <4>1, LiveScope
      <4>3. QED
        BY <1>5, <4>2
    <3>2. Current(f) = NoUow
      BY <1>2 DEF Current, Stale, Inside
    <3>3. QED
      BY <1>2, <2>1, <3>1, <3>2 DEF Top
  <2>2. CASE g # f
    BY <1>7, <2>2 DEF NestInv, CurrentInv
  <2>3. QED
    BY <2>1, <2>2
<1>11. ApartInv(d)'
  <2> SUFFICES ASSUME NEW a \in Flows, NEW g \in Flows, Active(a)', Active(g)',
                      request[a] = request[g], d[a] < d[g],
                      local[a] # local[g], Unharmed(request[g]),
                      NEW h \in Flows, request[h] = request[g], d[h] <= d[a],
                      NEW i \in 1 .. Len(scopes[h]), IsUow(h, i), Live(scopes[h][i].uow)
               PROVE  FALSE
    <3>1. SUFFICES ASSUME NEW a \in Flows, NEW g \in Flows, Active(a)', Active(g)',
                          request'[a] = request'[g], d[a] < d[g],
                          local'[a] # local'[g], Unharmed(request[g])',
                          NEW h \in Flows, request'[h] = request'[g], d[h] <= d[a],
                          NEW i \in 1 .. Len(scopes'[h]), IsUow(h, i)', Live(scopes[h][i].uow)'
                   PROVE  FALSE
      BY DEF ApartInv
    <3>2. IsUow(h, i) /\ Live(scopes[h][i].uow) /\ i \in 1 .. Len(scopes[h])
      BY <1>1, <3>1 DEF IsUow, Live
    <3>3. Unharmed(request[g])
      BY <1>1, <3>1 DEF Unharmed
    <3>4. QED
      BY <1>1, <3>1, <3>2, <3>3
  <2>1. Active(a) /\ Active(g)
    <3>1. d[a] \in Nat /\ a # g
      OBVIOUS
    <3>2. QED
      BY <1>2, <1>4, <1>5, <3>1
  <2>2. QED
    BY <2>1 DEF NestInv, ApartInv
<1>12. QED
  BY <1>8, <1>9, <1>10, <1>11 DEF NestInv

LEMMA CallNest ==
  ASSUME IInv, ScopeInv, Concurrent = FALSE, NEW d \in [Flows -> Nat], SeqInv(d), NestInv(d),
         NEW f \in Flows, NEW g \in Flows, Call(f, g),
         NEW e \in [Flows -> Nat], e = [d EXCEPT ![g] = d[f] + 1]
  PROVE  NestInv(e)' /\ Rests
<1>2. /\ g \notin Roots /\ status[g] = "idle" /\ status' = [status EXCEPT ![g] = "running"]
      /\ parent' = [parent EXCEPT ![g] = f] /\ request' = [request EXCEPT ![g] = request[f]]
      /\ local' = [local EXCEPT ![g] = local[f]] /\ scopes' = scopes
      /\ phase' = phase /\ disposed' = disposed /\ outer' = outer /\ held' = held /\ owner' = owner
  BY DEF Call, uowVars
<1>3. Leaf(f) /\ f # g
  BY <1>2 DEF Call, CanStep, Leaf, Active
<1>4. scopes[g] = <<>> /\ request[g] = g /\ parent[g] = g /\ ~Active(g)
  BY <1>2 DEF IInv, IdleInv, SeqInv, StackInv, Active
<1>5. /\ status'[g] = "running" /\ parent'[g] = f /\ request'[g] = request[f]
      /\ local'[g] = local[f] /\ e[g] = d[f] + 1
      /\ \A h \in Flows : h # g => /\ status'[h] = status[h] /\ parent'[h] = parent[h]
                                   /\ request'[h] = request[h] /\ local'[h] = local[h]
                                   /\ e[h] = d[h]
      /\ \A h \in Flows : d[h] \in Nat /\ e[h] \in Nat
  BY <1>2 DEF IInv, TypeOK
<1>6. \A h \in Flows : (Active(h)' <=> Active(h) \/ h = g) /\ (Active(h) => h # g)
  BY <1>4, <1>5 DEF Active
<1>7. \A h \in Flows : Active(h) => parent[h] # g /\ parent[h] \in Flows
  <2> SUFFICES ASSUME NEW h \in Flows, Active(h)
               PROVE  parent[h] # g /\ parent[h] \in Flows
    OBVIOUS
  <2>1. request[h] \in Roots /\ request[parent[h]] = request[h]
    BY DEF SeqInv, StackInv
  <2>2. QED
    BY <1>2, <1>4, <2>1 DEF IInv, TypeOK
<1>8. \A h \in Flows : Active(h) /\ request[h] = request[f] => d[h] <= d[f] /\ e[h] = d[h]
  <2> SUFFICES ASSUME NEW h \in Flows, Active(h), request[h] = request[f]
               PROVE  d[h] <= d[f] /\ e[h] = d[h]
    OBVIOUS
  <2>1. h = f \/ d[h] < d[f]
    BY <1>3, LeafIsDeepest DEF SeqInv
  <2>2. e[h] = d[h]
    BY <1>5, <1>6
  <2>3. QED
    BY <1>5, <2>1, <2>2
<1>9. \A h \in Flows : h # f /\ h # g => (HasRunningCallee(h)' <=> HasRunningCallee(h))
  <2> SUFFICES ASSUME NEW h \in Flows, h # f, h # g
               PROVE  HasRunningCallee(h)' <=> HasRunningCallee(h)
    OBVIOUS
  <2>1. \A k \in Flows : Active(k)' /\ parent'[k] = h <=> Active(k) /\ parent[k] = h
    BY <1>4, <1>5, <1>6
  <2>2. QED
    BY <2>1 DEF HasRunningCallee, Active
<1>10. Leaf(g)' /\ ~Leaf(f)' /\ \A h \in Flows : h # f /\ h # g => (Leaf(h)' <=> Leaf(h))
  <2>1. ~HasRunningCallee(g)'
    <3> SUFFICES ASSUME NEW h \in Flows, h # g, parent'[h] = g, Active(h)'
                 PROVE  FALSE
      BY DEF HasRunningCallee, Active
    <3>1. Active(h) /\ parent[h] = g
      BY <1>5, <1>6
    <3>2. QED
      BY <1>7, <3>1
  <2>2. HasRunningCallee(f)'
    BY <1>3, <1>5 DEF HasRunningCallee
  <2>3. QED
    BY <1>6, <1>9, <2>1, <2>2 DEF Leaf
<1>11. /\ Rests /\ NestedInv' /\ \A r : Unharmed(r)' <=> Unharmed(r)
       /\ \A x : Live(x)' <=> Live(x)
  BY <1>2, SameUows DEF NestInv
<1>12. TreeInv(e)'
  <2>1. \A h \in Flows : Active(h)' /\ parent'[h] # h =>
          Active(parent[h])' /\ e[h] = e[parent'[h]] + 1
    <3> SUFFICES ASSUME NEW h \in Flows, Active(h)', parent'[h] # h
                 PROVE  Active(parent[h])' /\ e[h] = e[parent'[h]] + 1
      OBVIOUS
    <3>1. PICK p \in Flows : p = parent'[h] /\ Active(p) /\ e[h] = d[p] + 1
      <4>1. CASE h = g
        BY <1>3, <1>5, <4>1 DEF Leaf
      <4>2. CASE h # g
        <5>1. Active(h) /\ parent'[h] = parent[h] /\ parent[h] # h /\ e[h] = d[h]
          BY <1>5, <1>6, <4>2
        <5>2. Active(parent[h]) /\ d[h] = d[parent[h]] + 1 /\ parent[h] \in Flows
          BY <1>7, <5>1 DEF NestInv, TreeInv
        <5>3. QED
          BY <5>1, <5>2
      <4>3. QED
        BY <4>1, <4>2
    <3>2. Active(p)' /\ e[p] = d[p]
      BY <1>5, <1>6, <3>1
    <3>3. QED
      BY <3>1, <3>2 DEF Active
  <2>2. \A h \in Flows : Active(h)' /\ request'[h] # h => parent'[h] # h
    BY <1>3, <1>5, <1>6 DEF NestInv, TreeInv
  <2>3. \A r \in Roots : Active(r)' => \E h \in Flows : Leaf(h)' /\ request'[h] = r
    <3> SUFFICES ASSUME NEW r \in Roots, Active(r)'
                 PROVE  \E h \in Flows : Leaf(h)' /\ request'[h] = r
      OBVIOUS
    <3>1. r \in Flows /\ r # g
      BY <1>2, FlowsAssumption
    <3>2. PICK h \in Flows : Leaf(h) /\ request[h] = r
      BY <1>6, <3>1 DEF NestInv, TreeInv
    <3>3. h # g
      BY <1>6, <3>2 DEF Leaf
    <3>4. CASE h = f
      BY <1>5, <1>10, <3>2, <3>4
    <3>5. CASE h # f
      BY <1>5, <1>10, <3>2, <3>3, <3>5
    <3>6. QED
      BY <3>4, <3>5
  <2>4. QED
    BY <2>1, <2>2, <2>3 DEF TreeInv
<1>13. CurrentInv'
  <2> SUFFICES ASSUME NEW h \in Flows, Leaf(h)', NEW r, r = request'[h], Unharmed(r)
               PROVE  Top(Current(h)', LiveUows(r))
    BY <1>11 DEF CurrentInv, Rests, Unharmed, LiveUows, Top
  <2>1. PICK k \in Flows : Leaf(k) /\ request[k] = r /\ local'[h] = local[k]
    <3>1. CASE h = g
      BY <1>3, <1>5, <3>1
    <3>2. CASE h # g
      BY <1>5, <1>10, <3>2
    <3>3. QED
      BY <3>1, <3>2
  <2>2. Current(h)' = Current(k)
    BY <1>2, <2>1 DEF Current, Stale, Inside
  <2>3. QED
    BY <2>1, <2>2 DEF NestInv, CurrentInv
<1>14. ApartInv(e)'
  <2> SUFFICES ASSUME NEW a \in Flows, NEW b \in Flows, Active(a)', Active(b)',
                      NEW r, request'[a] = r, request'[b] = r, e[a] < e[b],
                      local'[a] # local'[b], Unharmed(r),
                      NEW h \in Flows, request'[h] = r, e[h] <= e[a],
                      NEW i \in 1 .. Len(scopes[h]), IsUow(h, i), Live(scopes[h][i].uow)
               PROVE  FALSE
    <3>1. SUFFICES ASSUME NEW a \in Flows, NEW b \in Flows, Active(a)', Active(b)',
                          request'[a] = request'[b], e[a] < e[b],
                          local'[a] # local'[b], Unharmed(request[b])',
                          NEW h \in Flows, request'[h] = request'[b], e[h] <= e[a],
                          NEW i \in 1 .. Len(scopes'[h]), IsUow(h, i)', Live(scopes[h][i].uow)'
                   PROVE  FALSE
      BY DEF ApartInv
    <3>2. IsUow(h, i) /\ Live(scopes[h][i].uow) /\ i \in 1 .. Len(scopes[h])
      BY <1>2, <3>1 DEF IsUow, Live
    <3>3. \E r : r = request'[b] /\ Unharmed(r)
      BY <1>2, <3>1 DEF Unharmed
    <3>4. QED
      BY <3>1, <3>2, <3>3
  <2>1. h # g
    BY <1>4
  <2>2. request[h] = r /\ e[h] = d[h]
    BY <1>5, <2>1
  <2>3. a # g
    <3> SUFFICES ASSUME a = g
                 PROVE  FALSE
      OBVIOUS
    <3>1. b # g
      BY <1>5
    <3>2. Active(b) /\ request[b] = request[f]
      BY <1>5, <1>6, <3>1
    <3>3. e[b] <= d[f] /\ e[g] = d[f] + 1 /\ d[f] \in Nat /\ e[b] \in Nat
      BY <1>5, <1>8, <3>2
    <3>4. QED
      BY <3>3
  <2>4. Active(a) /\ request[a] = r /\ e[a] = d[a] /\ local'[a] = local[a]
    BY <1>5, <1>6, <2>3
  <2>5. CASE b # g
    <3>1. Active(b) /\ request[b] = r /\ e[b] = d[b] /\ local'[b] = local[b]
      BY <1>5, <1>6, <2>5
    <3>2. QED
      BY <2>2, <2>4, <3>1 DEF NestInv, ApartInv
  <2>6. CASE b = g
    <3>1. request[f] = r /\ local[a] # local[f] /\ a # f
      BY <1>5, <2>4, <2>6
    <3>2. d[a] < d[f] /\ Active(f)
      BY <1>3, <2>4, <3>1, LeafIsDeepest DEF SeqInv, Leaf
    <3>3. QED
      BY <2>2, <2>4, <3>1, <3>2 DEF NestInv, ApartInv
  <2>7. QED
    BY <2>5, <2>6
<1>15. QED
  BY <1>11, <1>12, <1>13, <1>14 DEF NestInv

LEMMA ReturnNest ==
  ASSUME IInv, ScopeInv, Concurrent = FALSE, NEW d \in [Flows -> Nat], SeqInv(d), NestInv(d),
         NEW f \in Flows, Return(f)
  PROVE  NestInv(d)' /\ Rests
<1>1. /\ scopes[f] = <<>> /\ status' = [status EXCEPT ![f] = "returned"]
      /\ parent' = parent /\ request' = request /\ local' = local /\ scopes' = scopes
      /\ phase' = phase /\ disposed' = disposed /\ outer' = outer /\ held' = held
      /\ owner' = owner
  BY DEF Return, uowVars
<1>2. Leaf(f)
  BY DEF Return, CanStep, Leaf, Active
<1>3. status'[f] = "returned" /\ \A g \in Flows : g # f => status'[g] = status[g]
  BY <1>1 DEF IInv, TypeOK
<1>4. \A g \in Flows : Active(g)' <=> Active(g) /\ g # f
  BY <1>3 DEF Active
<1>5. \A g \in Flows : HasRunningCallee(g)' => HasRunningCallee(g)
  BY <1>1, <1>2, <1>3 DEF HasRunningCallee
<1>6. \A g \in Flows : Active(g) /\ request[g] = request[f] /\ g # f => d[g] < d[f]
  BY <1>2, LeafIsDeepest DEF SeqInv
<1>7. \A g \in Flows : d[g] \in Nat
  OBVIOUS
<1>8. /\ Rests /\ NestedInv' /\ \A r : Unharmed(r)' <=> Unharmed(r)
      /\ \A x : Live(x)' <=> Live(x)
  BY <1>1, SameUows DEF NestInv
\* The caller of f executes next.
<1>9. ASSUME NEW p \in Flows, parent[f] = p, p # f
      PROVE  Active(p) /\ request[p] = request[f] /\ d[f] = d[p] + 1 /\ Leaf(p)'
  <2>1. Active(p) /\ request[p] = request[f] /\ d[f] = d[p] + 1
    BY <1>2, <1>9 DEF NestInv, TreeInv, SeqInv, StackInv, Leaf
  <2>2. ~HasRunningCallee(p)'
    <3> SUFFICES ASSUME NEW h \in Flows, h # p, parent[h] = p, Active(h)'
                 PROVE  FALSE
      BY <1>1 DEF HasRunningCallee, Active
    <3>1. Active(h) /\ h # f
      BY <1>4
    <3>2. d[h] = d[p] + 1 /\ request[h] = request[p]
      BY <3>1 DEF NestInv, TreeInv, SeqInv, StackInv
    <3>3. QED
      BY <1>6, <1>7, <2>1, <3>1, <3>2
  <2>3. QED
    BY <1>4, <1>9, <2>1, <2>2 DEF Leaf
<1>10. TreeInv(d)'
  <2>1. \A g \in Flows : Active(g)' /\ parent[g] # g =>
          Active(parent[g])' /\ d[g] = d[parent[g]] + 1
    <3> SUFFICES ASSUME NEW g \in Flows, Active(g)', parent[g] # g
                 PROVE  Active(parent[g])' /\ d[g] = d[parent[g]] + 1
      OBVIOUS
    <3>1. PICK p \in Flows : p = parent[g]
      BY DEF IInv, TypeOK
    <3>2. Active(p) /\ d[g] = d[p] + 1 /\ Active(g)
      BY <1>4, <3>1 DEF NestInv, TreeInv
    <3>3. p # f
      BY <1>2, <3>1, <3>2 DEF Leaf, HasRunningCallee, Active
    <3>4. Active(p)'
      BY <1>4, <3>2, <3>3
    <3>5. QED
      BY <1>1, <3>1, <3>2, <3>4 DEF Active
  <2>2. \A g \in Flows : Active(g)' /\ request[g] # g => parent[g] # g
    BY <1>4 DEF NestInv, TreeInv
  <2>3. \A r \in Roots : Active(r)' => \E g \in Flows : Leaf(g)' /\ request[g] = r
    <3> SUFFICES ASSUME NEW r \in Roots, Active(r)'
                 PROVE  \E g \in Flows : Leaf(g)' /\ request[g] = r
      OBVIOUS
    <3>1. PICK g \in Flows : Leaf(g) /\ request[g] = r
      BY <1>4, FlowsAssumption DEF NestInv, TreeInv
    <3>2. CASE g # f
      BY <1>4, <1>5, <3>1, <3>2 DEF Leaf
    <3>3. CASE g = f
      <4>1. request[f] # f
        BY <1>4, <3>1, <3>3, FlowsAssumption
      <4>2. PICK p \in Flows : p = parent[f] /\ p # f
        BY <1>2, <4>1 DEF NestInv, TreeInv, Leaf, IInv, TypeOK
      <4>3. QED
        BY <1>9, <3>1, <3>3, <4>2
    <3>4. QED
      BY <3>2, <3>3
  <2>4. QED
    BY <1>1, <2>1, <2>2, <2>3 DEF TreeInv
<1>11. CurrentInv'
  <2>0. \A g \in Flows : Current(g)' = Current(g)
    BY <1>1 DEF Current, Stale, Inside
  <2> SUFFICES ASSUME NEW g \in Flows, Leaf(g)', Unharmed(request[g])
               PROVE  Top(Current(g), LiveUows(request[g]))
    BY <1>1, <1>8, <2>0 DEF CurrentInv, Rests, Unharmed, LiveUows, Top
  <2>1. CASE Leaf(g)
    BY <2>1 DEF NestInv, CurrentInv
  <2>2. CASE ~Leaf(g)
    <3>1. Active(g) /\ g # f /\ HasRunningCallee(g) /\ ~HasRunningCallee(g)'
      BY <1>4, <2>2 DEF Leaf
    <3>2. parent[f] = g
      BY <1>1, <1>3, <3>1 DEF HasRunningCallee
    <3>3. request[g] = request[f] /\ d[f] = d[g] + 1
      BY <1>9, <3>1, <3>2
    <3>4. Top(Current(f), LiveUows(request[f]))
      BY <1>2, <3>3 DEF NestInv, CurrentInv
    <3>5. CASE local[g] = local[f]
      <4>1. Current(g) = Current(f)
        BY <3>5 DEF Current, Stale, Inside
      <4>2. QED
        BY <3>3, <3>4, <4>1
    <3>6. CASE local[g] # local[f]
      <4>1. ASSUME NEW x \in Uow, Live(x), owner[x] = request[f]
            PROVE  FALSE
        <5>1. PICK h \in Flows : /\ Active(h) /\ request[h] = owner[x]
                                 /\ \E i \in 1 .. Len(scopes[h]) : IsUow(h, i) /\ scopes[h][i].uow = x
          BY <4>1, LiveScope
        <5>2. h # f
          BY <1>1, <5>1
        <5>3. d[h] < d[f]
          BY <1>6, <4>1, <5>1, <5>2
        <5>4. d[h] <= d[g] /\ d[g] < d[f]
          BY <1>7, <3>3, <5>3
        <5>5. QED
          BY <1>2, <3>1, <3>3, <3>6, <4>1, <5>1, <5>4 DEF NestInv, ApartInv, Leaf
      <4>2. LiveUows(request[f]) = {}
        BY <4>1 DEF LiveUows, Live
      <4>3. Current(g) = NoUow
        <5> SUFFICES ASSUME Current(g) # NoUow
                     PROVE  FALSE
          OBVIOUS
        <5>1. PICK x \in Uow : /\ x = Current(g) /\ owner[x] = request[f] /\ ~disposed[x]
                               /\ x = Inside(local[g]) /\ x # NoUow
          BY <3>3, CurrentFacts DEF Inside
        <5>2. Fresh(Inside(local[g]))'
          <6>1. SeqInv(d)'
            BY ReturnKeeps
          <6>2. QED
            BY <6>1 DEF SeqInv, LeafInv, Leaf
        <5>3. Inside(local[g])' = x
          BY <1>1, <5>1 DEF Inside
        <5>4. Live(x)
          BY <1>1, <5>1, <5>2, <5>3 DEF Fresh, Live
        <5>5. QED
          BY <4>1, <5>1, <5>4
      <4>4. QED
        BY <3>3, <4>2, <4>3 DEF Top
    <3>7. QED
      BY <3>5, <3>6
  <2>3. QED
    BY <2>1, <2>2
<1>12. ApartInv(d)'
  <2> SUFFICES ASSUME NEW a \in Flows, NEW g \in Flows, Active(a)', Active(g)',
                      request[a] = request[g], d[a] < d[g],
                      local[a] # local[g], Unharmed(request[g]),
                      NEW h \in Flows, request[h] = request[g], d[h] <= d[a],
                      NEW i \in 1 .. Len(scopes[h]), IsUow(h, i), Live(scopes[h][i].uow)
               PROVE  FALSE
    <3>1. SUFFICES ASSUME NEW a \in Flows, NEW g \in Flows, Active(a)', Active(g)',
                          request'[a] = request'[g], d[a] < d[g],
                          local'[a] # local'[g], Unharmed(request[g])',
                          NEW h \in Flows, request'[h] = request'[g], d[h] <= d[a],
                          NEW i \in 1 .. Len(scopes'[h]), IsUow(h, i)', Live(scopes[h][i].uow)'
                   PROVE  FALSE
      BY DEF ApartInv
    <3>2. IsUow(h, i) /\ Live(scopes[h][i].uow) /\ i \in 1 .. Len(scopes[h])
      BY <1>1, <3>1 DEF IsUow, Live
    <3>3. Unharmed(request[g])
      BY <1>1, <3>1 DEF Unharmed
    <3>4. QED
      BY <1>1, <3>1, <3>2, <3>3
  <2>1. QED
    BY <1>4 DEF NestInv, ApartInv
<1>13. QED
  BY <1>8, <1>10, <1>11, <1>12 DEF NestInv

-----------------------------------------------------------------------------
(* The stack below a unit of work.                                         *)

LEMMA SmallestOf ==
  ASSUME NEW T \in SUBSET Nat, T # {}
  PROVE  \E n \in T : \A m \in T : ~(m < n)
<1>1. \E n \in T : \A m \in T : <<m, n>> \notin OpToRel(<, Nat)
  BY WFMin, NatLessThanWellFounded
<1>2. QED
  BY <1>1 DEF OpToRel

\* Chain, for any Outer references o and for units of work up to n.
IsChain(c, o, n) ==
  c = [u \in 0 .. n |-> IF u = NoUow THEN <<>>
                        ELSE Append(IF o[u] < u THEN c[o[u]] ELSE <<>>, u)]

Backwards(o) == o \in [Uow -> UowOrNull] /\ \A u \in Uow : o[u] < u

LEMMA ChainUpTo ==
  ASSUME NEW o, Backwards(o)
  PROVE  \A n \in 0 .. MaxUow : \E c : IsChain(c, o, n)
<1> DEFINE Bad == {n \in 0 .. MaxUow : ~\E c : IsChain(c, o, n)}
<1> SUFFICES ASSUME Bad # {}
             PROVE  FALSE
  OBVIOUS
<1>0. Bad \in SUBSET Nat
  OBVIOUS
<1>1. PICK n \in Bad : \A m \in Bad : ~(m < n)
  <2> HIDE DEF Bad
  <2>1. QED
    BY <1>0, SmallestOf
<1>2. n \in 0 .. MaxUow /\ ~\E c : IsChain(c, o, n)
  OBVIOUS
<1>3. CASE n = 0
  <2>1. IsChain([u \in 0 .. 0 |-> <<>>], o, 0)
    BY DEF IsChain, NoUow
  <2>2. QED
    BY <1>2, <1>3, <2>1
<1>4. CASE n # 0
  <2>1. n - 1 \in 0 .. MaxUow /\ n - 1 \notin Bad
    BY <1>1, <1>2, <1>4
  <2>2. PICK c : IsChain(c, o, n - 1)
    BY <2>1
  <2> DEFINE e == Append(c[o[n]], n)
             x == [u \in 0 .. n |-> IF u = n THEN e ELSE c[u]]
  <2>3. o[n] \in 0 .. n - 1 /\ n # NoUow /\ o[n] < n
    BY <1>2, <1>4 DEF Backwards, Uow, UowOrNull, NoUow
  <2> HIDE DEF e
  <2>4. \A u \in 0 .. n - 1 : x[u] = c[u]
    OBVIOUS
  <2>5. x[n] = e /\ x[o[n]] = c[o[n]]
    BY <2>3
  <2>6. \A u \in 0 .. n - 1 : u # NoUow => o[u] < u /\ o[u] \in 0 .. n - 1
    BY <1>2 DEF Backwards, Uow, UowOrNull, NoUow
  <2>7. \A u \in 0 .. n - 1 :
          x[u] = IF u = NoUow THEN <<>> ELSE Append(IF o[u] < u THEN x[o[u]] ELSE <<>>, u)
    <3> SUFFICES ASSUME NEW u \in 0 .. n - 1
                 PROVE  x[u] = IF u = NoUow THEN <<>>
                               ELSE Append(IF o[u] < u THEN x[o[u]] ELSE <<>>, u)
      OBVIOUS
    <3>1. x[u] = c[u] /\ (u # NoUow => o[u] < u /\ x[o[u]] = c[o[u]])
      BY <2>4, <2>6
    <3> HIDE DEF x
    <3>2. c[u] = IF u = NoUow THEN <<>> ELSE Append(IF o[u] < u THEN c[o[u]] ELSE <<>>, u)
      BY <2>2 DEF IsChain
    <3>3. QED
      BY <3>1, <3>2
  <2>8. x[n] = IF n = NoUow THEN <<>> ELSE Append(IF o[n] < n THEN x[o[n]] ELSE <<>>, n)
    BY <2>3, <2>5 DEF e
  <2>9. \A u \in 0 .. n : u = n \/ u \in 0 .. n - 1
    BY <1>2
  <2> HIDE DEF x
  <2>10. x = [u \in 0 .. n |-> IF u = NoUow THEN <<>>
                               ELSE Append(IF o[u] < u THEN x[o[u]] ELSE <<>>, u)]
    <3>1. x = [u \in 0 .. n |-> x[u]]
      BY DEF x
    <3>2. \A u \in 0 .. n :
            x[u] = IF u = NoUow THEN <<>> ELSE Append(IF o[u] < u THEN x[o[u]] ELSE <<>>, u)
      BY <2>7, <2>8, <2>9
    <3>3. QED
      BY <3>1, <3>2
  <2>11. QED
    BY <1>2, <2>10 DEF IsChain
<1>5. QED
  BY <1>3, <1>4

ChainOf(o) == CHOOSE c : c = [u \in UowOrNull |-> IF u = NoUow THEN <<>>
                                  ELSE Append(IF o[u] < u THEN c[o[u]] ELSE <<>>, u)]

LEMMA ChainIsChainOf == Chain = ChainOf(outer)
  BY DEF Chain, ChainOf

LEMMA ChainSteps ==
  ASSUME NEW o, Backwards(o)
  PROVE  /\ ChainOf(o)[NoUow] = <<>>
         /\ \A u \in Uow : ChainOf(o)[u] = Append(ChainOf(o)[o[u]], u)
<1>1. \E c : c = [u \in UowOrNull |-> IF u = NoUow THEN <<>>
                                  ELSE Append(IF o[u] < u THEN c[o[u]] ELSE <<>>, u)]
  <2>1. \E c : IsChain(c, o, MaxUow)
    BY ChainUpTo
  <2>2. QED
    BY <2>1 DEF IsChain, UowOrNull
<1>2. PICK d : d = ChainOf(o)
  OBVIOUS
<1>3. d = [u \in UowOrNull |-> IF u = NoUow THEN <<>>
                               ELSE Append(IF o[u] < u THEN d[o[u]] ELSE <<>>, u)]
  BY <1>1, <1>2, Zenon DEF ChainOf
<1>4. d[NoUow] = <<>>
  BY <1>3 DEF NoUow, UowOrNull
<1>5. \A u \in Uow : d[u] = Append(d[o[u]], u)
  <2> TAKE u \in Uow
  <2>1. u \in UowOrNull /\ u # NoUow /\ o[u] < u
    BY DEF NoUow, Uow, UowOrNull, Backwards
  <2>2. d[u] = IF u = NoUow THEN <<>> ELSE Append(IF o[u] < u THEN d[o[u]] ELSE <<>>, u)
    BY <1>3, <2>1
  <2>3. QED
    BY <2>1, <2>2
<1>6. QED
  BY <1>2, <1>4, <1>5

LEMMA ChainTyped ==
  ASSUME NEW o, Backwards(o)
  PROVE  \A u \in UowOrNull : ChainOf(o)[u] \in Seq(Uow)
<1> DEFINE Bad == {u \in UowOrNull : ChainOf(o)[u] \notin Seq(Uow)}
<1> SUFFICES ASSUME Bad # {}
             PROVE  FALSE
  OBVIOUS
<1>1. Bad \in SUBSET Nat
  BY DEF UowOrNull
<1>2. PICK u \in Bad : \A v \in Bad : ~(v < u)
  <2> HIDE DEF Bad
  <2>1. QED
    BY <1>1, SmallestOf
<1>3. u \in Uow
  <2>1. u # NoUow
    <3>1. ChainOf(o)[NoUow] = <<>> /\ <<>> \in Seq(Uow)
      BY ChainSteps
    <3>2. QED
      BY <3>1
  <2>2. QED
    BY <2>1 DEF NoUow, Uow, UowOrNull
<1>4. o[u] \in UowOrNull /\ o[u] < u
  BY <1>3 DEF Backwards
<1>5. ChainOf(o)[o[u]] \in Seq(Uow)
  <2>1. o[u] \notin Bad
    BY <1>2, <1>4
  <2>2. QED
    BY <1>4, <2>1
<1>6. ChainOf(o)[u] \in Seq(Uow)
  <2>1. PICK s \in Seq(Uow) : s = ChainOf(o)[o[u]]
    BY <1>5
  <2>2. Append(s, u) \in Seq(Uow) /\ ChainOf(o)[u] = Append(s, u)
    BY <1>3, <2>1, ChainSteps
  <2>3. QED
    BY <2>2
<1>7. QED
  BY <1>6

\* What is younger does not matter.
LEMMA ChainSame ==
  ASSUME NEW o, NEW p, Backwards(o), Backwards(p), NEW n \in Nat,
         \A u \in Uow : u <= n => p[u] = o[u]
  PROVE  \A u \in UowOrNull : u <= n => ChainOf(p)[u] = ChainOf(o)[u]
<1> DEFINE Bad == {u \in UowOrNull : u <= n /\ ChainOf(p)[u] # ChainOf(o)[u]}
<1> SUFFICES ASSUME Bad # {}
             PROVE  FALSE
  OBVIOUS
<1>1. Bad \in SUBSET Nat
  BY DEF UowOrNull
<1>2. PICK u \in Bad : \A v \in Bad : ~(v < u)
  <2> HIDE DEF Bad
  <2>1. QED
    BY <1>1, SmallestOf
<1>3. u \in Uow /\ u <= n
  <2>1. u # NoUow
    BY ChainSteps
  <2>2. QED
    BY <2>1 DEF NoUow, Uow, UowOrNull
<1>4. o[u] \in UowOrNull /\ o[u] < u /\ p[u] = o[u] /\ o[u] <= n
  BY <1>3 DEF Backwards, Uow, UowOrNull
<1>5. ChainOf(p)[o[u]] = ChainOf(o)[o[u]]
  <2>1. o[u] \notin Bad
    BY <1>2, <1>4
  <2>2. QED
    BY <1>4, <2>1
<1>6. ChainOf(p)[u] = ChainOf(o)[u]
  <2>1. ChainOf(p)[u] = Append(ChainOf(p)[p[u]], u)
    BY <1>3, ChainSteps
  <2>2. ChainOf(o)[u] = Append(ChainOf(o)[o[u]], u)
    BY <1>3, ChainSteps
  <2>3. QED
    BY <1>4, <1>5, <2>1, <2>2
<1>7. QED
  BY <1>6

LEMMA OuterBackwards == IInv => Backwards(outer)
  BY DEF IInv, TypeOK, CreatedInv, Backwards

-----------------------------------------------------------------------------
(* The stack that is implemented.                                          *)

SomeNest == \E d \in [Flows -> Nat] : SeqInv(d) /\ NestInv(d)

NestedFrames == IInv /\ ScopeInv /\ SomeNest

LEMMA InitNest == Init => NestedFrames
<1> SUFFICES ASSUME Init PROVE NestedFrames
  OBVIOUS
<1>1. PICK d \in [Flows -> Nat] : SeqInv(d)
  BY InitFrames DEF SomeDepths
<1>2. \A f \in Flows : ~Active(f)
  BY DEF Init, Active
<1>3. \A u \in Uow : ~Live(u)
  BY DEF Init, Live
<1>4. NestInv(d)
  BY <1>2, <1>3, FlowsAssumption DEF NestInv, TreeInv, CurrentInv, NestedInv, ApartInv, Leaf
<1>5. ScopeInv
  BY DEF Init, ScopeInv
<1>6. QED
  BY <1>1, <1>4, <1>5, InitInv DEF NestedFrames, SomeNest

\* What a step may do to the stacks while nothing fails.
Moves == Rests \/ \E r \in Roots : Begins(r) \/ EndsTop(r)

Calm == \A r \in Roots : Unharmed(r)

LEMMA FrameStepNest ==
  ASSUME IInv, IInv', ScopeInv, Concurrent = FALSE, NEW d \in [Flows -> Nat], SeqInv(d),
         NestInv(d), NEW f \in Flows, FrameStep(f)
  PROVE  NestInv(d)' /\ (Calm' => Moves)
<1>1. CASE Return(f)
  BY <1>1, ReturnNest DEF Moves
<1>2. CASE ReadCurrent(f) \/ BeginJoin(f) \/ CompleteJoined(f) \/ DisposeJoined(f)
  BY <1>2, QuietNest DEF Moves
<1>3. CASE CompleteStart(f)
  BY <1>3, CompleteStartNest DEF Moves
<1>4. request[f] \in Roots
  <2>1. Active(f)
    BY DEF FrameStep, Return, ReadCurrent, BeginJoin, BeginNew, CompleteJoined, CompleteStart,
           CompleteSucceeds, CompleteFails, PublishFails, CompleteEnd, DisposeJoined, DisposeUow,
           CanStep, Active
  <2>2. QED
    BY <2>1 DEF SeqInv, StackInv
<1>5. CASE \E opt \in Options : BeginNew(f, opt)
  BY <1>4, <1>5, BeginNewNest DEF Moves
<1>6. Calm' => Unharmed(request[f])'
  <2> SUFFICES ASSUME NEW r \in Roots, r = request[f], Unharmed(r)'
               PROVE  Unharmed(request[f])'
    BY <1>4 DEF Calm
  <2>1. request' = request
    BY DEF FrameStep, Return, ReadCurrent, BeginJoin, BeginNew, CompleteJoined, CompleteStart,
           CompleteSucceeds, CompleteFails, PublishFails, CompleteEnd, DisposeJoined, DisposeUow
  <2>2. QED
    BY <2>1 DEF Unharmed
<1>7. CASE CompleteSucceeds(f) \/ CompleteFails(f) \/ PublishFails(f)
  BY <1>4, <1>6, <1>7, CompleteNest DEF Moves
<1>8. CASE DisposeUow(f)
  BY <1>4, <1>6, <1>8, DisposeNest DEF Moves
<1>9. QED
  BY <1>1, <1>2, <1>3, <1>5, <1>7, <1>8 DEF FrameStep

LEMMA StepNest ==
  ASSUME Concurrent = FALSE, NestedFrames, IInv', [Next]_vars
  PROVE  SomeNest' /\ (Calm' => Moves)
<1>0. IInv /\ ScopeInv
  BY DEF NestedFrames
<1>1. PICK d \in [Flows -> Nat] : SeqInv(d) /\ NestInv(d)
  BY DEF NestedFrames, SomeNest
<1> SUFFICES \E e \in [Flows -> Nat] : SeqInv(e)' /\ NestInv(e)' /\ (Calm' => Moves)
  BY DEF SomeNest
<1>2. ASSUME NEW f \in Flows, StartRequest(f)
      PROVE  SeqInv(d)' /\ NestInv(d)' /\ Moves
  BY <1>0, <1>1, <1>2, StartRequestKeeps, StartRequestNest DEF Moves
<1>3. ASSUME NEW f \in Flows, NEW g \in Flows, Call(f, g)
      PROVE  \E e \in [Flows -> Nat] : SeqInv(e)' /\ NestInv(e)' /\ Moves
  <2>1. PICK e \in [Flows -> Nat] : e = [d EXCEPT ![g] = d[f] + 1] /\ SeqInv(e)'
    BY <1>0, <1>1, <1>3, CallKeeps
  <2>2. NestInv(e)' /\ Rests
    BY <1>0, <1>1, <1>3, <2>1, CallNest
  <2>3. QED
    BY <2>1, <2>2 DEF Moves
<1>4. ASSUME NEW f \in Flows, FrameStep(f)
      PROVE  SeqInv(d)' /\ NestInv(d)' /\ (Calm' => Moves)
  <2>1. SeqInv(d)'
    BY <1>0, <1>1, <1>4, FrameStepDepths
  <2>2. QED
    BY <1>0, <1>1, <1>4, <2>1, FrameStepNest
<1>5. CASE UNCHANGED vars
  <2>1. SeqInv(d)'
    BY <1>1, <1>5, SameFrames
  <2>2. NestInv(d)' /\ Rests
    <3>1. TreeInv(d)' /\ CurrentInv'
      BY <1>1, <1>5 DEF vars, NestInv, TreeInv, CurrentInv, Top, LiveUows, Leaf, Active,
                        HasRunningCallee, Unharmed, Current, Stale, Inside
    <3>2. NestedInv' /\ ApartInv(d)'
      BY <1>1, <1>5 DEF vars, NestInv, NestedInv, ApartInv, Top, LiveBelow, LiveUows, Live, IsUow,
                        Active, Unharmed
    <3>3. QED
      BY <1>5, <3>1, <3>2 DEF vars, NestInv, Rests, LiveUows
  <2>3. QED
    BY <2>1, <2>2 DEF Moves
<1>6. QED
  BY <1>1, <1>2, <1>3, <1>4, <1>5 DEF Next

LEMMA NextFrames ==
  ASSUME Concurrent = FALSE
  PROVE  NestedFrames /\ [Next]_vars => NestedFrames'
<1> SUFFICES ASSUME NestedFrames, [Next]_vars
             PROVE  NestedFrames'
  OBVIOUS
<1>1. IInv' /\ ScopeInv'
  BY NextInv, StepScopes DEF NestedFrames
<1>2. SomeNest'
  BY <1>1, StepNest
<1>3. QED
  BY <1>1, <1>2 DEF NestedFrames

LEMMA OuterStays ==
  ASSUME IInv, [Next]_vars
  PROVE  \A u \in Uow : u <= nuow => outer'[u] = outer[u]
<1>1. CASE outer' = outer
  BY <1>1
<1>2. ASSUME NEW f \in Flows, NEW opt \in Options, BeginNew(f, opt)
      PROVE  \A u \in Uow : u <= nuow => outer'[u] = outer[u]
  <2>1. nuow \in Nat /\ outer \in [Uow -> UowOrNull]
    BY DEF IInv, TypeOK, UowOrNull
  <2>2. outer' = outer \/ \E x : outer' = [outer EXCEPT ![nuow + 1] = x]
    BY <1>2 DEF BeginNew, PushInto
  <2>3. \A u \in Uow : u <= nuow => u # nuow + 1
    BY <2>1 DEF Uow
  <2>4. QED
    BY <2>1, <2>2, <2>3
<1>3. outer' = outer \/ \E f \in Flows, opt \in Options : BeginNew(f, opt)
  BY DEF Next, FrameStep, StartRequest, Call, Return, ReadCurrent, BeginJoin, CompleteJoined,
         CompleteStart, CompleteSucceeds, CompleteFails, PublishFails, CompleteEnd,
         DisposeJoined, DisposeUow, uowVars, vars
<1>4. QED
  BY <1>1, <1>2, <1>3

\* The stack of a request is the chain of its youngest live unit of work.
StackIsChain ==
  \A r \in Roots : Unharmed(r) =>
    \E t \in UowOrNull : Top(t, LiveUows(r)) /\ RequestStack(r) = ChainOf(outer)[t]

LEMMA FramesStack == NestedFrames => StackIsChain /\ NestedInv /\ Backwards(outer)
<1> SUFFICES ASSUME NestedFrames
             PROVE  StackIsChain /\ NestedInv /\ Backwards(outer)
  OBVIOUS
<1>1. PICK d \in [Flows -> Nat] : SeqInv(d) /\ NestInv(d)
  BY DEF NestedFrames, SomeNest
<1>2. IInv /\ ScopeInv /\ NestedInv /\ Backwards(outer)
  BY <1>1, OuterBackwards DEF NestedFrames, NestInv
<1>3. StackIsChain
  <2> SUFFICES ASSUME NEW r \in Roots, Unharmed(r)
               PROVE  \E t \in UowOrNull : /\ Top(t, LiveUows(r))
                                           /\ RequestStack(r) = ChainOf(outer)[t]
    BY DEF StackIsChain
  <2> DEFINE leaf == {f \in Flows : /\ request[f] = r /\ ~HasRunningCallee(f)
                                    /\ status[f] \in {"running", "completing"}}
  <2>1. \A f : f \in leaf <=> f \in Flows /\ request[f] = r /\ Leaf(f)
    BY DEF Leaf, Active
  <2>2. RequestStack(r) = IF leaf = {} THEN <<>> ELSE Chain[Current(CHOOSE f \in leaf : TRUE)]
    BY DEF RequestStack
  <2> HIDE DEF leaf
  <2>3. CASE leaf = {}
    <3>1. LiveUows(r) = {}
      <4> SUFFICES ASSUME NEW x \in LiveUows(r)
                   PROVE  FALSE
        OBVIOUS
      <4>1. x \in Uow /\ Live(x) /\ owner[x] = r
        BY DEF LiveUows, Live
      <4>2. \E h \in Flows : Active(h) /\ request[h] = r
        BY <1>2, <4>1, LiveScope
      <4>3. Active(r)
        BY <1>1, <4>2 DEF SeqInv, StackInv
      <4>4. \E f \in Flows : Leaf(f) /\ request[f] = r
        BY <1>1, <4>3 DEF NestInv, TreeInv
      <4>5. QED
        BY <2>1, <2>3, <4>4
    <3>2. Top(NoUow, LiveUows(r)) /\ NoUow \in UowOrNull
      BY <3>1 DEF Top, NoUow, UowOrNull
    <3>3. RequestStack(r) = ChainOf(outer)[NoUow]
      BY <1>2, <2>2, <2>3, ChainSteps
    <3>4. QED
      BY <3>2, <3>3
  <2>4. CASE leaf # {}
    <3>1. PICK f \in leaf : f = CHOOSE x \in leaf : TRUE
      BY <2>4
    <3>2. f \in Flows /\ request[f] = r /\ Leaf(f)
      BY <2>1
    <3>3. Top(Current(f), LiveUows(r)) /\ Current(f) \in UowOrNull
      BY <1>1, <1>2, <3>2, CurrentFacts DEF NestInv, CurrentInv
    <3>4. RequestStack(r) = ChainOf(outer)[Current(f)]
      BY <2>2, <2>4, <3>1, ChainIsChainOf
    <3>5. QED
      BY <3>3, <3>4
  <2>5. QED
    BY <2>3, <2>4
<1>4. QED
  BY <1>2, <1>3

\* What has failed stays failed.
LEMMA HarmStays ==
  ASSUME IInv, IInv', [Next]_vars
  PROVE  \A r : Unharmed(r)' => Unharmed(r)
<1> SUFFICES ASSUME NEW x \in Uow, phase[x] \in {"failed", "unpublished"}
             PROVE  phase'[x] = phase[x] /\ owner'[x] = owner[x]
  BY DEF Unharmed
<1>1. phase'[x] = phase[x]
  BY OutcomeStep
<1>2. owner'[x] = owner[x]
  <2>1. CASE owner' = owner
    BY <2>1
  <2>2. ASSUME NEW f \in Flows, NEW opt \in Options, BeginNew(f, opt)
        PROVE  owner'[x] = owner[x]
    <3>1. nuow \in Nat /\ x # nuow + 1
      BY DEF IInv, TypeOK, CreatedInv, Uow, UowOrNull
    <3>2. QED
      BY <2>2, <3>1 DEF BeginNew, IInv, TypeOK
  <2>3. owner' = owner \/ \E f \in Flows, opt \in Options : BeginNew(f, opt)
    BY DEF Next, FrameStep, StartRequest, Call, Return, ReadCurrent, BeginJoin, CompleteJoined,
           CompleteStart, CompleteSucceeds, CompleteFails, PublishFails, CompleteEnd,
           DisposeJoined, DisposeUow, uowVars, vars
  <2>4. QED
    BY <2>1, <2>2, <2>3
<1>3. QED
  BY <1>1, <1>2

\* Where the live units of work of a request stay, so does its stack.
LEMMA StackStays ==
  ASSUME IInv, Backwards(outer), (Backwards(outer))',
         \A u \in Uow : u <= nuow => outer'[u] = outer[u],
         NEW r, NEW t \in UowOrNull, Top(t, LiveUows(r))
  PROVE  t <= nuow /\ ChainOf(outer')[t] = ChainOf(outer)[t]
<1>1. nuow \in Nat
  BY DEF IInv, TypeOK, UowOrNull
<1>2. t <= nuow
  <2>1. CASE t = NoUow
    BY <1>1, <2>1 DEF NoUow
  <2>2. CASE t # NoUow
    BY <2>2, LiveFacts DEF Top
  <2>3. QED
    BY <2>1, <2>2
<1>3. PICK o : o = outer /\ Backwards(o)
  OBVIOUS
<1>4. PICK p : p = outer' /\ Backwards(p)
  OBVIOUS
<1>5. ChainOf(p)[t] = ChainOf(o)[t]
  BY <1>1, <1>2, <1>3, <1>4, ChainSame
<1>6. QED
  BY <1>2, <1>3, <1>4, <1>5

LEMMA StepStack ==
  ASSUME NestedFrames, NestedFrames', StackIsChain, StackIsChain', NestedInv, NestedInv',
         Backwards(outer), (Backwards(outer))', [Next]_vars, Calm, Calm', Moves
  PROVE  Ambient!Next \/ UNCHANGED Ambient!vars
<1> DEFINE L == [r \in Roots |-> LiveUows(r)]
           S == [r \in Roots |-> RequestStack(r)]
<1>0. IInv /\ IInv' /\ nuow \in Nat
  BY DEF NestedFrames, IInv, TypeOK, UowOrNull
<1>1. \A u \in Uow : u <= nuow => outer'[u] = outer[u]
  BY <1>0, OuterStays
<1>2. PICK o : o = outer /\ Backwards(o)
  OBVIOUS
<1>3. PICK p : p = outer' /\ Backwards(p)
  OBVIOUS
<1>4. \A r \in Roots : \E t \in UowOrNull :
        Top(t, LiveUows(r)) /\ RequestStack(r) = ChainOf(o)[t]
  BY <1>2 DEF StackIsChain, Calm
<1>5. \A r \in Roots : \E t \in UowOrNull :
        Top(t, LiveUows(r)') /\ RequestStack(r)' = ChainOf(p)[t]
  BY <1>3 DEF StackIsChain, Calm, Top
<1>6. \A r : LiveUows(r) \in SUBSET Uow /\ LiveUows(r)' \in SUBSET Uow
  BY DEF LiveUows
<1>7. \A r : \A t \in UowOrNull :
        Top(t, LiveUows(r)) => t <= nuow /\ ChainOf(p)[t] = ChainOf(o)[t]
  BY <1>0, <1>1, <1>2, <1>3, StackStays
<1>8. ASSUME NEW r \in Roots, LiveUows(r)' = LiveUows(r)
      PROVE  RequestStack(r)' = RequestStack(r)
  <2>1. PICK t \in UowOrNull : Top(t, LiveUows(r)) /\ RequestStack(r) = ChainOf(o)[t]
    BY <1>4
  <2>2. PICK x \in UowOrNull : Top(x, LiveUows(r)') /\ RequestStack(r)' = ChainOf(p)[x]
    BY <1>5
  <2>3. x = t
    BY <1>6, <1>8, <2>1, <2>2, TopIsOne
  <2>4. QED
    BY <1>7, <2>1, <2>2, <2>3
<1>9. CASE Rests
  <2>1. \A r \in Roots : LiveUows(r)' = LiveUows(r) /\ RequestStack(r)' = RequestStack(r)
    BY <1>8, <1>9 DEF Rests
  <2>2. QED
    BY <2>1 DEF Ambient!vars
<1>10. ASSUME NEW r \in Roots, Begins(r)
       PROVE  Ambient!Next
  <2>1. PICK u \in Uow : u = nuow + 1
    BY <1>10 DEF Begins
  <2>2. /\ LiveUows(r)' = LiveUows(r) \cup {u}
        /\ \A q : q # r => LiveUows(q)' = LiveUows(q)
    BY <1>10, <2>1 DEF Begins
  <2>3. \A q : \A v \in LiveUows(q) : v \in Uow /\ v < u
    <3>1. \A q : \A v \in LiveUows(q) : v \in Uow /\ Live(v)
      BY DEF LiveUows, Live
    <3>2. \A v \in Uow : Live(v) => v <= nuow
      BY <1>0, LiveFacts
    <3>3. \A v \in Uow : v <= nuow => v < u
      BY <1>0, <2>1 DEF Uow
    <3>4. QED
      BY <3>1, <3>2, <3>3
  <2>4. PICK t \in UowOrNull : Top(t, LiveUows(r)) /\ RequestStack(r) = ChainOf(o)[t]
    BY <1>4
  <2>5. RequestStack(r)' = ChainOf(p)[u]
    <3>1. PICK x \in UowOrNull : Top(x, LiveUows(r)') /\ RequestStack(r)' = ChainOf(p)[x]
      BY <1>5
    <3>2. Top(u, LiveUows(r)')
      BY <2>1, <2>2, <2>3 DEF Top, Uow, NoUow
    <3>3. QED
      BY <1>6, <3>1, <3>2, TopIsOne
  <2>6. p[u] = t
    <3>1. Live(u)' /\ owner'[u] = r
      BY <2>2 DEF LiveUows, Live
    <3>2. Unharmed(owner[u])'
      <4>1. Unharmed(r)'
        BY DEF Calm
      <4>2. QED
        BY <3>1, <4>1 DEF Unharmed
    <3>3. Top(outer'[u], LiveBelow(u)')
      BY <3>1, <3>2 DEF NestedInv, Top
    <3>4. LiveBelow(u)' = {v \in LiveUows(r)' : v < u}
      BY <3>1 DEF LiveBelow, LiveUows
    <3>5. {v \in LiveUows(r)' : v < u} = LiveUows(r)
      <4>1. ~(u < u)
        BY DEF Uow
      <4>2. QED
        BY <2>2, <2>3, <4>1
    <3>6. QED
      BY <1>3, <1>6, <2>4, <3>3, <3>4, <3>5, TopIsOne
  <2>7. RequestStack(r)' = Append(RequestStack(r), u)
    <3>1. ChainOf(p)[u] = Append(ChainOf(p)[p[u]], u)
      BY <1>3, ChainSteps
    <3>2. ChainOf(p)[t] = ChainOf(o)[t]
      BY <1>7, <2>4
    <3>3. QED
      BY <2>4, <2>5, <2>6, <3>1, <3>2
  <2>8. \A q \in Roots : u \notin LiveUows(q)
    <3>1. ~(u < u)
      BY DEF Uow
    <3>2. QED
      BY <2>3, <3>1
  <2>9. \A q \in Roots : q # r => /\ LiveUows(q)' = LiveUows(q)
                                  /\ RequestStack(q)' = RequestStack(q)
    BY <1>8, <2>2
  <2>10. Ambient!Enter(r, u)
    <3>1. [q \in Roots |-> LiveUows(q)]' = [L EXCEPT ![r] = L[r] \cup {u}]
      BY <2>2, <2>9
    <3>2. [q \in Roots |-> RequestStack(q)]' = [S EXCEPT ![r] = Append(S[r], u)]
      BY <2>7, <2>9
    <3>3. QED
      BY <2>8, <3>1, <3>2 DEF Ambient!Enter
  <2>11. QED
    BY <2>10 DEF Ambient!Next
<1>11. ASSUME NEW r \in Roots, EndsTop(r)
       PROVE  Ambient!Next
  <2>1. PICK u \in Uow : Top(u, LiveUows(r)) /\ LiveUows(r)' = LiveUows(r) \ {u}
    BY <1>11 DEF EndsTop
  <2>2. PICK t \in UowOrNull : Top(t, LiveUows(r)) /\ RequestStack(r) = ChainOf(o)[t]
    BY <1>4
  <2>3. t = u /\ RequestStack(r) = Append(ChainOf(o)[o[u]], u)
    BY <1>2, <1>6, <2>1, <2>2, TopIsOne, ChainSteps
  <2>4. o[u] \in UowOrNull /\ Top(o[u], LiveUows(r)')
    <3>1. u \in LiveUows(r)
      BY <2>1 DEF Top, Uow, NoUow
    <3>2. Live(u) /\ owner[u] = r /\ Unharmed(r)
      BY <3>1 DEF LiveUows, Live, Calm
    <3>3. Top(outer[u], {v \in LiveUows(r) : v < u})
      BY <3>2 DEF NestedInv, LiveBelow
    <3>4. {v \in LiveUows(r) : v < u} = LiveUows(r) \ {u}
      <4>1. u # NoUow
        BY DEF Uow, NoUow
      <4>2. \A v \in LiveUows(r) : v \in Uow /\ v <= u
        BY <1>6, <2>1, <4>1 DEF Top
      <4>3. \A v \in LiveUows(r) : v < u <=> v # u
        BY <4>2 DEF Uow
      <4>4. QED
        BY <4>3
    <3>5. QED
      BY <1>2, <2>1, <3>3, <3>4 DEF Backwards
  <2>5. RequestStack(r)' = ChainOf(o)[o[u]]
    <3>1. PICK x \in UowOrNull : Top(x, LiveUows(r)') /\ RequestStack(r)' = ChainOf(p)[x]
      BY <1>5
    <3>2. x = o[u]
      BY <1>6, <2>4, <3>1, TopIsOne
    <3>3. o[u] <= nuow
      <4>1. u <= nuow /\ o[u] < u
        BY <1>2, <1>7, <2>2, <2>3 DEF Backwards
      <4>2. QED
        BY <1>0, <2>4, <4>1 DEF Uow, UowOrNull
    <3>4. ChainOf(p)[o[u]] = ChainOf(o)[o[u]]
      BY <1>0, <1>1, <1>2, <1>3, <2>4, <3>3, ChainSame
    <3>5. QED
      BY <3>1, <3>2, <3>4
  <2>6. PICK s \in Seq(Uow) : s = ChainOf(o)[o[u]]
    BY <1>2, <2>4, ChainTyped
  <2>7. PICK w : w = Append(s, u) /\ w \in Seq(Uow)
    <3>1. Append(s, u) \in Seq(Uow)
      BY <2>6
    <3>2. QED
      BY <3>1
  <2>8. w # <<>> /\ w[Len(w)] = u /\ SubSeq(w, 1, Len(w) - 1) = s
    BY <2>6, <2>7
  <2>9. RequestStack(r) = w /\ RequestStack(r)' = s
    BY <2>3, <2>5, <2>6, <2>7
  <2>10. \A q \in Roots : q # r => /\ LiveUows(q)' = LiveUows(q)
                                   /\ RequestStack(q)' = RequestStack(q)
    BY <1>8, <1>11 DEF EndsTop
  <2>11. Ambient!Leave(r)
    <3>1. S[r] = w /\ L[r] = LiveUows(r)
      BY <2>9
    <3>2. [q \in Roots |-> LiveUows(q)]' = [L EXCEPT ![r] = L[r] \ {S[r][Len(S[r])]}]
      BY <2>1, <2>8, <2>10, <3>1
    <3>3. [q \in Roots |-> RequestStack(q)]' = [S EXCEPT ![r] = SubSeq(S[r], 1, Len(S[r]) - 1)]
      BY <2>8, <2>9, <2>10, <3>1
    <3>4. S[r] # <<>>
      BY <2>8, <3>1
    <3>5. QED
      BY <3>2, <3>3, <3>4 DEF Ambient!Leave
  <2>12. QED
    BY <2>11 DEF Ambient!Next
<1>12. QED
  BY <1>9, <1>10, <1>11 DEF Moves

\* While the frames of a request run one at a time and no CompleteAsync of a request has
\* thrown, what the AsyncLocal, its wrappers and the Outer references make up is a stack: a
\* unit of work that is begun is put on top, only the top one ends, and what it was begun in
\* is current again.
THEOREM ScopesAreAStack ==
  ASSUME Concurrent = FALSE
  PROVE  Spec => ImplementsAmbientScopes
<1>1. Init => Ambient!Init
  <2> SUFFICES ASSUME Init PROVE Ambient!Init
    OBVIOUS
  <2>1. \A r : LiveUows(r) = {}
    BY DEF Init, LiveUows
  <2>2. \A r : RequestStack(r) = <<>>
    BY DEF Init, RequestStack
  <2>3. QED
    BY <2>1, <2>2 DEF Ambient!Init
<1>2. NestedFrames /\ [Next]_vars => NestedFrames'
  BY NextFrames
<1>3. NestedFrames => StackIsChain /\ NestedInv /\ Backwards(outer)
  BY FramesStack
<1>4. /\ NestedFrames /\ NestedFrames' /\ [Next]_vars
      /\ StackIsChain /\ NestedInv /\ Backwards(outer)
      /\ (StackIsChain /\ NestedInv /\ Backwards(outer))'
      => [(\A r \in Roots : Unharmed(r)') => Ambient!Next]_(Ambient!vars)
  <2> SUFFICES ASSUME NestedFrames, NestedFrames', [Next]_vars,
                      StackIsChain, NestedInv, Backwards(outer),
                      StackIsChain', NestedInv', (Backwards(outer))',
                      \A r \in Roots : Unharmed(r)'
               PROVE  Ambient!Next \/ UNCHANGED Ambient!vars
    OBVIOUS
  <2>1. Calm'
    BY DEF Calm
  <2>2. Moves
    BY <2>1, StepNest DEF NestedFrames
  <2>3. Calm
    BY HarmStays DEF Calm, NestedFrames
  <2>4. QED
    BY <2>1, <2>2, <2>3, StepStack
<1>5. QED
  BY <1>1, <1>2, <1>3, <1>4, InitNest, PTL DEF Spec, ImplementsAmbientScopes

-----------------------------------------------------------------------------
(* Closing a scope when nothing fails.                                     *)

\* While what u was begun in is live, nothing begun between the two is.
OlderInv ==
  \A u \in Uow :
    u <= nuow /\ outer[u] # NoUow /\ Live(outer[u]) /\ Unharmed(owner[u]) =>
      \A v \in LiveBelow(u) : v <= outer[u]

LEMMA LiveStays ==
  ASSUME IInv, [Next]_vars, NEW x \in Uow, x <= nuow
  PROVE  (Live(x)' => Live(x)) /\ owner'[x] = owner[x]
<1>1. ASSUME NEW f \in Flows, \/ StartRequest(f) \/ \E g \in Flows : Call(f, g)
                              \/ Return(f) \/ ReadCurrent(f) \/ BeginJoin(f)
                              \/ CompleteJoined(f) \/ DisposeJoined(f)
      PROVE  (Live(x)' => Live(x)) /\ owner'[x] = owner[x]
  <2>1. phase' = phase /\ disposed' = disposed /\ owner' = owner
    BY <1>1 DEF StartRequest, Call, Return, ReadCurrent, BeginJoin, CompleteJoined, DisposeJoined,
                uowVars
  <2>2. QED
    BY <2>1 DEF Live
<1>2. ASSUME NEW f \in Flows, NEW opt \in Options, BeginNew(f, opt)
      PROVE  (Live(x)' => Live(x)) /\ owner'[x] = owner[x]
  <2>1. nuow \in Nat /\ x # nuow + 1
    BY DEF IInv, TypeOK, Uow, UowOrNull
  <2>2. phase'[x] = phase[x] /\ owner'[x] = owner[x] /\ disposed' = disposed
    BY <1>2, <2>1 DEF BeginNew, IInv, TypeOK
  <2>3. QED
    BY <2>2 DEF Live
<1>3. ASSUME NEW f \in Flows, CompleteStart(f)
      PROVE  (Live(x)' => Live(x)) /\ owner'[x] = owner[x]
  <2>1. PICK k \in Pending(f) : /\ phase[scopes[f][k].uow] = "active"
                                /\ phase' = [phase EXCEPT ![scopes[f][k].uow] = "completing"]
    BY <1>3 DEF CompleteStart
  <2>2. phase'[x] = phase[x] \/ phase[x] = "active"
    BY <2>1 DEF IInv, TypeOK
  <2>3. disposed' = disposed /\ owner' = owner
    BY <1>3 DEF CompleteStart
  <2>4. QED
    BY <2>2, <2>3 DEF Live
<1>4. ASSUME NEW f \in Flows, CompleteSucceeds(f) \/ CompleteFails(f) \/ PublishFails(f)
      PROVE  (Live(x)' => Live(x)) /\ owner'[x] = owner[x]
  <2>1. \E u \in Uow : \E r \in {"succeeded", "failed", "unpublished"} :
          phase[u] = "completing" /\ phase' = [phase EXCEPT ![u] = r]
    BY <1>4 DEF CompleteSucceeds, CompleteFails, PublishFails, CompleteEnd, Completing
  <2>2. phase'[x] = phase[x] \/ phase[x] = "completing"
    BY <2>1 DEF IInv, TypeOK
  <2>3. disposed' = disposed /\ owner' = owner
    BY <1>4 DEF CompleteSucceeds, CompleteFails, PublishFails, CompleteEnd
  <2>4. QED
    BY <2>2, <2>3 DEF Live
<1>5. ASSUME NEW f \in Flows, DisposeUow(f)
      PROVE  (Live(x)' => Live(x)) /\ owner'[x] = owner[x]
  <2>1. phase' = phase /\ owner' = owner /\ \E u : disposed' = [disposed EXCEPT ![u] = TRUE]
    BY <1>5 DEF DisposeUow
  <2>2. disposed[x] => disposed'[x]
    BY <2>1 DEF IInv, TypeOK
  <2>3. QED
    BY <2>1, <2>2 DEF Live
<1>6. CASE UNCHANGED vars
  BY <1>6 DEF vars, Live
<1>7. QED
  BY <1>1, <1>2, <1>3, <1>4, <1>5, <1>6 DEF Next, FrameStep

LEMMA OlderKept ==
  ASSUME IInv, IInv', ScopeInv, [Next]_vars, OlderInv, NestedInv'
  PROVE  OlderInv'
<1> SUFFICES ASSUME NEW u \in Uow, u <= nuow', outer'[u] # NoUow, Live(outer[u])',
                    Unharmed(owner[u])'
             PROVE  \A v \in LiveBelow(u)' : v <= outer'[u]
  BY DEF OlderInv
<1>0. PICK r : r = owner'[u]
  OBVIOUS
<1>1. PICK o \in UowOrNull : o = outer'[u] /\ r = owner'[u] /\ o < u
  BY <1>0 DEF IInv, TypeOK, CreatedInv
<1>2. Live(o)' /\ Unharmed(r)' /\ o \in Uow
  BY <1>1 DEF Live, Unharmed, NoUow, Uow, UowOrNull
<1>3. \A v : v \in LiveBelow(u)' <=> v \in Uow /\ Live(v)' /\ owner'[v] = r /\ v < u
  BY <1>1 DEF LiveBelow, LiveUows, Live
<1>4. nuow \in Nat
  BY DEF IInv, TypeOK, UowOrNull
<1>5. CASE u <= nuow
  <2>1. outer[u] = o /\ owner[u] = r /\ o <= nuow
    BY <1>1, <1>2, <1>4, <1>5, OuterStays, LiveStays DEF Uow
  <2>2. Live(o) /\ Unharmed(r)
    BY <1>2, <2>1, LiveStays, HarmStays
  <2>3. \A v \in LiveBelow(u) : v <= o
    BY <1>1, <1>5, <2>1, <2>2 DEF OlderInv
  <2>4. \A v \in Uow : v < u => v <= nuow
    BY <1>4, <1>5 DEF Uow
  <2>5. \A v \in LiveBelow(u)' : v \in LiveBelow(u)
    BY <1>3, <2>1, <2>4, LiveStays DEF LiveBelow, LiveUows, Live
  <2>6. QED
    BY <1>1, <2>3, <2>5
<1>6. CASE ~(u <= nuow)
  <2>1. nuow' # nuow
    BY <1>6
  <2>2. \E f \in Flows, opt \in Options : BeginNew(f, opt)
    BY <2>1 DEF Next, FrameStep, StartRequest, Call, Return, ReadCurrent, BeginJoin,
                CompleteJoined, CompleteStart, CompleteSucceeds, CompleteFails, PublishFails,
                CompleteEnd, DisposeJoined, DisposeUow, uowVars, vars
  <2>3. /\ nuow' = nuow + 1 /\ disposed' = disposed
        /\ phase' = [phase EXCEPT ![nuow + 1] = "active"]
    BY <2>2 DEF BeginNew
  <2>4. u = nuow + 1 /\ u > nuow
    BY <1>4, <1>6, <2>3 DEF Uow
  <2>5. Live(u)'
    BY <2>3, <2>4 DEF Live, ScopeInv, IInv, TypeOK
  <2>6. Top(outer'[u], LiveBelow(u)')
    BY <2>5 DEF NestedInv, Top
  <2>7. QED
    BY <2>6 DEF Top
<1>7. QED
  BY <1>5, <1>6

\* Only Dispose closes a scope on a unit of work of its own.
LEMMA OnlyDisposeCloses ==
  ASSUME IInv, Next, NEW f \in Flows, scopes[f] # <<>>, Innermost(f).kind = "uow",
         scopes'[f] = SubSeq(scopes[f], 1, Len(scopes[f]) - 1)
  PROVE  DisposeUow(f)
<1>1. PICK n \in Nat \ {0} : n = Len(scopes[f]) /\ Len(scopes'[f]) = n - 1
  <2>1. PICK s \in Seq(Scope) : s = scopes[f]
    BY DEF IInv, TypeOK
  <2>2. s # <<>> => Len(s) \in Nat \ {0} /\ Len(SubSeq(s, 1, Len(s) - 1)) = Len(s) - 1
    BY <2>1
  <2>3. QED
    BY <2>1, <2>2
<1>2. TypeOK
  BY DEF IInv
<1>3. scopes' # scopes
  BY <1>1
<1>4. \E g \in Flows : \/ BeginJoin(g) \/ \E opt \in Options : BeginNew(g, opt)
                       \/ CompleteJoined(g) \/ CompleteStart(g)
                       \/ DisposeJoined(g) \/ DisposeUow(g)
  BY <1>3 DEF Next, FrameStep, StartRequest, Call, Return, ReadCurrent,
              CompleteSucceeds, CompleteFails, PublishFails, CompleteEnd
<1>5. PICK g \in Flows : \/ BeginJoin(g) \/ \E opt \in Options : BeginNew(g, opt)
                         \/ CompleteJoined(g) \/ CompleteStart(g)
                         \/ DisposeJoined(g) \/ DisposeUow(g)
  BY <1>4
<1>6. g = f
  <2>1. \E s : scopes' = [scopes EXCEPT ![g] = s]
    BY <1>5 DEF BeginJoin, BeginNew, CompleteJoined, CompleteStart, DisposeJoined, DisposeUow,
                Open, MarkDone, Close
  <2>2. QED
    BY <1>1, <1>2, <2>1 DEF TypeOK
<1>7. ~(BeginJoin(f) \/ \E opt \in Options : BeginNew(f, opt))
  <2> SUFFICES ASSUME NEW s, Open(f, s)
               PROVE  FALSE
    BY DEF BeginJoin, BeginNew
  <2>1. scopes'[f] = Append(scopes[f], s)
    BY <1>2 DEF Open, TypeOK
  <2>2. Len(Append(scopes[f], s)) = n + 1
    <3>1. PICK q \in Seq(Scope) : q = scopes[f]
      BY <1>2 DEF TypeOK
    <3>2. Len(Append(q, s)) = Len(q) + 1
      OBVIOUS
    <3>3. QED
      BY <1>1, <3>1, <3>2
  <2>3. QED
    BY <1>1, <2>1, <2>2
<1>8. ~(CompleteJoined(f) \/ CompleteStart(f))
  <2> SUFFICES ASSUME NEW i \in Pending(f), MarkDone(f, i)
               PROVE  FALSE
    BY DEF CompleteJoined, CompleteStart
  <2>1. Len(scopes'[f]) = n
    BY <1>1, <1>2, MarkedScope
  <2>2. QED
    BY <1>1, <2>1
<1>9. ~DisposeJoined(f)
  BY DEF DisposeJoined
<1>10. QED
  BY <1>5, <1>6, <1>7, <1>8, <1>9

NothingFailed == \A u \in Uow : phase[u] \notin {"failed", "unpublished"}

\* Where no call throws and frames run one at a time, closing a scope makes the unit of work
\* it was begun in current again, as the doc says: what the run finds needs a failure.
THEOREM ClosingReturnsToOuter ==
  ASSUME Concurrent = FALSE, Faults = {}
  PROVE  Spec => CloseReturnsToOuter
<1> DEFINE I == NestedFrames /\ NothingFailed /\ OlderInv
           Closes == \A f \in Flows, u \in Uow :
             /\ scopes[f] # <<>> /\ Innermost(f) = [kind |-> "uow", uow |-> u, done |-> TRUE]
             /\ scopes'[f] = SubSeq(scopes[f], 1, Len(scopes[f]) - 1)
             /\ outer[u] # NoUow /\ outer[u] \in LiveUows(request[f])
             => Current(f)' = outer[u]
<1>1. Init => I
  BY InitNest DEF Init, NothingFailed, OlderInv
<1>2. I /\ [Next]_vars => I'
  <2> SUFFICES ASSUME I, [Next]_vars PROVE I'
    OBVIOUS
  <2>1. NestedFrames'
    BY NextFrames
  <2>2. NestedInv'
    BY <2>1 DEF NestedFrames, SomeNest, NestInv
  <2>3. OlderInv'
    BY <2>1, <2>2, OlderKept DEF NestedFrames
  <2>4. NothingFailed'
    <3>1. CASE phase' = phase
      BY <3>1 DEF NothingFailed
    <3>2. CASE \E u \in Nat, p \in {"active", "completing", "succeeded"} :
                 phase' = [phase EXCEPT ![u] = p]
      BY <3>2 DEF NothingFailed, NestedFrames, IInv, TypeOK, Uow
    <3>3. QED
      <4>1. ASSUME NEW f \in Flows, NEW opt \in Options, BeginNew(f, opt)
            PROVE  phase' = [phase EXCEPT ![nuow + 1] = "active"] /\ nuow + 1 \in Nat
        BY <4>1 DEF BeginNew, NestedFrames, IInv, TypeOK, UowOrNull
      <4>2. ASSUME NEW f \in Flows, CompleteStart(f)
            PROVE  \E u \in Nat : phase' = [phase EXCEPT ![u] = "completing"]
        <5>1. PICK k \in Pending(f) : phase' = [phase EXCEPT ![scopes[f][k].uow] = "completing"]
          BY <4>2 DEF CompleteStart
        <5>2. scopes[f][k].uow \in Nat
          BY ScopeTypes DEF Pending, NestedFrames, IInv, Uow
        <5>3. QED
          BY <5>1, <5>2
      <4>3. ASSUME NEW f \in Flows, CompleteSucceeds(f)
            PROVE  \E u \in Nat : phase' = [phase EXCEPT ![u] = "succeeded"]
        <5>1. PICK u \in Completing(f) : phase' = [phase EXCEPT ![u] = "succeeded"]
          BY <4>3 DEF CompleteSucceeds, CompleteEnd
        <5>2. u \in Nat
          BY DEF Completing, Uow
        <5>3. QED
          BY <5>1, <5>2
      <4>4. \A f \in Flows : ~CompleteFails(f) /\ ~PublishFails(f)
        BY DEF CompleteFails, PublishFails
      <4>5. \/ phase' = phase
            \/ \E f \in Flows : \/ \E opt \in Options : BeginNew(f, opt)
                                \/ CompleteStart(f) \/ CompleteSucceeds(f)
        BY <4>4 DEF Next, FrameStep, StartRequest, Call, Return, ReadCurrent, BeginJoin,
                    CompleteJoined, DisposeJoined, DisposeUow, uowVars, vars
      <4>6. QED
        BY <3>1, <3>2, <4>1, <4>2, <4>3, <4>5
  <2>5. QED
    BY <2>1, <2>3, <2>4
<1>3. I /\ [Next]_vars => [Closes]_vars
  <2> SUFFICES ASSUME I, Next, NEW f \in Flows, NEW u \in Uow,
                      scopes[f] # <<>>,
                      Innermost(f) = [kind |-> "uow", uow |-> u, done |-> TRUE],
                      scopes'[f] = SubSeq(scopes[f], 1, Len(scopes[f]) - 1),
                      outer[u] # NoUow, outer[u] \in LiveUows(request[f])
               PROVE  Current(f)' = outer[u]
    OBVIOUS
  <2>0. IInv /\ ScopeInv
    BY DEF NestedFrames
  <2>1. PICK d \in [Flows -> Nat] : SeqInv(d) /\ NestInv(d)
    BY DEF NestedFrames, SomeNest
  <2>2. DisposeUow(f)
    BY <2>0, OnlyDisposeCloses
  <2>3. Leaf(f) /\ status[f] = "running"
    BY <2>2 DEF DisposeUow, CanStep, Leaf, Active
  <2>4. PICK n \in 1 .. Len(scopes[f]) : /\ n = Len(scopes[f]) /\ IsUow(f, n)
                                         /\ scopes[f][n].uow = u /\ scopes[f][n].done
    <3>1. PICK s \in Seq(Scope) : s = scopes[f]
      BY <2>0 DEF IInv, TypeOK
    <3>2. Len(s) \in 1 .. Len(s)
      BY <3>1
    <3>3. QED
      BY <3>1, <3>2 DEF Innermost, IsUow
  <2>5. phase[u] = "succeeded"
    <3>1. PhaseWell(f, n)
      BY <2>1, <2>4 DEF SeqInv, PhaseInv
    <3>2. phase[u] \notin {"none", "active", "completing", "failed", "unpublished"}
      BY <2>3, <2>4, <3>1 DEF PhaseWell, NothingFailed
    <3>3. QED
      BY <2>0, <3>2 DEF IInv, TypeOK
  <2>6. /\ held' = held /\ local' = local
        /\ disposed' = [disposed EXCEPT ![u] = TRUE]
    BY <2>2, <2>5 DEF DisposeUow
  <2>7. PICK o \in Uow : o = outer[u] /\ Live(o) /\ owner[o] = request[f] /\ o < u /\ o # NoUow
    BY <2>0 DEF LiveUows, Live, IInv, CreatedInv
  <2>8. u <= nuow /\ owner[u] = request[f] /\ ~Live(u)
    BY <2>0, <2>4, <2>5 DEF IInv, CreatedInv, OwnedInv, Live
  <2>9. Unharmed(request[f])
    BY DEF NothingFailed, Unharmed
  <2>10. Top(o, LiveUows(request[f]))
    <3> SUFFICES ASSUME NEW v \in LiveUows(request[f])
                 PROVE  v <= o
      BY <2>7 DEF Top
    <3>1. v \in Uow /\ Live(v) /\ owner[v] = request[f]
      BY DEF LiveUows, Live
    <3>2. v <= u /\ v # u
      <4>1. \A j \in 1 .. Len(scopes[f]) : j > n /\ IsUow(f, j) => ~Live(scopes[f][j].uow)
        BY <2>4
      <4>2. QED
        BY <2>0, <2>1, <2>3, <2>4, <2>8, <3>1, <4>1, YoungestLive DEF SeqInv
    <3>3. v \in LiveBelow(u)
      BY <2>8, <3>1, <3>2 DEF LiveBelow, Uow
    <3>4. QED
      BY <2>7, <2>8, <2>9, <3>3 DEF OlderInv
  <2>11. Current(f) = o
    <3>1. Top(Current(f), LiveUows(request[f]))
      BY <2>1, <2>3, <2>9 DEF NestInv, CurrentInv
    <3>2. LiveUows(request[f]) \in SUBSET Uow
      BY DEF LiveUows
    <3>3. QED
      BY <2>10, <3>1, <3>2, TopIsOne
  <2>12. Inside(local[f]) = o
    BY <2>7, <2>11 DEF Current
  <2>13. Inside(local[f])' = o /\ ~disposed'[o]
    <3>1. o # u /\ ~disposed[o]
      BY <2>7 DEF Live, Uow
    <3>2. ~disposed'[o]
      BY <2>0, <2>6, <3>1 DEF IInv, TypeOK
    <3>3. QED
      BY <2>6, <2>12, <3>2 DEF Inside
  <2>14. QED
    BY <2>7, <2>13 DEF Current, Stale
<1> HIDE DEF I
<1>4. QED
  BY <1>1, <1>2, <1>3, PTL DEF Spec, CloseReturnsToOuter

=============================================================================

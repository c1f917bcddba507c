----------------------- MODULE EfCoreUnitOfWorkProofs -----------------------
(***************************************************************************)
(* Proofs about EfCoreUnitOfWork, for any branches, contexts, connections  *)
(* and faults: no change of a unit of work that completed is lost, nothing *)
(* is durable early, nothing stays open and each connection commits all or *)
(* nothing, provided that branches that work at once use different         *)
(* connections.                                                            *)
(***************************************************************************)
EXTENDS EfCoreUnitOfWork, TLAPS

\* No two branches ask for contexts of one connection, see ef_same_database.
OwnConnections ==
  \A a, b \in Branches : a # b =>
    \A k \in Uses[a], l \in Uses[b] : ConnOf[k] # ConnOf[l]

IsCached(c) == c # None /\ \E k \in Keys : cached[k] = c
IsOpen(t) == t # None /\ \E n \in Conns : active[n] = t
IsAttended(c) == \E t \in Ctx : IsOpen(t) /\ c \in attended[t]

\* Each branch that awaits a new context has one of its own.
MakingApart ==
  /\ \A b \in Branches : at[b] # "idle" =>
       /\ making[b] \in 1 .. nctx /\ key[making[b]] \in Uses[b]
       /\ at[b] = "sharing" => tx[making[b]] # None
  /\ \A a, b \in Branches :
       a # b /\ at[a] # "idle" /\ at[b] # "idle" => making[a] # making[b]

\* A branch that awaits a new context is the only one to ask for its key, and still
\* finds its connection as it was.
BusyInv ==
  \A b \in Branches : at[b] # "idle" =>
    /\ phase = "active" /\ ~disposed /\ transactional
    /\ cached[key[making[b]]] = None
    /\ at[b] = "beginning" => active[ConnOf[key[making[b]]]] = None
    /\ at[b] = "sharing" => IsOpen(tx[making[b]])

\* What a branch works with will be saved; a cached context is in an open transaction
\* exactly when there are any.
CachedInv ==
  /\ \A k \in Keys : cached[k] # None =>
       /\ cached[k] <= nctx /\ key[cached[k]] = k
       /\ IF transactional THEN IsOpen(tx[cached[k]]) ELSE tx[cached[k]] = None
  /\ ~disposed => \A b \in Branches : holds[b] # None => IsCached(holds[b])
  /\ ~transactional => /\ \A n \in Conns : active[n] = None
                       /\ \A c \in Ctx : tx[c] = None
  /\ ~transactional /\ ~disposed => \A c \in 1 .. nctx : IsCached(c)

\* A transaction and its contexts can be reached from its connection.
ReachInv ==
  ~disposed =>
    /\ \A t \in Ctx : txState[t] = "open" => IsOpen(t)
    /\ transactional => \A c \in Ctx : tx[c] # None =>
         \/ IsOpen(c) \/ IsAttended(c)
         \/ \E b \in Branches : at[b] = "sharing" /\ making[b] = c

\* What is not saved yet is on its way.
TrackedInv ==
  /\ phase \in {"saving", "committing"} => ~disposed
  /\ phase = "saving" => \A c \in todo : IsCached(c)
  /\ \A c \in Ctx : tracked[c] # {} =>
       /\ phase = "active" /\ ~disposed => IsCached(c)
       /\ phase = "saving" => c \in todo
       /\ phase # "committing"

InTx(i) == \E t \in Ctx : IsOpen(t) /\ i \in flushed[t]

\* Where each change is.
ChangesInv ==
  \A i \in Change : i <= nchanges /\ i \notin durable =>
    /\ phase = "active" /\ ~disposed => InTx(i) \/ \E c \in Ctx : i \in tracked[c]
    /\ phase = "saving" => InTx(i) \/ \E c \in Ctx : i \in tracked[c]
    /\ phase = "committing" => \E t \in todo : i \in flushed[t]
    /\ phase # "succeeded"

IInv ==
  TypeOK /\ MakingApart /\ BusyInv /\ CachedInv /\ ReachInv /\ TrackedInv /\ ChangesInv /\ NothingLeftOpen

-----------------------------------------------------------------------------
(* Types.                                                                  *)

LEMMA Numbers ==
  /\ MaxCtx \in Nat /\ MaxChanges \in Nat
  /\ None \in CtxOrNone /\ None \notin Ctx
  /\ \A c \in CtxOrNone : c # None => c \in Ctx
  /\ \A c \in Ctx : c \in CtxOrNone /\ c # None
  /\ \A n \in CtxOrNone : n \in Nat /\ n <= MaxCtx
                          /\ (n < MaxCtx => n + 1 \in Ctx)
  BY MaxCtxAssumption, MaxChangesAssumption DEF None, CtxOrNone, Ctx

LEMMA KeyTyped ==
  ASSUME NEW b \in Branches, NEW k \in Uses[b]
  PROVE  k \in Keys /\ ConnOf[k] \in Conns
  BY UsesAssumption, ConnOfAssumption

LEMMA FlushTyped ==
  ASSUME TypeOK, NEW c \in Ctx, Flush(c)
  PROVE  /\ tracked' \in [Ctx -> SUBSET Change] /\ flushed' \in [Ctx -> SUBSET Change]
         /\ durable' \subseteq Change
<1>1. tx[c] # None => tx[c] \in Ctx
  BY Numbers DEF TypeOK
<1>2. QED
  BY <1>1 DEF Flush, TypeOK

LEMMA CommitTyped ==
  ASSUME TypeOK, NEW t \in Ctx, Commit(t)
  PROVE  txState' \in [Ctx -> {"none", "open", "committed", "rolledback"}] /\ durable' \subseteq Change
  BY DEF Commit, TypeOK

LEMMA InitTypeOK == Init => TypeOK
<1>1. /\ 0 \in 0 .. MaxChanges /\ 0 \in CtxOrNone
      /\ "idle" \in BranchState /\ "active" \in Phase
  BY Numbers DEF None, BranchState, Phase
<1>2. SUFFICES ASSUME Init
               PROVE  TypeOK
  OBVIOUS
<1>3. /\ transactional \in BOOLEAN /\ phase \in Phase /\ disposed \in BOOLEAN /\ todo \subseteq Ctx
      /\ nctx \in CtxOrNone /\ closed \subseteq Ctx /\ nchanges \in 0 .. MaxChanges
      /\ durable \subseteq Change
  BY <1>1, <1>2, ModesAssumption DEF Init
<1>4. /\ at \in [Branches -> BranchState]
      /\ making \in [Branches -> CtxOrNone] /\ holds \in [Branches -> CtxOrNone]
      /\ key \in [Ctx -> Keys \cup {NoKey}] /\ tx \in [Ctx -> CtxOrNone]
      /\ txState \in [Ctx -> {"none", "open", "committed", "rolledback"}]
      /\ cached \in [Keys -> CtxOrNone] /\ active \in [Conns -> CtxOrNone]
  BY <1>1, <1>2, Numbers DEF Init
<1>5. /\ attended \in [Ctx -> SUBSET Ctx]
      /\ tracked \in [Ctx -> SUBSET Change] /\ flushed \in [Ctx -> SUBSET Change]
  BY <1>2 DEF Init
<1>6. QED
  BY <1>3, <1>4, <1>5 DEF TypeOK

LEMMA BranchTypeOK ==
  ASSUME TypeOK, MakingApart, NEW b \in Branches, BranchStep(b)
  PROVE  TypeOK'
<1>1. CASE at[b] # "idle"
  <2> DEFINE c == making[b]
  <2>1. /\ c \in Ctx /\ key[c] \in Keys /\ ConnOf[key[c]] \in Conns
        /\ at[b] = "sharing" => tx[c] \in Ctx
        /\ "idle" \in BranchState
    <3>1. c \in Ctx
      BY <1>1 DEF MakingApart, TypeOK, Ctx, CtxOrNone
    <3>2. at[b] = "sharing" => tx[c] \in Ctx
      BY <1>1, <3>1, Numbers DEF MakingApart, TypeOK
    <3>3. QED
      BY <1>1, <3>1, <3>2, KeyTyped DEF MakingApart, BranchState
  <2>2. CASE CreateBegun(b)
    BY <2>1, <2>2, Numbers
    DEF CreateBegun, HandOut, TryAdd, TypeOK, uowVars, dataVars
  <2>3. CASE CreateShared(b)
    BY <1>1, <2>1, <2>3, Numbers
    DEF CreateShared, HandOut, TryAdd, TypeOK, uowVars, ctxVars, dataVars, BranchState
  <2>4. CASE CreateFails(b)
    BY <2>1, <2>4, Numbers DEF CreateFails, TypeOK, uowVars, regVars, dataVars
  <2>5. QED
    BY <1>1, <2>2, <2>3, <2>4 DEF BranchStep, CanStep, GetCached, GetNew, CreateStart, MakeChange, SaveNow
<1>2. CASE at[b] = "idle"
  <2>1. ASSUME NEW k \in Keys, GetCached(b, k)
        PROVE  TypeOK'
    BY <2>1 DEF GetCached, TypeOK, uowVars, ctxVars, regVars, dataVars
  <2>2. ASSUME NEW k \in Keys, GetNew(b, k)
        PROVE  TypeOK'
    <3>1. nctx + 1 \in Ctx /\ nctx + 1 \in CtxOrNone
      BY <2>2, Numbers DEF GetNew, Resolve, TypeOK
    <3>2. QED
      BY <2>2, <3>1 DEF GetNew, Resolve, TryAdd, TypeOK, uowVars, dataVars
  <2>3. ASSUME NEW k \in Keys, CreateStart(b, k)
        PROVE  TypeOK'
    <3>1. nctx + 1 \in Ctx /\ nctx + 1 \in CtxOrNone /\ active[ConnOf[k]] \in CtxOrNone
      BY <2>3, Numbers, ConnOfAssumption DEF CreateStart, Resolve, TypeOK
    <3>2. QED
      BY <2>3, <3>1 DEF CreateStart, Resolve, TypeOK, uowVars, regVars, dataVars, BranchState
  <2>4. CASE MakeChange(b)
    <3>1. nchanges + 1 \in Change /\ nchanges + 1 \in 0 .. MaxChanges
      BY <2>4, MaxChangesAssumption DEF MakeChange, TypeOK, Change
    <3>2. QED
      BY <2>4, <3>1 DEF MakeChange, TypeOK, uowVars, branchVars, ctxVars, regVars
  <2>5. CASE SaveNow(b)
    <3>1. holds[b] \in Ctx
      BY <2>5, Numbers DEF SaveNow, TypeOK
    <3>2. QED
      BY <2>5, <3>1, FlushTyped DEF SaveNow, TypeOK, uowVars, branchVars, ctxVars, regVars
  <2>6. QED
    BY <1>2, <2>1, <2>2, <2>3, <2>4, <2>5 DEF BranchStep, CreateBegun, CreateShared, CreateFails
<1>3. QED
  BY <1>1, <1>2

LEMMA OthersTypeOK ==
  ASSUME TypeOK, CompleteStart \/ CompleteStep \/ DisposeUow \/ UNCHANGED vars
  PROVE  TypeOK'
<1>0. /\ Active \subseteq Ctx /\ OpenTxs \subseteq Ctx /\ Attended \subseteq Ctx
      /\ {"saving", "committing", "succeeded", "failed"} \subseteq Phase
  BY Numbers DEF Active, OpenTxs, Attended, TypeOK, Phase
<1>1. CASE CompleteStart
  BY <1>0, <1>1 DEF CompleteStart, TypeOK, branchVars, ctxVars, regVars, dataVars
<1>2. CASE SaveNext
  <2>1. PICK c \in todo : Flush(c) /\ todo' = todo \ {c}
    BY <1>2 DEF SaveNext
  <2>2. QED
    BY <1>2, <2>1, FlushTyped DEF SaveNext, TypeOK, branchVars, ctxVars, regVars
<1>3. CASE CommitStart \/ CompleteSucceeds \/ CompleteFails
  BY <1>0, <1>3 DEF CommitStart, CompleteSucceeds, CompleteFails, TypeOK, branchVars, ctxVars,
     regVars, dataVars
<1>4. CASE CommitNext \/ CommitAnswerLost
  <2>1. PICK t \in todo : Commit(t)
    BY <1>4 DEF CommitNext, CommitAnswerLost
  <2>2. todo' \subseteq todo /\ phase' \in Phase
    BY <1>0, <1>4 DEF CommitNext, CommitAnswerLost, TypeOK
  <2>3. QED
    BY <1>4, <2>1, <2>2, CommitTyped DEF CommitNext, CommitAnswerLost, TypeOK, branchVars, ctxVars, regVars
<1>5. CASE DisposeUow
  <2>1. /\ txState' \in [Ctx -> {"none", "open", "committed", "rolledback"}]
        /\ closed' \subseteq Ctx /\ active' \in [Conns -> CtxOrNone]
        /\ attended' \in [Ctx -> SUBSET Ctx] /\ cached' \in [Keys -> CtxOrNone]
    BY <1>0, <1>5, Numbers DEF DisposeUow, TypeOK
  <2>2. QED
    BY <1>5, <2>1 DEF DisposeUow, TypeOK, branchVars, dataVars
<1>6. CASE UNCHANGED vars
  BY <1>6 DEF vars, TypeOK
<1>7. QED
  BY <1>1, <1>2, <1>3, <1>4, <1>5, <1>6 DEF CompleteStep

LEMMA BranchMakingApart ==
  ASSUME TypeOK, MakingApart, NEW b \in Branches, BranchStep(b)
  PROVE  MakingApart'
<1>1. ASSUME NEW k \in Keys, GetNew(b, k) \/ CreateStart(b, k)
      PROVE  MakingApart'
  <2>1. /\ nctx \in Nat /\ nctx' = nctx + 1 /\ nctx + 1 \in Ctx
        /\ key' = [key EXCEPT ![nctx + 1] = k] /\ k \in Uses[b] /\ at[b] = "idle"
    BY <1>1, Numbers DEF GetNew, CreateStart, Resolve, CanStep, TypeOK
  <2>2. ASSUME NEW a \in Branches, at[a] # "idle"
        PROVE  /\ making[a] \in 1 .. nctx' /\ making[a] # nctx + 1 /\ making[a] \in Ctx
               /\ key'[making[a]] = key[making[a]]
    BY <2>1, <2>2, Numbers DEF MakingApart, TypeOK, Ctx
  <2>3. CASE GetNew(b, k)
    BY <2>1, <2>2, <2>3 DEF GetNew, MakingApart
  <2>4. CASE CreateStart(b, k)
    <3>1. /\ nctx + 1 \in 1 .. nctx' /\ key'[nctx + 1] = k
          /\ tx' = [tx EXCEPT ![nctx + 1] = active[ConnOf[k]]] /\ tx \in [Ctx -> CtxOrNone]
          /\ making' = [making EXCEPT ![b] = nctx + 1] /\ making \in [Branches -> CtxOrNone]
          /\ at' = [at EXCEPT ![b] = IF active[ConnOf[k]] = None THEN "beginning" ELSE "sharing"]
          /\ at \in [Branches -> BranchState]
      BY <2>1, <2>4 DEF CreateStart, TypeOK
    <3>2. ASSUME NEW a \in Branches, at'[a] # "idle"
          PROVE  /\ making'[a] \in 1 .. nctx' /\ key'[making'[a]] \in Uses[a]
                 /\ at'[a] = "sharing" => tx'[making'[a]] # None
      BY <2>1, <2>2, <3>1, <3>2 DEF MakingApart
    <3>3. ASSUME NEW a \in Branches, NEW d \in Branches, a # d, at'[a] # "idle", at'[d] # "idle"
          PROVE  making'[a] # making'[d]
      BY <2>1, <2>2, <3>1, <3>3 DEF MakingApart
    <3>4. QED
      BY <3>2, <3>3 DEF MakingApart
  <2>5. QED
    BY <1>1, <2>3, <2>4
<1>2. CASE CreateBegun(b) \/ CreateShared(b) \/ CreateFails(b)
  <2>1. /\ at[b] # "idle" /\ at' = [at EXCEPT ![b] = "idle"]
        /\ making' = [making EXCEPT ![b] = None] /\ UNCHANGED <<nctx, key>>
        /\ \A c \in Ctx : c # making[b] => tx'[c] = tx[c]
    BY <1>2 DEF CreateBegun, CreateShared, CreateFails, HandOut, TypeOK, ctxVars
  <2>2. ASSUME NEW a \in Branches, at'[a] # "idle"
        PROVE  /\ a # b /\ at'[a] = at[a] /\ at[a] # "idle" /\ making'[a] = making[a]
               /\ tx'[making[a]] = tx[making[a]]
    <3>1. a # b /\ at'[a] = at[a] /\ making'[a] = making[a]
      BY <2>1, <2>2 DEF TypeOK
    <3>2. making[a] # making[b] /\ making[a] \in Ctx
      BY <2>1, <2>2, <3>1 DEF MakingApart, TypeOK, Ctx, CtxOrNone
    <3>3. QED
      BY <2>1, <2>2, <3>1, <3>2
  <2>3. QED
    BY <2>1, <2>2 DEF MakingApart
<1>3. ASSUME NEW k \in Keys, GetCached(b, k)
      PROVE  MakingApart'
  BY <1>3 DEF GetCached, MakingApart, ctxVars
<1>4. CASE MakeChange(b) \/ SaveNow(b)
  BY <1>4 DEF MakeChange, SaveNow, MakingApart, branchVars, ctxVars
<1>5. QED
  BY <1>1, <1>2, <1>3, <1>4 DEF BranchStep

\* The steps of the frame that opened the unit of work leave its branches alone.
LEMMA OthersMakingApart ==
  ASSUME MakingApart, CompleteStart \/ CompleteStep \/ DisposeUow \/ UNCHANGED vars
  PROVE  MakingApart'
<1>1. UNCHANGED <<at, making, nctx, key, tx>>
  BY DEF CompleteStart, CompleteStep, SaveNext, CommitStart, CommitNext, CompleteSucceeds,
     CompleteFails, CommitAnswerLost, DisposeUow, vars, branchVars, ctxVars
<1>2. QED
  BY <1>1 DEF MakingApart

\* Every variable keeps its type, whatever the branches share.
THEOREM EfTypeCorrect == Spec => []TypeOK
<1>1. Init => TypeOK /\ MakingApart
  <2>1. Init => MakingApart
    BY DEF Init, MakingApart
  <2>2. QED
    BY <2>1, InitTypeOK
<1>2. TypeOK /\ MakingApart /\ [Next]_vars => TypeOK' /\ MakingApart'
  BY BranchTypeOK, OthersTypeOK, BranchMakingApart, OthersMakingApart DEF Next
<1>3. QED
  BY <1>1, <1>2, PTL DEF Spec

-----------------------------------------------------------------------------
(* The invariant, action by action.                                        *)

LEMMA InitIInv == Init => IInv
<1> SUFFICES ASSUME Init
             PROVE  IInv
  OBVIOUS
<1>1. TypeOK /\ MakingApart
  BY InitTypeOK DEF Init, MakingApart
<1>2. BusyInv /\ NothingLeftOpen
  BY DEF Init, BusyInv, NothingLeftOpen
<1>3. CachedInv
  BY DEF Init, CachedInv, None
<1>4. ReachInv /\ TrackedInv
  BY DEF Init, ReachInv, TrackedInv
<1>5. ChangesInv
  BY DEF Init, ChangesInv, Change
<1>6. QED
  BY <1>1, <1>2, <1>3, <1>4, <1>5 DEF IInv

\* What IInv' asks for beyond the types.
Linked == BusyInv /\ CachedInv /\ ReachInv /\ TrackedInv /\ ChangesInv /\ NothingLeftOpen

LEMMA GetCachedLinked ==
  ASSUME IInv, NEW b \in Branches, NEW k \in Keys, GetCached(b, k)
  PROVE  Linked'
<1>1. /\ UNCHANGED <<uowVars, at, making, ctxVars, txState, regVars, dataVars>>
      /\ holds' = [holds EXCEPT ![b] = cached[k]] /\ cached[k] # None /\ ~disposed
  BY DEF GetCached, CanStep
<1>2. BusyInv' /\ ReachInv' /\ TrackedInv' /\ ChangesInv' /\ NothingLeftOpen'
  BY <1>1 DEF IInv, uowVars, ctxVars, regVars, dataVars, BusyInv, ReachInv, TrackedInv, ChangesInv,
     NothingLeftOpen, HandedOut, IsCached, IsOpen, IsAttended, InTx
<1>3. CachedInv'
  <2>1. ASSUME NEW a \in Branches, holds'[a] # None
        PROVE  IsCached(holds[a])'
    BY <1>1, <2>1 DEF IInv, CachedInv, TypeOK, IsCached, uowVars, regVars
  <2>2. QED
    BY <1>1, <2>1 DEF IInv, CachedInv, IsOpen, IsCached, uowVars, ctxVars, regVars
<1>4. QED
  BY <1>2, <1>3 DEF Linked

LEMMA GetNewLinked ==
  ASSUME IInv, NEW b \in Branches, NEW k \in Keys, GetNew(b, k)
  PROVE  Linked'
<1> DEFINE c == nctx + 1
<1>1. /\ UNCHANGED <<uowVars, at, making, tx, closed, txState, active, attended, dataVars>>
      /\ ~disposed /\ ~transactional /\ phase = "active" /\ cached[k] = None
      /\ nctx \in Nat /\ nctx' = c /\ c \in Ctx /\ c # None
      /\ key' = [key EXCEPT ![c] = k] /\ cached' = [cached EXCEPT ![k] = c]
      /\ holds' = [holds EXCEPT ![b] = c]
  BY Numbers DEF GetNew, CanStep, Resolve, TryAdd, IInv, TypeOK
<1>2. /\ \A d \in Ctx : IsCached(d) => IsCached(d)'
      /\ IsCached(nctx)'
  BY <1>1 DEF IsCached, IInv, TypeOK
<1>3. BusyInv' /\ ReachInv' /\ NothingLeftOpen'
  BY <1>1 DEF IInv, BusyInv, ReachInv, NothingLeftOpen, IsOpen, IsAttended, uowVars
<1>4. TrackedInv' /\ ChangesInv'
  BY <1>1, <1>2 DEF IInv, TrackedInv, ChangesInv, InTx, IsOpen, uowVars, dataVars
<1>5. CachedInv'
  <2>1. ASSUME NEW l \in Keys, cached'[l] # None
        PROVE  cached'[l] <= nctx' /\ key'[cached'[l]] = l /\ tx'[cached'[l]] = None
    <3>1. CASE l = k
      BY <1>1, <3>1 DEF IInv, TypeOK, CachedInv
    <3>2. CASE l # k
      <4>1. cached'[l] = cached[l] /\ cached[l] \in Ctx /\ cached[l] \in Nat
        BY <1>1, <2>1, <3>2, Numbers DEF IInv, TypeOK
      <4>2. QED
        BY <1>1, <2>1, <3>2, <4>1 DEF IInv, TypeOK, CachedInv
    <3>3. QED
      BY <3>1, <3>2
  <2>2. ASSUME NEW a \in Branches, holds'[a] # None
        PROVE  IsCached(holds[a])'
    BY <1>1, <1>2, <2>2, Numbers DEF IInv, TypeOK, CachedInv, IsCached
  <2>3. ASSUME NEW d \in 1 .. nctx'
        PROVE  IsCached(d)'
    <3>1. d = c \/ (d \in 1 .. nctx /\ d \in Ctx)
      BY <1>1, Numbers DEF IInv, TypeOK, Ctx
    <3>2. QED
      BY <1>1, <1>2, <3>1 DEF IInv, CachedInv, IsCached
  <2>4. QED
    BY <1>1, <2>1, <2>2, <2>3 DEF IInv, CachedInv, uowVars
<1>6. QED
  BY <1>3, <1>4, <1>5 DEF Linked

LEMMA CreateStartLinked ==
  ASSUME IInv, NEW b \in Branches, NEW k \in Keys, CreateStart(b, k)
  PROVE  Linked'
<1> DEFINE c == nctx + 1
           shared == active[ConnOf[k]]
<1>1. /\ UNCHANGED <<uowVars, holds, closed, txState, regVars, dataVars>>
      /\ ~disposed /\ transactional /\ phase = "active" /\ cached[k] = None /\ at[b] = "idle"
      /\ nctx \in Nat /\ nctx' = c /\ c \in Ctx /\ k \in Uses[b]
      /\ key' = [key EXCEPT ![c] = k] /\ tx' = [tx EXCEPT ![c] = shared]
      /\ making' = [making EXCEPT ![b] = c]
      /\ at' = [at EXCEPT ![b] = IF shared = None THEN "beginning" ELSE "sharing"]
      /\ ConnOf[k] \in Conns
  BY Numbers, ConnOfAssumption DEF CreateStart, CanStep, Resolve, IInv, TypeOK
<1>2. BusyInv'
  <2>1. ASSUME NEW a \in Branches, a # b, at[a] # "idle"
        PROVE  making[a] \in Ctx /\ making[a] # c /\ making'[a] = making[a] /\ at'[a] = at[a]
    BY <1>1, <2>1, Numbers DEF IInv, MakingApart, TypeOK, Ctx
  <2>2. at'[b] # "idle" /\ making'[b] = c /\ key'[c] = k /\ tx'[c] = shared
        /\ (at'[b] = "beginning" => shared = None) /\ (at'[b] = "sharing" => shared # None)
    BY <1>1 DEF IInv, TypeOK
  <2>3. ASSUME NEW a \in Branches, at'[a] # "idle"
        PROVE  /\ cached'[key'[making'[a]]] = None
               /\ at'[a] = "beginning" => active'[ConnOf[key'[making'[a]]]] = None
               /\ at'[a] = "sharing" => IsOpen(tx[making[a]])'
    <3>1. CASE a = b
      BY <1>1, <2>2, <3>1 DEF regVars, IsOpen
    <3>2. CASE a # b
      <4>1. at'[a] = at[a]
        BY <1>1, <3>2 DEF IInv, TypeOK
      <4>2. key'[making'[a]] = key[making[a]] /\ tx'[making'[a]] = tx[making[a]] /\ making'[a] = making[a]
        BY <1>1, <2>1, <2>3, <3>2, <4>1 DEF IInv, TypeOK
      <4>3. QED
        BY <1>1, <2>3, <4>1, <4>2 DEF IInv, BusyInv, regVars, IsOpen
    <3>3. QED
      BY <3>1, <3>2
  <2>4. QED
    BY <1>1, <2>3 DEF BusyInv, uowVars
<1>3. CachedInv'
  <2>1. ASSUME NEW l \in Keys, cached[l] # None
        PROVE  /\ cached[l] <= nctx' /\ key'[cached[l]] = l /\ cached[l] # c
               /\ tx'[cached[l]] = tx[cached[l]]
    <3>1. cached[l] \in Ctx /\ cached[l] \in Nat /\ cached[l] <= nctx
      BY <2>1, Numbers DEF IInv, TypeOK, CachedInv
    <3>2. QED
      BY <1>1, <2>1, <3>1 DEF IInv, TypeOK, CachedInv
  <2>2. QED
    BY <1>1, <2>1 DEF IInv, CachedInv, IsCached, IsOpen, uowVars, regVars
<1>4. ReachInv'
  <2>1. ASSUME NEW d \in Ctx, tx'[d] # None
        PROVE  \/ IsOpen(d)' \/ IsAttended(d)'
               \/ \E a \in Branches : at'[a] = "sharing" /\ making'[a] = d
    <3>1. CASE d = c
      BY <1>1, <2>1, <3>1 DEF IInv, TypeOK
    <3>2. CASE d # c
      BY <1>1, <2>1, <3>2 DEF IInv, TypeOK, ReachInv, IsOpen, IsAttended, uowVars, regVars
    <3>3. QED
      BY <3>1, <3>2
  <2>2. QED
    BY <1>1, <2>1 DEF IInv, ReachInv, IsOpen, uowVars, regVars
<1>5. TrackedInv' /\ ChangesInv' /\ NothingLeftOpen'
  BY <1>1 DEF IInv, TrackedInv, ChangesInv, NothingLeftOpen, InTx, IsOpen, IsCached, uowVars,
     regVars, dataVars
<1>6. QED
  BY <1>2, <1>3, <1>4, <1>5 DEF Linked

\* The context is ready: what the other branches wait for is another connection's.
LEMMA HandOutFacts ==
  ASSUME IInv, OwnConnections, NEW b \in Branches, at[b] # "idle", HandOut(b),
         UNCHANGED <<nctx, key>>
  PROVE  /\ making[b] \in Ctx /\ key[making[b]] \in Keys /\ ConnOf[key[making[b]]] \in Conns
         /\ making[b] <= nctx /\ cached[key[making[b]]] = None
         /\ cached' = [cached EXCEPT ![key[making[b]]] = making[b]]
         /\ ~disposed /\ transactional /\ phase = "active"
         /\ \A l \in Keys : cached[l] # making[b]
         /\ \A a \in Branches : at'[a] # "idle" =>
              /\ a # b /\ at'[a] = at[a] /\ making'[a] = making[a] /\ making[a] \in Ctx
              /\ making[a] # making[b] /\ key[making[a]] \in Uses[a]
              /\ key[making[a]] # key[making[b]] /\ key[making[a]] \in Keys
              /\ ConnOf[key[making[a]]] # ConnOf[key[making[b]]]
         /\ \A a \in Branches : a # b => at'[a] = at[a] /\ making'[a] = making[a]
         /\ \A d \in Ctx : IsCached(d) => IsCached(d)'
         /\ \A d \in Ctx : d = making[b] => IsCached(d)'
<1> DEFINE c == making[b]
<1>1. /\ c \in Ctx /\ key[c] \in Keys /\ ConnOf[key[c]] \in Conns /\ c <= nctx /\ c # None
      /\ cached[key[c]] = None /\ key[c] \in Uses[b]
      /\ ~disposed /\ transactional /\ phase = "active"
  BY KeyTyped, Numbers DEF IInv, MakingApart, BusyInv, TypeOK, Ctx
<1>2. cached' = [cached EXCEPT ![key[c]] = c]
  BY <1>1 DEF HandOut, TryAdd
<1>3. \A l \in Keys : cached[l] # c
  BY <1>1 DEF IInv, CachedInv
<1>4. \A a \in Branches : a # b => at'[a] = at[a] /\ making'[a] = making[a]
  BY DEF HandOut, IInv, TypeOK
<1>5. ASSUME NEW a \in Branches, at'[a] # "idle"
      PROVE  /\ a # b /\ at'[a] = at[a] /\ making'[a] = making[a] /\ making[a] \in Ctx
             /\ making[a] # c /\ key[making[a]] \in Uses[a] /\ key[making[a]] # key[c]
             /\ key[making[a]] \in Keys /\ ConnOf[key[making[a]]] # ConnOf[key[c]]
  <2>1. a # b /\ at'[a] = at[a] /\ making'[a] = making[a]
    BY <1>5, <1>4 DEF HandOut, IInv, TypeOK
  <2>2. making[a] \in Ctx /\ key[making[a]] \in Uses[a]
    BY <1>5, <2>1, Numbers DEF IInv, MakingApart, TypeOK, Ctx
  <2>3. ConnOf[key[making[a]]] # ConnOf[key[c]]
    BY <1>1, <2>1, <2>2 DEF OwnConnections
  <2>4. QED
    BY <2>1, <2>2, <2>3, KeyTyped
<1>6. /\ \A d \in Ctx : IsCached(d) => IsCached(d)'
      /\ \A d \in Ctx : d = c => IsCached(d)'
  BY <1>1, <1>2 DEF IsCached, IInv, TypeOK
<1>7. QED
  BY <1>1, <1>2, <1>3, <1>4, <1>5, <1>6

\* What is left once the transaction of the context is settled.
LEMMA HandOutLinked ==
  ASSUME IInv, OwnConnections, NEW b \in Branches, at[b] # "idle", HandOut(b),
         UNCHANGED <<uowVars, nctx, key, closed, dataVars>>,
         \A t \in Ctx : IsOpen(t) => IsOpen(t)',
         \A d \in Ctx : IsAttended(d) => IsAttended(d)',
         \A d \in Ctx : d # making[b] => tx'[d] = tx[d],
         tx'[making[b]] \in Ctx, \A t \in Ctx : t = tx'[making[b]] => IsOpen(t)',
         \A n \in Conns : n # ConnOf[key[making[b]]] => active'[n] = active[n],
         \A t \in Ctx : txState'[t] = "open" => txState[t] = "open" \/ IsOpen(t)',
         \A d \in Ctx : d = making[b] => IsOpen(d)' \/ IsAttended(d)'
  PROVE  Linked'
<1> DEFINE c == making[b]
<1>1. BusyInv'
  <2>1. ASSUME NEW a \in Branches, at'[a] # "idle"
        PROVE  /\ cached'[key'[making'[a]]] = None
               /\ at'[a] = "beginning" => active'[ConnOf[key'[making'[a]]]] = None
               /\ at'[a] = "sharing" => IsOpen(tx[making[a]])'
    <3>1. /\ at[a] # "idle" /\ at'[a] = at[a] /\ making'[a] = making[a] /\ making[a] \in Ctx
          /\ making[a] # c /\ key[making[a]] # key[c]
          /\ key[making[a]] \in Keys /\ ConnOf[key[making[a]]] # ConnOf[key[c]]
          /\ ConnOf[key[making[a]]] \in Conns
      BY <2>1, HandOutFacts, ConnOfAssumption
    <3>2. cached'[key[making[a]]] = cached[key[making[a]]] /\ tx'[making[a]] = tx[making[a]]
          /\ active'[ConnOf[key[making[a]]]] = active[ConnOf[key[making[a]]]]
      BY <3>1, HandOutFacts DEF IInv, TypeOK
    <3>3. at[a] = "sharing" => tx[making[a]] \in Ctx /\ IsOpen(tx[making[a]])
      BY <3>1, Numbers DEF IInv, BusyInv, IsOpen, TypeOK
    <3>4. at[a] = "sharing" => \E t \in Ctx : t = tx[making[a]] /\ IsOpen(t)'
      BY <3>3
    <3>5. at'[a] = "sharing" => IsOpen(tx[making[a]])'
      BY <3>1, <3>2, <3>4 DEF IsOpen
    <3>6. QED
      BY <3>1, <3>2, <3>5 DEF IInv, BusyInv
  <2>2. QED
    BY <2>1, HandOutFacts DEF BusyInv, uowVars
<1>2. CachedInv'
  <2>1. ASSUME NEW l \in Keys, cached'[l] # None
        PROVE  /\ cached'[l] <= nctx' /\ key'[cached'[l]] = l
               /\ IsOpen(tx[cached[l]])'
    <3>1. CASE l = key[c]
      <4>1. cached'[l] = c /\ c <= nctx
        BY <3>1, HandOutFacts DEF IInv, TypeOK
      <4>2. QED
        BY <3>1, <4>1 DEF IsOpen
    <3>2. CASE l # key[c]
      <4>1. cached'[l] = cached[l] /\ cached[l] \in Ctx /\ cached[l] # c
        BY <2>1, <3>2, HandOutFacts, Numbers DEF IInv, TypeOK
      <4>2. tx'[cached[l]] = tx[cached[l]] /\ tx[cached[l]] \in Ctx /\ IsOpen(tx[cached[l]])
        BY <2>1, <4>1, HandOutFacts, Numbers DEF IInv, CachedInv, TypeOK, IsOpen
      <4>3. \E t \in Ctx : t = tx[cached[l]] /\ IsOpen(t)'
        BY <4>2
      <4>4. QED
        BY <2>1, <4>1, <4>2, <4>3 DEF IInv, CachedInv, IsOpen
    <3>3. QED
      BY <3>1, <3>2
  <2>2. ASSUME NEW a \in Branches, holds'[a] # None
        PROVE  IsCached(holds[a])'
    <3>1. holds'[a] = c \/ (holds'[a] = holds[a] /\ holds[a] \in Ctx)
      BY <2>2, Numbers DEF HandOut, IInv, TypeOK
    <3>2. \E d \in Ctx : d = holds'[a] /\ IsCached(d)'
      BY <2>2, <3>1, HandOutFacts DEF IInv, CachedInv
    <3>3. QED
      BY <3>2 DEF IsCached
  <2>3. QED
    BY <2>1, <2>2, HandOutFacts DEF CachedInv, uowVars
<1>3. ReachInv'
  <2>1. ASSUME NEW d \in Ctx, tx'[d] # None
        PROVE  \/ IsOpen(d)' \/ IsAttended(d)'
               \/ \E a \in Branches : at'[a] = "sharing" /\ making'[a] = d
    <3>1. CASE d # c
      BY <2>1, <3>1, HandOutFacts DEF IInv, ReachInv
    <3>2. QED
      BY <3>1
  <2>2. QED
    BY <2>1, HandOutFacts DEF IInv, ReachInv
<1>4. TrackedInv'
  BY HandOutFacts DEF IInv, TrackedInv, uowVars, dataVars
<1>5. ChangesInv'
  <2>1. \A i \in Change : InTx(i) => InTx(i)'
    BY DEF InTx, dataVars
  <2>2. QED
    BY <2>1 DEF IInv, ChangesInv, uowVars, dataVars
<1>6. NothingLeftOpen'
  BY HandOutFacts DEF NothingLeftOpen, uowVars
<1>7. QED
  BY <1>1, <1>2, <1>3, <1>4, <1>5, <1>6 DEF Linked

LEMMA CreateBegunLinked ==
  ASSUME IInv, OwnConnections, NEW b \in Branches, CreateBegun(b)
  PROVE  Linked'
<1> DEFINE c == making[b]
           n == ConnOf[key[c]]
<1>1. at[b] = "beginning" /\ HandOut(b) /\ UNCHANGED <<uowVars, nctx, key, closed, attended, dataVars>>
      /\ UNCHANGED <<nctx, key>>
  BY DEF CreateBegun
<1>2. /\ c \in Ctx /\ n \in Conns /\ active[n] = None
      /\ tx' = [tx EXCEPT ![c] = c] /\ txState' = [txState EXCEPT ![c] = "open"]
      /\ active' = [active EXCEPT ![n] = c]
  BY <1>1, HandOutFacts DEF CreateBegun, IInv, BusyInv
<1>3. /\ tx'[c] = c
      /\ \A d \in Ctx : d # c => tx'[d] = tx[d]
      /\ \A m \in Conns : m # n => active'[m] = active[m]
      /\ active'[n] = c
  BY <1>2 DEF IInv, TypeOK
<1>4. \A t \in Ctx : IsOpen(t) => IsOpen(t)'
  BY <1>2, <1>3 DEF IsOpen
<1>5. \A d \in Ctx : d = c => IsOpen(d)'
  BY <1>2, <1>3, Numbers DEF IsOpen
<1>6. \A d \in Ctx : IsAttended(d) => IsAttended(d)'
  BY <1>1, <1>4 DEF IsAttended
<1>7. \A t \in Ctx : txState'[t] = "open" => txState[t] = "open" \/ IsOpen(t)'
  BY <1>2, <1>5 DEF IInv, TypeOK
<1>8. QED
  BY <1>1, <1>2, <1>3, <1>4, <1>5, <1>6, <1>7, HandOutLinked

LEMMA CreateSharedLinked ==
  ASSUME IInv, OwnConnections, NEW b \in Branches, CreateShared(b)
  PROVE  Linked'
<1> DEFINE c == making[b]
<1>1. /\ at[b] = "sharing" /\ HandOut(b) /\ UNCHANGED <<uowVars, ctxVars, txState, active, dataVars>>
      /\ UNCHANGED <<nctx, key>> /\ UNCHANGED <<uowVars, nctx, key, closed, dataVars>>
      /\ tx' = tx /\ active' = active
  BY DEF CreateShared, ctxVars
<1>2. c \in Ctx /\ tx[c] \in Ctx /\ IsOpen(tx[c])
  BY <1>1, HandOutFacts, Numbers DEF IInv, BusyInv, IsOpen, TypeOK
<1>3. attended' = [attended EXCEPT ![tx[c]] = attended[tx[c]] \cup {c}]
  BY DEF CreateShared
<1>4. \A t \in Ctx : IsOpen(t) => IsOpen(t)'
  BY <1>1 DEF IsOpen
<1>5. \A d \in Ctx : IsAttended(d) => IsAttended(d)'
  BY <1>3, <1>4 DEF IsAttended, IInv, TypeOK
<1>6. \A d \in Ctx : d = c => IsAttended(d)'
  BY <1>2, <1>3, <1>4 DEF IsAttended, IInv, TypeOK
<1>7. \A t \in Ctx : txState'[t] = "open" => txState[t] = "open"
  BY <1>1
<1>8. tx'[c] \in Ctx /\ \A t \in Ctx : t = tx'[c] => IsOpen(t)'
  BY <1>1, <1>2, <1>4
<1>9. QED
  BY <1>1, <1>4, <1>5, <1>6, <1>7, <1>8, HandOutLinked

LEMMA CreateFailsLinked ==
  ASSUME IInv, NEW b \in Branches, CreateFails(b)
  PROVE  Linked'
<1> DEFINE c == making[b]
<1>1. /\ UNCHANGED <<uowVars, holds, nctx, key, closed, txState, regVars, dataVars>>
      /\ at[b] # "idle" /\ at' = [at EXCEPT ![b] = "idle"] /\ making' = [making EXCEPT ![b] = None]
      /\ tx' = [tx EXCEPT ![c] = None]
  BY DEF CreateFails
<1>2. c \in Ctx /\ transactional /\ ~disposed /\ \A l \in Keys : cached[l] # c
  BY <1>1, Numbers DEF IInv, MakingApart, BusyInv, CachedInv, TypeOK, Ctx
<1>3. tx'[c] = None /\ \A d \in Ctx : d # c => tx'[d] = tx[d]
  BY <1>1, <1>2 DEF IInv, TypeOK
<1>4. BusyInv'
  <2>1. ASSUME NEW a \in Branches, at'[a] # "idle"
        PROVE  /\ a # b /\ at'[a] = at[a] /\ making'[a] = making[a]
               /\ making[a] \in Ctx /\ making[a] # c
    <3>1. a # b /\ at'[a] = at[a] /\ making'[a] = making[a]
      BY <1>1, <2>1 DEF IInv, TypeOK
    <3>2. QED
      BY <1>1, <2>1, <3>1, Numbers DEF IInv, MakingApart, TypeOK, Ctx
  <2>2. QED
    BY <1>1, <1>3, <2>1 DEF IInv, BusyInv, IsOpen, uowVars, regVars
<1>5. CachedInv'
  <2>1. \A l \in Keys : cached[l] # None => tx'[cached[l]] = tx[cached[l]]
    BY <1>2, <1>3, Numbers DEF IInv, TypeOK
  <2>2. QED
    BY <1>1, <1>2, <2>1 DEF IInv, CachedInv, IsCached, IsOpen, uowVars, regVars
<1>6. ReachInv'
  <2>1. ASSUME NEW d \in Ctx, tx'[d] # None
        PROVE  \/ IsOpen(d)' \/ IsAttended(d)'
               \/ \E a \in Branches : at'[a] = "sharing" /\ making'[a] = d
    <3>1. d # c /\ tx[d] # None
      BY <1>3, <2>1
    <3>2. QED
      BY <1>1, <1>2, <3>1 DEF IInv, ReachInv, TypeOK, IsOpen, IsAttended, regVars
  <2>2. QED
    BY <1>1, <2>1 DEF IInv, ReachInv, IsOpen, uowVars, regVars
<1>7. TrackedInv' /\ ChangesInv' /\ NothingLeftOpen'
  BY <1>1, <1>2 DEF IInv, TrackedInv, ChangesInv, NothingLeftOpen, InTx, IsOpen, IsCached, uowVars,
     regVars, dataVars
<1>8. QED
  BY <1>4, <1>5, <1>6, <1>7 DEF Linked

LEMMA MakeChangeLinked ==
  ASSUME IInv, NEW b \in Branches, MakeChange(b)
  PROVE  Linked'
<1>1. /\ UNCHANGED <<uowVars, branchVars, ctxVars, txState, regVars, flushed, durable>>
      /\ phase = "active" /\ ~disposed /\ holds[b] # None /\ nchanges \in Nat
      /\ nchanges' = nchanges + 1 /\ nchanges + 1 \in Change
      /\ tracked' = [tracked EXCEPT ![holds[b]] = tracked[holds[b]] \cup {nchanges + 1}]
  BY MaxChangesAssumption DEF MakeChange, CanStep, IInv, TypeOK, Change
<1>2. holds[b] \in Ctx /\ IsCached(holds[b])
  BY <1>1, Numbers DEF IInv, TypeOK, CachedInv
<1>3. BusyInv' /\ CachedInv' /\ ReachInv' /\ NothingLeftOpen'
  BY <1>1 DEF IInv, BusyInv, CachedInv, ReachInv, NothingLeftOpen, HandedOut, IsCached, IsOpen,
     IsAttended, uowVars, branchVars, ctxVars, regVars
<1>4. TrackedInv'
  <2>1. ASSUME NEW d \in Ctx, tracked'[d] # {}
        PROVE  IsCached(d)
    BY <1>1, <1>2, <2>1 DEF IInv, TypeOK, TrackedInv
  <2>2. QED
    BY <1>1, <2>1 DEF TrackedInv, IsCached, uowVars, regVars
<1>5. ChangesInv'
  <2>1. ASSUME NEW i \in Change, i <= nchanges', i \notin durable'
        PROVE  InTx(i)' \/ \E c \in Ctx : i \in tracked'[c]
    <3>1. CASE i = nchanges + 1
      BY <1>1, <1>2, <3>1 DEF IInv, TypeOK
    <3>2. CASE i # nchanges + 1
      <4>1. i <= nchanges /\ i \notin durable
        BY <1>1, <2>1, <3>2 DEF Change
      <4>2. InTx(i) \/ \E c \in Ctx : i \in tracked[c]
        BY <1>1, <4>1 DEF IInv, ChangesInv
      <4>3. InTx(i) => InTx(i)'
        BY <1>1 DEF InTx, IsOpen, regVars
      <4>4. \A c \in Ctx : tracked[c] \subseteq tracked'[c]
        BY <1>1, <1>2 DEF IInv, TypeOK
      <4>5. QED
        BY <4>2, <4>3, <4>4
    <3>3. QED
      BY <3>1, <3>2
  <2>2. QED
    BY <1>1, <2>1 DEF ChangesInv, uowVars
<1>6. QED
  BY <1>3, <1>4, <1>5 DEF Linked

\* A cached context saves into an open transaction, or, without one, for good.
LEMMA FlushKeeps ==
  ASSUME IInv, NEW c \in Ctx, IsCached(c), Flush(c), UNCHANGED active
  PROVE  /\ \A d \in Ctx : tracked'[d] = IF d = c THEN {} ELSE tracked[d]
         /\ transactional => durable' = durable
         /\ durable \subseteq durable'
         /\ \A i \in Change : i \notin durable' /\ (InTx(i) \/ \E d \in Ctx : i \in tracked[d])
              => InTx(i)' \/ \E d \in Ctx : i \in tracked'[d]
<1>1. \A d \in Ctx : tracked'[d] = IF d = c THEN {} ELSE tracked[d]
  BY DEF Flush, IInv, TypeOK
<1>2. IF transactional THEN IsOpen(tx[c]) ELSE tx[c] = None
  BY DEF IInv, CachedInv, IsCached
<1>3. \A t \in Ctx : IsOpen(t) => IsOpen(t)'
  BY DEF IsOpen
<1>4. CASE tx[c] = None
  <2>1. durable' = durable \cup tracked[c] /\ flushed' = flushed
    BY <1>4 DEF Flush
  <2>2. \A i \in Change : InTx(i) => InTx(i)'
    BY <1>3, <2>1 DEF InTx
  <2>3. QED
    BY <1>1, <1>2, <1>4, <2>1, <2>2 DEF IsOpen
<1>5. CASE tx[c] # None
  <2>1. /\ tx[c] \in Ctx /\ durable' = durable
        /\ flushed' = [flushed EXCEPT ![tx[c]] = flushed[tx[c]] \cup tracked[c]]
    BY <1>5, Numbers DEF Flush, IInv, TypeOK
  <2>2. \A i \in Change : InTx(i) => InTx(i)'
    BY <1>3, <2>1 DEF InTx, IInv, TypeOK
  <2>3. transactional /\ IsOpen(tx[c])
    BY <1>2, <1>5
  <2>4. \A i \in Change : i \in tracked[c] => InTx(i)'
    BY <1>3, <2>1, <2>3 DEF InTx, IInv, TypeOK
  <2>5. QED
    BY <1>1, <2>1, <2>2, <2>4
<1>6. QED
  BY <1>4, <1>5

LEMMA SaveNowLinked ==
  ASSUME IInv, NEW b \in Branches, SaveNow(b)
  PROVE  Linked' /\ (transactional => durable' = durable)
<1>1. /\ UNCHANGED <<uowVars, branchVars, ctxVars, txState, regVars, nchanges>>
      /\ phase = "active" /\ ~disposed /\ holds[b] # None /\ Flush(holds[b]) /\ UNCHANGED active
  BY DEF SaveNow, CanStep, regVars
<1>2. holds[b] \in Ctx /\ IsCached(holds[b])
  BY <1>1, Numbers DEF IInv, TypeOK, CachedInv
<1>3. BusyInv' /\ CachedInv' /\ ReachInv' /\ NothingLeftOpen'
  BY <1>1 DEF IInv, BusyInv, CachedInv, ReachInv, NothingLeftOpen, HandedOut, IsCached, IsOpen,
     IsAttended, uowVars, branchVars, ctxVars, regVars
<1>4. TrackedInv'
  BY <1>1, <1>2, FlushKeeps DEF IInv, TrackedInv, IsCached, uowVars, regVars
<1>5. ChangesInv'
  <2>1. ASSUME NEW i \in Change, i <= nchanges', i \notin durable'
        PROVE  InTx(i)' \/ \E d \in Ctx : i \in tracked'[d]
    <3>1. i <= nchanges /\ i \notin durable
      BY <1>1, <1>2, <2>1, FlushKeeps
    <3>2. InTx(i) \/ \E d \in Ctx : i \in tracked[d]
      BY <1>1, <3>1 DEF IInv, ChangesInv
    <3>3. QED
      BY <1>1, <1>2, <2>1, <3>2, FlushKeeps
  <2>2. QED
    BY <1>1, <2>1 DEF ChangesInv, uowVars
<1>6. QED
  BY <1>1, <1>2, <1>3, <1>4, <1>5, FlushKeeps DEF Linked

LEMMA CompleteStartLinked ==
  ASSUME IInv, CompleteStart
  PROVE  Linked'
<1>1. /\ UNCHANGED <<transactional, disposed, branchVars, ctxVars, txState, regVars, dataVars>>
      /\ phase = "active" /\ ~disposed /\ AllIdle /\ phase' = "saving" /\ todo' = Active
  BY DEF CompleteStart
<1>2. BusyInv' /\ CachedInv' /\ ReachInv' /\ NothingLeftOpen'
  BY <1>1 DEF IInv, AllIdle, BusyInv, CachedInv, ReachInv, NothingLeftOpen, IsCached, IsOpen, IsAttended,
     branchVars, ctxVars, regVars
<1>3. \A c \in Ctx : IsCached(c) <=> c \in Active
  BY Numbers DEF IsCached, Active
<1>4. Active \subseteq Ctx
  BY Numbers DEF Active, IInv, TypeOK
<1>5. TrackedInv'
  BY <1>1, <1>3, <1>4 DEF IInv, TrackedInv, IsCached, regVars, dataVars
<1>6. ChangesInv'
  BY <1>1 DEF IInv, ChangesInv, InTx, IsOpen, regVars, dataVars
<1>7. QED
  BY <1>2, <1>5, <1>6 DEF Linked

LEMMA SaveNextLinked ==
  ASSUME IInv, SaveNext
  PROVE  Linked' /\ (transactional => durable' = durable)
<1>1. /\ UNCHANGED <<transactional, phase, disposed, branchVars, ctxVars, txState, regVars, nchanges>>
      /\ phase = "saving" /\ UNCHANGED active
  BY DEF SaveNext, regVars
<1>2. PICK c \in todo : Flush(c) /\ todo' = todo \ {c}
  BY DEF SaveNext
<1>3. c \in Ctx /\ IsCached(c) /\ ~disposed
  BY <1>1, <1>2 DEF IInv, TypeOK, TrackedInv
<1>4. BusyInv' /\ CachedInv' /\ ReachInv' /\ NothingLeftOpen'
  BY <1>1, <1>3 DEF IInv, BusyInv, CachedInv, ReachInv, NothingLeftOpen, IsCached, IsOpen, IsAttended,
     branchVars, ctxVars, regVars
<1>5. TrackedInv'
  BY <1>1, <1>2, <1>3, FlushKeeps DEF IInv, TrackedInv, IsCached, regVars
<1>6. ChangesInv'
  <2>1. ASSUME NEW i \in Change, i <= nchanges', i \notin durable'
        PROVE  InTx(i)' \/ \E d \in Ctx : i \in tracked'[d]
    <3>1. i <= nchanges /\ i \notin durable
      BY <1>1, <1>2, <1>3, <2>1, FlushKeeps
    <3>2. InTx(i) \/ \E d \in Ctx : i \in tracked[d]
      BY <1>1, <3>1 DEF IInv, ChangesInv
    <3>3. QED
      BY <1>1, <1>2, <1>3, <2>1, <3>2, FlushKeeps
  <2>2. QED
    BY <1>1, <2>1 DEF ChangesInv
<1>7. QED
  BY <1>1, <1>2, <1>3, <1>4, <1>5, <1>6, FlushKeeps DEF Linked

\* Every context is saved, so what is not durable waits in a transaction to commit.
LEMMA CommitStartLinked ==
  ASSUME IInv, CommitStart
  PROVE  Linked'
<1>1. /\ UNCHANGED <<transactional, disposed, branchVars, ctxVars, txState, regVars, dataVars>>
      /\ phase = "saving" /\ todo = {} /\ phase' = "committing" /\ ~disposed
      /\ todo' = IF transactional THEN OpenTxs ELSE {}
  BY DEF CommitStart, IInv, TrackedInv
<1>2. BusyInv' /\ CachedInv' /\ ReachInv' /\ NothingLeftOpen'
  BY <1>1 DEF IInv, BusyInv, CachedInv, ReachInv, NothingLeftOpen, IsCached, IsOpen, IsAttended,
     branchVars, ctxVars, regVars
<1>3. \A c \in Ctx : tracked[c] = {}
  BY <1>1 DEF IInv, TrackedInv
<1>4. TrackedInv'
  BY <1>1, <1>3 DEF TrackedInv, dataVars
<1>5. ChangesInv'
  <2>1. ASSUME NEW i \in Change, i <= nchanges, i \notin durable
        PROVE  \E t \in todo' : i \in flushed[t]
    <3>1. InTx(i)
      BY <1>1, <1>3, <2>1 DEF IInv, ChangesInv
    <3>2. PICK t \in Ctx : IsOpen(t) /\ i \in flushed[t]
      BY <3>1 DEF InTx
    <3>3. t \in OpenTxs /\ transactional
      BY <3>2 DEF IsOpen, OpenTxs, IInv, CachedInv
    <3>4. QED
      BY <1>1, <3>2, <3>3
  <2>2. QED
    BY <1>1, <2>1 DEF ChangesInv, dataVars
<1>6. QED
  BY <1>2, <1>4, <1>5 DEF Linked

LEMMA CommitNextLinked ==
  ASSUME IInv, CommitNext \/ CommitAnswerLost
  PROVE  Linked'
<1>1. /\ UNCHANGED <<transactional, disposed, branchVars, ctxVars, regVars, nchanges, tracked, flushed>>
      /\ phase = "committing" /\ ~disposed
  BY DEF CommitNext, CommitAnswerLost, IInv, TrackedInv
<1>2. PICK t \in todo : /\ Commit(t)
                        /\ \/ phase' = "committing" /\ todo' = todo \ {t}
                           \/ phase' = "failed"
  BY <1>1 DEF CommitNext, CommitAnswerLost
<1>3. \A c \in Ctx : txState'[c] = "open" => txState[c] = "open"
  BY <1>2 DEF Commit, IInv, TypeOK
<1>4. durable' = durable \cup flushed[t]
  BY <1>2 DEF Commit
<1>5. BusyInv' /\ CachedInv' /\ ReachInv' /\ NothingLeftOpen'
  BY <1>1, <1>3 DEF IInv, BusyInv, CachedInv, ReachInv, NothingLeftOpen, IsCached, IsOpen, IsAttended,
     branchVars, ctxVars, regVars
<1>6. TrackedInv'
  BY <1>1, <1>2 DEF IInv, TrackedInv
<1>7. ChangesInv'
  BY <1>1, <1>2, <1>4 DEF IInv, ChangesInv
<1>8. QED
  BY <1>5, <1>6, <1>7 DEF Linked

LEMMA CompleteEndsLinked ==
  ASSUME IInv, CompleteSucceeds \/ CompleteFails
  PROVE  Linked'
<1>1. /\ UNCHANGED <<transactional, disposed, branchVars, ctxVars, txState, regVars, dataVars>>
      /\ phase \in {"saving", "committing"} /\ ~disposed
      /\ \/ phase = "committing" /\ todo = {} /\ phase' = "succeeded"
         \/ phase' = "failed"
  BY DEF CompleteSucceeds, CompleteFails, IInv, TrackedInv
<1>2. BusyInv' /\ CachedInv' /\ ReachInv' /\ NothingLeftOpen'
  BY <1>1 DEF IInv, BusyInv, CachedInv, ReachInv, NothingLeftOpen, IsCached, IsOpen, IsAttended,
     branchVars, ctxVars, regVars
<1>3. TrackedInv' /\ ChangesInv'
  BY <1>1 DEF IInv, TrackedInv, ChangesInv, dataVars
<1>4. QED
  BY <1>2, <1>3 DEF Linked

\* Every open transaction and every context in one is found from its connection.
LEMMA DisposeUowLinked ==
  ASSUME IInv, DisposeUow
  PROVE  Linked'
<1>1. /\ UNCHANGED <<transactional, phase, todo, branchVars, nctx, key, tx, dataVars>>
      /\ ~disposed /\ disposed' /\ AllIdle /\ phase \in {"active", "succeeded", "failed"}
      /\ cached' = [k \in Keys |-> None]
  BY DEF DisposeUow
<1>2. BusyInv'
  BY <1>1 DEF AllIdle, BusyInv, branchVars
<1>3. CachedInv'
  <2>1. ~transactional => active' = active
    BY DEF DisposeUow
  <2>2. QED
    BY <1>1, <2>1 DEF IInv, CachedInv
<1>4. ReachInv' /\ TrackedInv'
  BY <1>1 DEF ReachInv, TrackedInv
<1>5. ChangesInv'
  BY <1>1 DEF IInv, ChangesInv, dataVars
<1>6. NothingLeftOpen'
  <2>1. ASSUME NEW c \in Ctx, transactional
        PROVE  txState'[c] # "open" /\ (tx[c] # None => c \in closed')
    <3>1. IsOpen(c) <=> c \in OpenTxs
      BY DEF IsOpen, OpenTxs
    <3>2. IsAttended(c) => c \in Attended
      BY DEF IsAttended, IsOpen, Attended, OpenTxs
    <3>3. txState'[c] # "open"
      BY <1>1, <2>1, <3>1 DEF DisposeUow, IInv, ReachInv
    <3>4. tx[c] # None => IsOpen(c) \/ IsAttended(c)
      BY <1>1, <2>1 DEF IInv, ReachInv, AllIdle
    <3>5. QED
      BY <2>1, <3>1, <3>2, <3>3, <3>4 DEF DisposeUow
  <2>2. ASSUME NEW c \in Ctx, ~transactional
        PROVE  txState'[c] # "open" /\ (c <= nctx => c \in closed')
    <3>1. txState[c] # "open"
      BY <1>1, <2>2 DEF IInv, ReachInv, CachedInv, IsOpen
    <3>2. c <= nctx => c \in Active
      BY <1>1, <2>2, Numbers DEF IInv, TypeOK, CachedInv, IsCached, Active, Ctx
    <3>3. QED
      BY <2>2, <3>1, <3>2 DEF DisposeUow
  <2>3. QED
    BY <1>1, <2>1, <2>2 DEF NothingLeftOpen, HandedOut
<1>7. QED
  BY <1>2, <1>3, <1>4, <1>5, <1>6 DEF Linked

-----------------------------------------------------------------------------
(* The theorems.                                                           *)

LEMMA StepIInv ==
  ASSUME OwnConnections, IInv, [Next]_vars
  PROVE  IInv'
<1>1. TypeOK' /\ MakingApart'
  BY BranchTypeOK, OthersTypeOK, BranchMakingApart, OthersMakingApart DEF IInv, Next
<1>2. Linked'
  <2>1. ASSUME NEW b \in Branches, BranchStep(b)
        PROVE  Linked'
    BY <2>1, GetCachedLinked, GetNewLinked, CreateStartLinked, CreateBegunLinked,
       CreateSharedLinked, CreateFailsLinked, MakeChangeLinked, SaveNowLinked DEF BranchStep
  <2>2. CASE CompleteStep
    BY <2>2, SaveNextLinked, CommitStartLinked, CommitNextLinked, CompleteEndsLinked
    DEF CompleteStep
  <2>3. CASE UNCHANGED vars
    BY <2>3 DEF vars, Linked, IInv, BusyInv, CachedInv, ReachInv, TrackedInv, ChangesInv,
       NothingLeftOpen, HandedOut, IsCached, IsOpen, IsAttended, InTx
  <2>4. QED
    BY <2>1, <2>2, <2>3, CompleteStartLinked, DisposeUowLinked DEF Next
<1>3. QED
  BY <1>1, <1>2 DEF IInv, Linked

LEMMA SpecIInv == ASSUME OwnConnections PROVE Spec => []IInv
<1>1. Init => IInv
  BY InitIInv
<1>2. IInv /\ [Next]_vars => IInv'
  BY StepIInv
<1>3. QED
  BY <1>1, <1>2, PTL DEF Spec

\* When CompleteAsync returned, every change made through a context that the unit of
\* work handed out is in the database, whatever calls of the branches failed before.
THEOREM ChangesAreSaved == ASSUME OwnConnections PROVE Spec => []NoChangeLost
<1>1. IInv => NoChangeLost
  BY DEF IInv, ChangesInv, NoChangeLost
<1>2. QED
  BY <1>1, SpecIInv, PTL

\* Nothing of a transactional unit of work is durable before all of it is saved.
THEOREM SavedBeforeDurable == ASSUME OwnConnections PROVE Spec => DurableAfterAllSaved
<1> DEFINE Step == transactional /\ durable' # durable =>
                     phase = "committing" /\ \A c \in Ctx : tracked[c] = {}
<1>1. IInv /\ [Next]_vars => [Step]_vars
  <2> SUFFICES ASSUME IInv, Next, transactional, durable' # durable
               PROVE  phase = "committing" /\ \A c \in Ctx : tracked[c] = {}
    OBVIOUS
  <2>1. ~\E b \in Branches : BranchStep(b)
    BY SaveNowLinked DEF BranchStep, GetCached, GetNew, CreateStart, CreateBegun, CreateShared,
       CreateFails, MakeChange, dataVars
  <2>2. CommitNext \/ CommitAnswerLost
    BY <2>1, SaveNextLinked DEF Next, CompleteStart, CompleteStep, CommitStart, CompleteSucceeds,
       CompleteFails, DisposeUow, dataVars
  <2>3. QED
    BY <2>2 DEF CommitNext, CommitAnswerLost, IInv, TrackedInv
<1>2. QED
  BY <1>1, SpecIInv, PTL DEF Spec, DurableAfterAllSaved

\* A disposed unit of work leaves no transaction open and no context of it alive.
THEOREM DisposedLeavesNothing == ASSUME OwnConnections PROVE Spec => []NothingLeftOpen
<1>1. IInv => NothingLeftOpen
  BY DEF IInv
<1>2. QED
  BY <1>1, SpecIInv, PTL

-----------------------------------------------------------------------------
(* The refinement of AtomicCommit                                          *)

On(c) == ConnOf[key[c]]                       \* the connection of a context
Begun(t) == txState[t] # "none"
ChangesOf(c) == tracked[c] \cup flushed[c]    \* what is in a context or its transaction

\* A context that is not created yet has nothing; what a context shares is on its
\* connection, and a connection has one transaction.
PlaceInv ==
  /\ \A c \in Ctx : c > nctx => ChangesOf(c) = {} /\ ~Begun(c)
  /\ \A c \in 1 .. nctx : key[c] \in Keys
  /\ \A n \in Conns : active[n] # None =>
       active[n] <= nctx /\ On(active[n]) = n /\ Begun(active[n])
  /\ \A c \in 1 .. nctx : tx[c] # None => tx[c] <= nctx /\ On(tx[c]) = On(c)
  /\ ~disposed => \A t \in Ctx : Begun(t) => active[On(t)] = t
  /\ \A t, u \in Ctx : Begun(t) /\ Begun(u) /\ On(t) = On(u) => t = u

\* A change is made once, on one connection, and saved into a transaction.
OnceInv ==
  /\ durable \subseteq 1 .. nchanges
  /\ \A c \in Ctx : ChangesOf(c) \subseteq 1 .. nchanges
  /\ \A c, d \in Ctx : ChangesOf(c) \cap ChangesOf(d) # {} => On(c) = On(d)
  /\ \A t \in Ctx : flushed[t] # {} => Begun(t)

\* What is committed, and when.
DecidedInv ==
  /\ ~transactional => \A t \in Ctx : ~Begun(t)
  /\ \A t \in Ctx : /\ txState[t] = "committed" => phase \in {"committing", "succeeded", "failed"}
                    /\ txState[t] = "rolledback" => disposed
  /\ phase = "committing" => \A t \in todo : txState[t] = "open"
  /\ transactional => \A c \in 1 .. nctx : \A i \in ChangesOf(c) :
                        i \in durable <=> Committed(On(c))

AtomInv == PlaceInv /\ OnceInv /\ DecidedInv

Outcome(n) ==
  IF Committed(n) \/ phase = "succeeded" THEN "committed"
  ELSE IF phase = "failed" \/ disposed THEN "aborted" ELSE "open"

Kept(n) == durable \cap MadeOn(n)

Atomically == \A n \in Conns : [Atomic(n)!Next]_(Atomic(n)!vars)

\* How a step of the unit of work may look on one connection.
Makes(n) ==
  /\ Outcome(n) = "open" /\ \E i \in Change \ MadeOn(n) : MadeOn(n)' = MadeOn(n) \cup {i}
  /\ Kept(n)' = Kept(n) /\ Outcome(n)' = Outcome(n)

Commits(n) ==
  /\ Outcome(n) = "open" /\ Outcome(n)' = "committed"
  /\ MadeOn(n)' = MadeOn(n) /\ Kept(n)' = MadeOn(n)

Aborts(n) ==
  /\ Outcome(n) = "open" /\ Outcome(n)' = "aborted"
  /\ MadeOn(n)' = MadeOn(n) /\ Kept(n)' = Kept(n)

Stays(n) == MadeOn(n)' = MadeOn(n) /\ Kept(n)' = Kept(n) /\ Outcome(n)' = Outcome(n)

LEMMA StepsOfAtomic ==
  ASSUME \A n \in Conns : Makes(n) \/ Commits(n) \/ Aborts(n) \/ Stays(n)
  PROVE  Atomically
BY DEF Makes, Commits, Aborts, Stays, Kept, Outcome, Atomically,
   Atomic!Next, Atomic!vars, Atomic!Make, Atomic!Commit, Atomic!Abort

LEMMA InMade ==
  /\ \A n, i : i \in MadeOn(n) <=>
       transactional /\ \E c \in 1 .. nctx : ConnOf[key[c]] = n /\ i \in ChangesOf(c)
  /\ \A n, i : i \in MadeOn(n)' <=>
       transactional' /\ \E c \in 1 .. nctx' : ConnOf[key'[c]] = n /\ i \in ChangesOf(c)'
BY DEF MadeOn, ChangesOf

LEMMA CtxRange ==
  ASSUME TypeOK
  PROVE  \A c : c \in 1 .. nctx <=> c \in Ctx /\ c <= nctx
BY Numbers DEF TypeOK, Ctx, CtxOrNone

LEMMA InitAtomic == Init => AtomInv /\ \A n \in Conns : Atomic(n)!Init
<1> SUFFICES ASSUME Init
             PROVE  AtomInv /\ \A n \in Conns : Atomic(n)!Init
  OBVIOUS
<1>1. 1 .. nctx = {} /\ \A c \in Ctx : ChangesOf(c) = {} /\ ~Begun(c) /\ flushed[c] = {}
  BY DEF Init, ChangesOf, Begun
<1>2. PlaceInv
  BY <1>1 DEF Init, PlaceInv
<1>3. OnceInv
  BY <1>1 DEF Init, OnceInv
<1>4. DecidedInv
  BY <1>1 DEF Init, DecidedInv, Begun
<1>5. ASSUME NEW n \in Conns
      PROVE  Atomic(n)!Init
  <2>1. MadeOn(n) = {} /\ ~Committed(n)
    BY <1>1 DEF MadeOn, Committed
  <2>2. QED
    BY <2>1 DEF Init, Atomic!Init
<1>6. QED
  BY <1>2, <1>3, <1>4, <1>5 DEF AtomInv

-----------------------------------------------------------------------------
\* Steps that touch neither changes nor transactions, before anything is committed.
LEMMA QuietAtomic ==
  ASSUME AtomInv,
         UNCHANGED <<transactional, disposed, nctx, key, txState, active,
                     nchanges, tracked, flushed, durable>>,
         tx' = tx \/ \E c \in Ctx : tx' = [tx EXCEPT ![c] = None],
         tx \in [Ctx -> CtxOrNone], nctx \in CtxOrNone,
         \/ phase' = phase /\ todo' = todo
         \/ phase = "active" /\ phase' = "saving"
         \/ phase = "saving" /\ phase' = "committing" /\ \A t \in todo' : txState[t] = "open"
  PROVE  AtomInv' /\ Atomically
<1>1. \A c \in Ctx : ChangesOf(c)' = ChangesOf(c)
  BY DEF ChangesOf
<1>2. \A n \in Conns : MadeOn(n)' = MadeOn(n) /\ (Committed(n)' <=> Committed(n))
  BY DEF MadeOn, Committed
<1>3. PlaceInv'
  <2>1. \A c \in Ctx : tx'[c] # None => tx'[c] = tx[c]
    OBVIOUS
  <2>2. \A c \in 1 .. nctx : c \in Ctx
    BY Numbers DEF Ctx, CtxOrNone
  <2>3. QED
    BY <1>1, <2>1, <2>2 DEF AtomInv, PlaceInv, On, Begun
<1>4. OnceInv'
  BY <1>1 DEF AtomInv, OnceInv, On, Begun
<1>5. DecidedInv'
  <2>1. \A c \in 1 .. nctx : c \in Ctx
    BY Numbers DEF Ctx, CtxOrNone
  <2>2. transactional => \A c \in 1 .. nctx : \A i \in ChangesOf(c)' :
                           i \in durable <=> Committed(On(c))'
    BY <1>1, <2>1 DEF AtomInv, DecidedInv, On, Committed
  <2>3. QED
    BY <2>2 DEF AtomInv, DecidedInv, On, Begun
<1>6. \A n \in Conns : Stays(n)
  BY <1>2 DEF Stays, Kept, Outcome
<1>7. QED
  BY <1>3, <1>4, <1>5, <1>6, StepsOfAtomic DEF AtomInv

\* A context is created without changes.
LEMMA ResolveAtomic ==
  ASSUME TypeOK, AtomInv, NEW k \in Keys, Resolve(k), phase = "active",
         \/ tx' = tx /\ ~transactional
         \/ tx' = [tx EXCEPT ![nctx + 1] = active[ConnOf[k]]],
         ~transactional => \A c \in Ctx : tx[c] = None,
         UNCHANGED <<transactional, phase, disposed, todo, txState, active,
                     nchanges, tracked, flushed, durable>>
  PROVE  AtomInv' /\ Atomically
<1>0. PICK new \in Ctx : new = nctx + 1
  BY Numbers DEF Resolve, TypeOK
<1>1. /\ new \in Ctx /\ new > nctx /\ nctx \in Nat
      /\ nctx' = new /\ key' = [key EXCEPT ![new] = k] /\ key \in [Ctx -> Keys \cup {NoKey}]
      /\ ConnOf[k] \in Conns /\ tx \in [Ctx -> CtxOrNone]
  BY <1>0, Numbers, ConnOfAssumption DEF Resolve, TypeOK
<1>x. tx' = [tx EXCEPT ![new] = active[ConnOf[k]]] \/ (tx' = tx /\ ~transactional)
  BY <1>0
<1>2. \A c : c \in 1 .. nctx' <=> c \in 1 .. nctx \/ c = new
  BY <1>0, <1>1
<1>3. /\ \A c \in Ctx : c # new => key'[c] = key[c]
      /\ key'[new] = k
      /\ \A c \in Ctx : ChangesOf(c)' = ChangesOf(c) /\ (Begun(c)' <=> Begun(c))
  BY <1>1 DEF ChangesOf, Begun
<1>4. ChangesOf(new) = {} /\ ~Begun(new)
  BY <1>1 DEF AtomInv, PlaceInv
<1>5. \A c \in 1 .. nctx : c \in Ctx /\ c # new
  BY <1>1, CtxRange
<1>6. PlaceInv'
  <2>1. \A c \in Ctx : Begun(c) => c # new /\ On(c)' = On(c)
    BY <1>3, <1>4 DEF On
  <2>2. \A n \in Conns : active[n] # None => active[n] \in 1 .. nctx
    BY CtxRange, Numbers DEF AtomInv, PlaceInv, TypeOK
  <2>3. \A n \in Conns : active[n] # None =>
          active[n] <= nctx' /\ ConnOf[key'[active[n]]] = n /\ Begun(active[n])
    <3> SUFFICES ASSUME NEW n \in Conns, active[n] # None
                 PROVE  active[n] <= nctx' /\ ConnOf[key'[active[n]]] = n /\ Begun(active[n])
      OBVIOUS
    <3>1. active[n] \in 1 .. nctx /\ On(active[n]) = n /\ Begun(active[n])
      BY <2>2 DEF AtomInv, PlaceInv
    <3>2. key'[active[n]] = key[active[n]] /\ active[n] <= nctx'
      BY <1>0, <1>1, <1>3, <1>5, <3>1
    <3>3. QED
      BY <3>1, <3>2 DEF On
  <2>4. \A c \in 1 .. nctx' : key'[c] \in Keys
    BY <1>2, <1>3, <1>5 DEF AtomInv, PlaceInv
  <2>5. ASSUME NEW c \in 1 .. nctx', tx'[c] # None
        PROVE  tx'[c] <= nctx' /\ ConnOf[key'[tx'[c]]] = ConnOf[key'[c]]
    <3>1. CASE c # new
      <4>1. tx'[c] = tx[c] /\ c \in 1 .. nctx /\ key'[c] = key[c]
        <5>1. c \in 1 .. nctx /\ c \in Ctx
          BY <1>2, <1>5, <3>1
        <5>2. QED
          BY <1>1, <1>x, <1>3, <3>1, <5>1
      <4>2. tx[c] \in 1 .. nctx /\ On(tx[c]) = On(c)
        BY <2>5, <4>1, <1>5, CtxRange, Numbers DEF AtomInv, PlaceInv, TypeOK
      <4>3. key'[tx[c]] = key[tx[c]] /\ tx[c] <= nctx'
        BY <1>0, <1>1, <1>3, <1>5, <4>2
      <4>4. QED
        BY <4>1, <4>2, <4>3 DEF On
    <3>2. CASE c = new
      <4>2. CASE tx'[c] = active[ConnOf[k]]
        BY <1>1, <1>3, <2>3, <2>5, <3>2, <4>2 DEF On
      <4>3. tx'[c] = active[ConnOf[k]]
        BY <1>1, <1>x, <2>5, <3>2
      <4>4. QED
        BY <4>2, <4>3
    <3>3. QED
      BY <3>1, <3>2
  <2>6. QED
    <3>1. \A c \in Ctx : c > nctx' => ChangesOf(c)' = {} /\ ~Begun(c)'
      <4>1. \A c \in Ctx : c > nctx' => c > nctx
        <5>1. \A c \in Ctx : c \in Nat
          BY Numbers
        <5>2. nctx' = nctx + 1 /\ nctx \in Nat
          BY <1>0, <1>1
        <5>3. QED
          BY <5>1, <5>2
      <4>2. QED
        BY <1>3, <4>1 DEF AtomInv, PlaceInv
    <3>2. \A t \in Ctx : Begun(t)' => Begun(t) /\ On(t)' = On(t)
      BY <1>3, <2>1
    <3>3. QED
      BY <2>3, <2>4, <2>5, <3>1, <3>2 DEF AtomInv, PlaceInv, On, Begun
<1>7. OnceInv'
  <2>1. \A c \in Ctx : ChangesOf(c) # {} => key'[c] = key[c]
    BY <1>3, <1>4
  <2>2. QED
    BY <1>3, <2>1 DEF AtomInv, OnceInv, On
<1>8. \A n \in Conns : MadeOn(n)' = MadeOn(n) /\ (Committed(n)' <=> Committed(n))
  <2> SUFFICES ASSUME NEW n \in Conns
               PROVE  MadeOn(n)' = MadeOn(n) /\ (Committed(n)' <=> Committed(n))
    OBVIOUS
  <2>1. MadeOn(n)' = MadeOn(n)
    <3>1. ASSUME NEW i
          PROVE  (\E c \in 1 .. nctx' : ConnOf[key'[c]] = n /\ i \in ChangesOf(c)')
                 <=> (\E c \in 1 .. nctx : ConnOf[key[c]] = n /\ i \in ChangesOf(c))
      <4>1. ChangesOf(new)' = {}
        BY <1>1, <1>3, <1>4
      <4>2. ASSUME NEW c \in 1 .. nctx
            PROVE  c \in 1 .. nctx' /\ key'[c] = key[c] /\ ChangesOf(c)' = ChangesOf(c)
        BY <1>2, <1>3, <1>5
      <4>3. QED
        BY <1>2, <4>1, <4>2
    <3>2. \A i : i \in MadeOn(n)' <=> i \in MadeOn(n)
      BY <3>1, InMade
    <3>3. QED
      BY <3>2
  <2>2. Committed(n)' <=> Committed(n)
    BY <1>1, <1>2, <1>3, <1>4, <1>5 DEF Committed, Begun
  <2>3. QED
    BY <2>1, <2>2
<1>9. DecidedInv'
  <2>1. ASSUME transactional, NEW c \in 1 .. nctx', NEW i \in ChangesOf(c)'
        PROVE  i \in durable <=> Committed(On(c))'
    <3>1. c \in 1 .. nctx /\ i \in ChangesOf(c) /\ On(c)' = On(c) /\ On(c) \in Conns
      <4>1. c # new /\ c \in 1 .. nctx
        BY <1>1, <1>2, <1>3, <1>4, <2>1
      <4>2. QED
        BY <1>3, <1>5, <2>1, <4>1, ConnOfAssumption DEF On, AtomInv, PlaceInv
    <3>2. QED
      BY <1>8, <2>1, <3>1 DEF AtomInv, DecidedInv
  <2>2. QED
    BY <1>3, <2>1 DEF AtomInv, DecidedInv
<1>10. \A n \in Conns : Stays(n)
  BY <1>8 DEF Stays, Kept, Outcome
<1>11. QED
  BY <1>6, <1>7, <1>9, <1>10, StepsOfAtomic DEF AtomInv

\* A context begins the transaction of a connection that has none.
LEMMA CreateBegunAtomic ==
  ASSUME IInv, AtomInv, NEW b \in Branches, CreateBegun(b)
  PROVE  AtomInv' /\ Atomically
<1>0. PICK c \in Ctx : c = making[b]
  BY CtxRange DEF CreateBegun, IInv, MakingApart
<1>1. /\ c \in 1 .. nctx /\ c \in Ctx /\ c # None /\ key[c] \in Keys /\ On(c) \in Conns
      /\ phase = "active" /\ ~disposed /\ transactional /\ active[On(c)] = None
  BY <1>0, KeyTyped, CtxRange, Numbers DEF CreateBegun, IInv, MakingApart, BusyInv, On
<1>2. /\ tx' = [tx EXCEPT ![c] = c] /\ txState' = [txState EXCEPT ![c] = "open"]
      /\ active' = [active EXCEPT ![On(c)] = c]
      /\ UNCHANGED <<transactional, phase, disposed, todo, nctx, key,
                     nchanges, tracked, flushed, durable>>
  BY <1>0 DEF CreateBegun, uowVars, dataVars, On
<1>t. /\ tx \in [Ctx -> CtxOrNone] /\ active \in [Conns -> CtxOrNone]
      /\ DOMAIN txState = Ctx /\ txState \in [Ctx -> {"none", "open", "committed", "rolledback"}]
      /\ \A d \in 1 .. nctx : d \in Ctx
  BY CtxRange DEF IInv, TypeOK
<1>3. /\ \A d \in Ctx : ChangesOf(d)' = ChangesOf(d) /\ On(d)' = On(d)
      /\ \A d \in Ctx : Begun(d)' <=> Begun(d) \/ d = c
  BY <1>1, <1>2, <1>t DEF ChangesOf, On, Begun
<1>4. \A t \in Ctx : Begun(t) => On(t) # On(c)
  BY <1>1, Numbers DEF AtomInv, PlaceInv
<1>5. PlaceInv'
  <2>1. \A n \in Conns : active'[n] = IF n = On(c) THEN c ELSE active[n]
    BY <1>1, <1>2, <1>t
  <2>2. \A d \in Ctx : tx'[d] = IF d = c THEN c ELSE tx[d]
    BY <1>1, <1>2, <1>t
  <2>3. ASSUME NEW n \in Conns, active'[n] # None
        PROVE  active'[n] <= nctx /\ ConnOf[key[active'[n]]] = n /\ txState'[active'[n]] # "none"
    <3>1. CASE n = On(c)
      BY <1>1, <1>2, <1>t, <2>1, <3>1 DEF On
    <3>2. CASE n # On(c)
      <4>1. active'[n] = active[n] /\ active[n] \in Ctx
        BY <1>t, <2>1, <2>3, <3>2, Numbers
      <4>2. active[n] <= nctx /\ On(active[n]) = n /\ Begun(active[n])
        BY <2>3, <4>1 DEF AtomInv, PlaceInv
      <4>3. QED
        BY <1>3, <4>1, <4>2 DEF On, Begun
    <3>3. QED
      BY <3>1, <3>2
  <2>4. \A d \in 1 .. nctx : tx'[d] # None => tx'[d] <= nctx /\ ConnOf[key[tx'[d]]] = On(d)
    BY <1>1, <1>2, <1>t, <2>2 DEF AtomInv, PlaceInv, On
  <2>5. QED
    <3>1. /\ \A d \in Ctx : d > nctx => ChangesOf(d)' = {} /\ ~Begun(d)'
          /\ \A d \in 1 .. nctx : key'[d] \in Keys
      <4>1. \A d \in Ctx : d > nctx => d # c
        BY <1>1, CtxRange, Numbers DEF IInv, TypeOK
      <4>2. QED
        BY <1>2, <1>3, <4>1 DEF AtomInv, PlaceInv
    <3>2. ASSUME NEW t \in Ctx, Begun(t)'
          PROVE  active'[On(t)] = t
      <4>1. CASE t = c
        BY <1>1, <2>1, <4>1
      <4>2. CASE t # c
        <5>1. Begun(t) /\ active[On(t)] = t /\ On(t) # On(c)
          <6>1. Begun(t)
            BY <1>3, <3>2, <4>2
          <6>2. QED
            BY <1>1, <1>4, <6>1 DEF AtomInv, PlaceInv
        <5>2. t \in 1 .. nctx
          BY <5>1, CtxRange, Numbers DEF AtomInv, PlaceInv, IInv, TypeOK
        <5>3. On(t) \in Conns
          BY <5>2, ConnOfAssumption DEF On, AtomInv, PlaceInv
        <5>4. QED
          BY <2>1, <5>1, <5>3
      <4>3. QED
        BY <4>1, <4>2
    <3>3. \A t, u \in Ctx : Begun(t)' /\ Begun(u)' /\ On(t) = On(u) => t = u
      BY <3>2
    <3>4. QED
      BY <1>2, <1>3, <2>3, <2>4, <3>1, <3>2, <3>3 DEF AtomInv, PlaceInv, On, Begun
<1>6. OnceInv'
  BY <1>2, <1>3 DEF AtomInv, OnceInv
<1>7. \A n \in Conns : MadeOn(n)' = MadeOn(n) /\ ~Committed(n) /\ ~Committed(n)'
  BY <1>1, <1>2, <1>t DEF MadeOn, Committed, AtomInv, DecidedInv
<1>8. DecidedInv'
  <2>1. \A d \in 1 .. nctx : On(d) \in Conns
    BY ConnOfAssumption DEF On, AtomInv, PlaceInv
  <2>2. \A d \in 1 .. nctx : \A i \in ChangesOf(d)' : i \in durable <=> Committed(On(d))'
    BY <1>1, <1>2, <1>3, <1>7, <1>t, <2>1 DEF AtomInv, DecidedInv, On
  <2>3. QED
    BY <1>1, <1>2, <1>3, <2>2, <1>t DEF AtomInv, DecidedInv, On
<1>9. \A n \in Conns : Stays(n)
  BY <1>2, <1>7 DEF Stays, Kept, Outcome
<1>10. QED
  BY <1>5, <1>6, <1>8, <1>9, StepsOfAtomic DEF AtomInv

\* A change is made in one place.
LEMMA MakeChangeAtomic ==
  ASSUME IInv, AtomInv, NEW b \in Branches, MakeChange(b)
  PROVE  AtomInv' /\ Atomically
<1>0. PICK c \in Ctx : c = holds[b]
  BY Numbers DEF MakeChange, IInv, TypeOK
<1> DEFINE new == nchanges + 1
<1>1. /\ c \in 1 .. nctx /\ phase = "active" /\ ~disposed
  BY <1>0, CtxRange DEF MakeChange, CanStep, IInv, CachedInv, IsCached
<1>2. /\ nchanges' = new /\ new \in Change /\ nchanges \in Nat /\ 1 .. nchanges' = (1 .. nchanges) \cup {new}
      /\ new \notin 1 .. nchanges
      /\ tracked' = [tracked EXCEPT ![c] = @ \cup {new}]
      /\ UNCHANGED <<transactional, phase, disposed, todo, nctx, key, tx, txState, active,
                     flushed, durable>>
  BY <1>0, MaxChangesAssumption
     DEF MakeChange, uowVars, ctxVars, regVars, Change, IInv, TypeOK
<1>t. tracked \in [Ctx -> SUBSET Change] /\ \A d \in 1 .. nctx : d \in Ctx
  BY CtxRange DEF IInv, TypeOK
<1> HIDE DEF new
<1>3. PICK i \in Change : i = new
  BY <1>2
<1>4. \A d \in Ctx : /\ ChangesOf(d)' = IF d = c THEN ChangesOf(d) \cup {i} ELSE ChangesOf(d)
                     /\ On(d)' = On(d) /\ (Begun(d)' <=> Begun(d))
  BY <1>2, <1>3, <1>t DEF ChangesOf, On, Begun
<1>5. i \notin durable /\ \A d \in Ctx : i \notin ChangesOf(d)
  BY <1>2, <1>3 DEF AtomInv, OnceInv
<1>6. PlaceInv'
  <2>1. \A d \in Ctx : d > nctx => d # c
    BY <1>1, CtxRange, Numbers DEF IInv, TypeOK
  <2>2. QED
    BY <1>2, <1>4, <2>1 DEF AtomInv, PlaceInv, On, Begun
<1>7. OnceInv'
  <2>1. durable \subseteq 1 .. nchanges' /\ \A d \in Ctx : ChangesOf(d)' \subseteq 1 .. nchanges'
    BY <1>2, <1>3, <1>4 DEF AtomInv, OnceInv
  <2>2. ASSUME NEW d \in Ctx, NEW e \in Ctx, ChangesOf(d)' \cap ChangesOf(e)' # {}
        PROVE  On(d) = On(e)
    BY <1>4, <1>5, <2>2 DEF AtomInv, OnceInv
  <2>3. QED
    BY <1>2, <1>4, <2>1, <2>2 DEF AtomInv, OnceInv
<1>8. \A n \in Conns : ~Committed(n) /\ ~Committed(n)'
  BY <1>1, <1>2, <1>t DEF Committed, AtomInv, DecidedInv
<1>9. DecidedInv'
  <2>1. \A d \in 1 .. nctx : On(d) \in Conns
    BY ConnOfAssumption DEF On, AtomInv, PlaceInv
  <2>2. transactional => \A d \in 1 .. nctx : \A j \in ChangesOf(d)' : j \notin durable
    BY <1>4, <1>5, <1>8, <1>t, <2>1 DEF AtomInv, DecidedInv
  <2>3. QED
    BY <1>1, <1>2, <1>4, <1>8, <1>t, <2>1, <2>2 DEF AtomInv, DecidedInv, On
<1>10. ASSUME NEW n \in Conns
       PROVE  Makes(n) \/ Stays(n)
  <2>1. Outcome(n) = "open" /\ Outcome(n)' = "open"
    BY <1>1, <1>2, <1>8 DEF Outcome
  <2>2. \A j : j \in MadeOn(n)' <=> j \in MadeOn(n) \/ (transactional /\ On(c) = n /\ j = i)
    BY <1>1, <1>2, <1>4, <1>t, InMade DEF On
  <2>3. i \notin MadeOn(n)
    BY <1>5, <1>t, InMade
  <2>4. Kept(n)' = Kept(n)
    BY <1>2, <1>5, <2>2 DEF Kept
  <2>5. CASE transactional /\ On(c) = n
    <3>1. MadeOn(n)' = MadeOn(n) \cup {i}
      BY <2>2, <2>5
    <3>2. QED
      BY <2>1, <2>3, <2>4, <3>1 DEF Makes
  <2>6. CASE ~(transactional /\ On(c) = n)
    <3>1. MadeOn(n)' = MadeOn(n)
      BY <2>2, <2>6
    <3>2. QED
      BY <2>1, <2>4, <3>1 DEF Stays
  <2>7. QED
    BY <2>5, <2>6
<1>11. QED
  BY <1>6, <1>7, <1>9, <1>10, StepsOfAtomic DEF AtomInv

\* A save moves the changes of a context into the transaction of its connection.
LEMMA FlushAtomic ==
  ASSUME IInv, AtomInv, NEW c \in Ctx, IsCached(c), Flush(c), phase \in {"active", "saving"},
         UNCHANGED <<transactional, phase, disposed, nctx, key, tx, txState, active, nchanges>>
  PROVE  AtomInv' /\ Atomically
<1>1. c \in 1 .. nctx
  BY CtxRange DEF IInv, CachedInv, IsCached
<1>t. /\ tracked \in [Ctx -> SUBSET Change] /\ flushed \in [Ctx -> SUBSET Change]
      /\ \A d \in 1 .. nctx : d \in Ctx
  BY CtxRange DEF IInv, TypeOK
<1>o. \A d \in Ctx : On(d)' = On(d) /\ (Begun(d)' <=> Begun(d))
  BY DEF On, Begun
<1>p. \A d \in 1 .. nctx : On(d) \in Conns
  BY ConnOfAssumption DEF On, AtomInv, PlaceInv
<1>n. \A n \in Conns : ~Committed(n) /\ ~Committed(n)'
  BY <1>t DEF Committed, AtomInv, DecidedInv
<1>2. CASE transactional
  <2>1. PICK t \in Ctx : t = tx[c] /\ t \in 1 .. nctx /\ On(t) = On(c) /\ Begun(t)
    <3>1. IsOpen(tx[c])
      BY <1>2 DEF IInv, CachedInv, IsCached
    <3>2. tx[c] \in 1 .. nctx /\ tx[c] \in Ctx /\ On(tx[c]) = On(c) /\ Begun(tx[c])
      BY <1>1, <3>1, CtxRange, Numbers DEF AtomInv, PlaceInv, IsOpen, IInv, TypeOK
    <3>3. QED
      BY <3>2
  <2>2. /\ tracked' = [tracked EXCEPT ![c] = {}]
        /\ flushed' = [flushed EXCEPT ![t] = flushed[t] \cup tracked[c]]
        /\ durable' = durable
    BY <2>1, Numbers DEF Flush
  <2>3. \A d \in Ctx : /\ tracked'[d] = IF d = c THEN {} ELSE tracked[d]
                       /\ flushed'[d] = IF d = t THEN flushed[d] \cup tracked[c] ELSE flushed[d]
    BY <1>t, <2>2
  <2>4. ASSUME NEW d \in Ctx, NEW i \in ChangesOf(d)'
        PROVE  i \in ChangesOf(d) \/ (d = t /\ i \in ChangesOf(c))
    BY <2>3, <2>4 DEF ChangesOf
  <2>5. ASSUME NEW d \in Ctx, NEW i \in ChangesOf(d)
        PROVE  i \in ChangesOf(d)' \/ (d = c /\ i \in ChangesOf(t)')
    BY <2>3, <2>5 DEF ChangesOf
  <2>6. PlaceInv'
    <3>1. \A d \in Ctx : d > nctx => ChangesOf(d)' = {}
      <4>1. ~(t > nctx)
        BY <2>1, Numbers DEF IInv, TypeOK
      <4>2. QED
        BY <2>4, <4>1 DEF AtomInv, PlaceInv
    <3>2. QED
      BY <1>o, <3>1 DEF AtomInv, PlaceInv, On, Begun
  <2>7. OnceInv'
    <3>1. \A d \in Ctx : ChangesOf(d)' \subseteq 1 .. nchanges
      BY <2>4 DEF AtomInv, OnceInv
    <3>2. ASSUME NEW d \in Ctx, NEW e \in Ctx, NEW i \in ChangesOf(d)', i \in ChangesOf(e)'
          PROVE  On(d) = On(e)
      <4>1. PICK d1 \in Ctx : On(d1) = On(d) /\ i \in ChangesOf(d1)
        BY <2>1, <2>4, <3>2
      <4>2. PICK e1 \in Ctx : On(e1) = On(e) /\ i \in ChangesOf(e1)
        BY <2>1, <2>4, <3>2
      <4>3. QED
        BY <4>1, <4>2 DEF AtomInv, OnceInv
    <3>3. \A d \in Ctx : flushed'[d] # {} => Begun(d)
      BY <2>1, <2>3 DEF AtomInv, OnceInv
    <3>4. QED
      BY <1>o, <2>2, <3>1, <3>2, <3>3 DEF AtomInv, OnceInv
  <2>8. DecidedInv'
    <3>1. ASSUME NEW d \in 1 .. nctx, NEW i \in ChangesOf(d)'
          PROVE  i \notin durable
      <4>1. i \in ChangesOf(d) \/ i \in ChangesOf(c)
        BY <1>t, <2>4
      <4>2. QED
        BY <1>1, <1>2, <1>n, <1>p, <4>1 DEF AtomInv, DecidedInv
    <3>2. QED
      BY <1>2, <1>n, <1>o, <1>p, <1>t, <2>2, <3>1 DEF AtomInv, DecidedInv
  <2>9. ASSUME NEW n \in Conns
        PROVE  MadeOn(n)' = MadeOn(n)
    <3>1. \A i : i \in MadeOn(n)' => i \in MadeOn(n)
      BY <1>1, <1>t, <2>1, <2>4, InMade DEF On
    <3>2. \A i : i \in MadeOn(n) => i \in MadeOn(n)'
      BY <1>1, <1>t, <2>1, <2>5, InMade DEF On
    <3>3. QED
      BY <3>1, <3>2
  <2>10. \A n \in Conns : Stays(n)
    BY <1>n, <2>2, <2>9 DEF Stays, Kept, Outcome
  <2>11. QED
    BY <2>6, <2>7, <2>8, <2>10, StepsOfAtomic DEF AtomInv
<1>3. CASE ~transactional
  <2>1. /\ tracked' = [tracked EXCEPT ![c] = {}]
        /\ flushed' = flushed /\ durable' = durable \cup tracked[c]
    BY <1>3 DEF Flush, IInv, CachedInv
  <2>2. \A d \in Ctx : ChangesOf(d)' \subseteq ChangesOf(d)
    BY <1>t, <2>1 DEF ChangesOf
  <2>3. PlaceInv'
    BY <1>o, <2>2 DEF AtomInv, PlaceInv, On, Begun
  <2>4. OnceInv'
    <3>1. durable' \subseteq 1 .. nchanges
      BY <2>1 DEF AtomInv, OnceInv, ChangesOf
    <3>2. QED
      BY <1>o, <2>1, <2>2, <3>1 DEF AtomInv, OnceInv
  <2>5. DecidedInv'
    BY <1>3, <1>o DEF AtomInv, DecidedInv, Begun
  <2>6. \A n \in Conns : MadeOn(n) = {} /\ MadeOn(n)' = {}
    BY <1>3 DEF MadeOn
  <2>7. \A n \in Conns : Stays(n)
    BY <1>n, <2>6 DEF Stays, Kept, Outcome
  <2>8. QED
    BY <2>3, <2>4, <2>5, <2>7, StepsOfAtomic DEF AtomInv
<1>4. QED
  BY <1>2, <1>3

\* A commit decides the one connection of its transaction; a lost answer gives up the others.
LEMMA CommitAtomic ==
  ASSUME IInv, AtomInv, CommitNext \/ CommitAnswerLost
  PROVE  AtomInv' /\ Atomically
<1>1. /\ UNCHANGED <<transactional, disposed, nctx, key, tx, active, nchanges, tracked, flushed>>
      /\ phase = "committing" /\ ~disposed
  BY DEF CommitNext, CommitAnswerLost, IInv, TrackedInv, ctxVars, regVars
<1>2. PICK t \in todo : /\ Commit(t)
                        /\ \/ phase' = "committing" /\ todo' = todo \ {t}
                           \/ phase' = "failed"
  BY <1>1 DEF CommitNext, CommitAnswerLost
<1>t. /\ t \in Ctx /\ txState \in [Ctx -> {"none", "open", "committed", "rolledback"}]
      /\ \A d \in 1 .. nctx : d \in Ctx
      /\ \A d \in Ctx : tracked[d] = {} /\ ChangesOf(d) = flushed[d]
  BY <1>1, <1>2, CtxRange DEF IInv, TypeOK, TrackedInv, ChangesOf
<1>3. /\ txState[t] = "open" /\ Begun(t) /\ transactional
      /\ durable' = durable \cup flushed[t]
      /\ \A d \in Ctx : txState'[d] = IF d = t THEN "committed" ELSE txState[d]
  BY <1>1, <1>2, <1>t DEF Commit, AtomInv, DecidedInv, Begun
<1>4. t \in 1 .. nctx /\ On(t) \in Conns
  <2>1. t \in 1 .. nctx
    BY <1>t, <1>3, CtxRange, Numbers DEF AtomInv, PlaceInv, IInv, TypeOK
  <2>2. QED
    BY <2>1, ConnOfAssumption DEF On, AtomInv, PlaceInv
<1>5. \A d \in Ctx : /\ ChangesOf(d)' = ChangesOf(d) /\ On(d)' = On(d)
                     /\ (Begun(d)' <=> Begun(d))
  BY <1>1, <1>3 DEF ChangesOf, On, Begun
<1>6. PlaceInv'
  <2>1. \A n \in Conns : active[n] # None => active[n] \in Ctx
    BY Numbers DEF IInv, TypeOK
  <2>2. \A n \in Conns : active[n] # None => txState'[active[n]] # "none"
    BY <1>5, <2>1 DEF AtomInv, PlaceInv, Begun
  <2>3. QED
    BY <1>1, <1>5, <1>t, <2>2 DEF AtomInv, PlaceInv, On, Begun
<1>7. OnceInv'
  <2>1. durable' \subseteq 1 .. nchanges
    BY <1>3, <1>t DEF AtomInv, OnceInv
  <2>2. QED
    BY <1>1, <1>5, <2>1 DEF AtomInv, OnceInv
<1>8. \A n \in Conns : Committed(n)' <=> Committed(n) \/ n = On(t)
  BY <1>1, <1>3, <1>4, <1>t DEF Committed, On
<1>9. ~Committed(On(t))
  BY <1>3, <1>t DEF Committed, AtomInv, PlaceInv, Begun, On
<1>10. \A c \in Ctx : \A i \in ChangesOf(c) : On(c) = On(t) <=> i \in flushed[t]
  <2> SUFFICES ASSUME NEW c \in Ctx, NEW i \in ChangesOf(c)
               PROVE  On(c) = On(t) <=> i \in flushed[t]
    OBVIOUS
  <2>1. Begun(c)
    BY <1>t DEF AtomInv, OnceInv
  <2>2. On(c) = On(t) => c = t
    BY <1>3, <1>t, <2>1 DEF AtomInv, PlaceInv
  <2>3. i \in flushed[t] => ChangesOf(c) \cap ChangesOf(t) # {}
    BY <1>t
  <2>4. QED
    BY <1>t, <2>2, <2>3 DEF AtomInv, OnceInv
<1>11. DecidedInv'
  <2>1. \A d \in 1 .. nctx : On(d) \in Conns
    BY ConnOfAssumption DEF On, AtomInv, PlaceInv
  <2>2. ASSUME NEW d \in 1 .. nctx, NEW i \in ChangesOf(d)
        PROVE  i \in durable' <=> Committed(On(d))'
    <3>1. i \in durable <=> Committed(On(d))
      BY <1>3 DEF AtomInv, DecidedInv
    <3>2. On(d) = On(t) <=> i \in flushed[t]
      BY <1>10, <1>t
    <3>3. Committed(On(d))' <=> Committed(On(d)) \/ On(d) = On(t)
      BY <1>5, <1>8, <1>t, <2>1
    <3>4. QED
      BY <1>3, <3>1, <3>2, <3>3
  <2>3. \A d \in 1 .. nctx : \A i \in ChangesOf(d)' : i \in durable' <=> Committed(On(d))'
    BY <1>5, <1>t, <2>2
  <2>4. \A d \in Ctx : /\ txState'[d] = "committed" => phase' \in {"committing", "succeeded", "failed"}
                       /\ txState'[d] = "rolledback" => disposed'
    BY <1>1, <1>2, <1>3 DEF AtomInv, DecidedInv
  <2>5. phase' = "committing" => \A d \in todo' : txState'[d] = "open"
    <3>1. todo \subseteq Ctx /\ \A d \in todo : txState[d] = "open"
      BY <1>1 DEF IInv, TypeOK, AtomInv, DecidedInv
    <3>2. QED
      BY <1>2, <1>3, <3>1
  <2>6. QED
    BY <1>1, <1>3, <2>3, <2>4, <2>5 DEF DecidedInv
<1>12. ASSUME NEW n \in Conns
       PROVE  Commits(n) \/ Aborts(n) \/ Stays(n)
  <2>1. \A i : i \in MadeOn(n)' <=> i \in MadeOn(n)
    BY <1>1, <1>5, <1>t, InMade DEF On
  <2>2. MadeOn(n)' = MadeOn(n)
    BY <2>1
  <2>3. ASSUME NEW i \in MadeOn(n)
        PROVE  n = On(t) <=> i \in flushed[t]
    <3>1. PICK c \in 1 .. nctx : On(c) = n /\ i \in ChangesOf(c)
      BY <2>3, InMade DEF On
    <3>2. QED
      BY <1>10, <1>t, <3>1
  <2>4. CASE n = On(t)
    <3>1. Kept(n)' = MadeOn(n)
      BY <1>3, <2>2, <2>3, <2>4 DEF Kept
    <3>2. Outcome(n) = "open" /\ Outcome(n)' = "committed"
      BY <1>1, <1>8, <1>9, <2>4 DEF Outcome
    <3>3. QED
      BY <2>2, <3>1, <3>2 DEF Commits
  <2>5. CASE n # On(t)
    <3>1. Kept(n)' = Kept(n)
      BY <1>3, <2>2, <2>3, <2>5 DEF Kept
    <3>2. Committed(n)' <=> Committed(n)
      BY <1>8, <2>5
    <3>3. QED
      BY <1>1, <1>2, <2>2, <3>1, <3>2 DEF Aborts, Stays, Outcome
  <2>6. QED
    BY <2>4, <2>5
<1>13. QED
  BY <1>6, <1>7, <1>11, <1>12, StepsOfAtomic DEF AtomInv

\* When every transaction is committed nothing is left; a call that throws gives up
\* the connections that are not committed.
LEMMA CompleteEndsAtomic ==
  ASSUME IInv, AtomInv, CompleteSucceeds \/ CompleteFails
  PROVE  AtomInv' /\ Atomically
<1>1. /\ UNCHANGED <<transactional, disposed, nctx, key, tx, txState, active,
                     nchanges, tracked, flushed, durable>>
      /\ phase \in {"saving", "committing"} /\ ~disposed
      /\ \/ phase = "committing" /\ todo = {} /\ phase' = "succeeded"
         \/ phase' = "failed"
  BY DEF CompleteSucceeds, CompleteFails, IInv, TrackedInv, ctxVars, regVars, dataVars
<1>t. \A d \in 1 .. nctx : d \in Ctx
  BY CtxRange DEF IInv
<1>2. \A n \in Conns : MadeOn(n)' = MadeOn(n) /\ (Committed(n)' <=> Committed(n))
  BY <1>1 DEF MadeOn, Committed
<1>3. PlaceInv' /\ OnceInv'
  BY <1>1 DEF AtomInv, PlaceInv, OnceInv, On, Begun, ChangesOf
<1>4. DecidedInv'
  <2>1. \A d \in 1 .. nctx : On(d) \in Conns
    BY ConnOfAssumption DEF On, AtomInv, PlaceInv
  <2>2. transactional => \A d \in 1 .. nctx : \A i \in ChangesOf(d) :
                           i \in durable <=> Committed(On(d))'
    BY <1>1, <2>1 DEF AtomInv, DecidedInv, On, Committed
  <2>3. QED
    BY <1>1, <2>2 DEF AtomInv, DecidedInv, On, Begun, ChangesOf
<1>5. ASSUME NEW n \in Conns
      PROVE  Commits(n) \/ Aborts(n) \/ Stays(n)
  <2>1. CASE phase' = "failed"
    BY <1>1, <1>2, <2>1 DEF Aborts, Stays, Kept, Outcome
  <2>2. CASE phase' # "failed"
    <3>1. \A i \in Change : i <= nchanges => i \in durable
      BY <1>1, <2>2 DEF IInv, ChangesInv
    <3>2. MadeOn(n) \subseteq durable
      <4>1. ASSUME NEW i \in MadeOn(n)
            PROVE  i \in durable
        <5>1. PICK c \in 1 .. nctx : i \in ChangesOf(c)
          BY InMade
        <5>2. i \in 1 .. nchanges
          BY <1>t, <5>1 DEF AtomInv, OnceInv
        <5>3. i \in Change /\ i <= nchanges
          BY <5>2, MaxChangesAssumption DEF Change, IInv, TypeOK
        <5>4. QED
          BY <3>1, <5>3
      <4>2. QED
        BY <4>1
    <3>3. QED
      BY <1>1, <1>2, <2>2, <3>2 DEF Commits, Stays, Kept, Outcome
  <2>3. QED
    BY <2>1, <2>2
<1>6. QED
  BY <1>3, <1>4, <1>5, StepsOfAtomic DEF AtomInv

\* What is not committed when the unit of work is disposed is given up.
LEMMA DisposeAtomic ==
  ASSUME IInv, AtomInv, DisposeUow
  PROVE  AtomInv' /\ Atomically
<1>1. /\ UNCHANGED <<transactional, phase, todo, nctx, key, tx,
                     nchanges, tracked, flushed, durable>>
      /\ ~disposed /\ disposed' /\ phase \in {"active", "succeeded", "failed"}
  BY DEF DisposeUow, dataVars
<1>t. /\ txState \in [Ctx -> {"none", "open", "committed", "rolledback"}]
      /\ \A d \in 1 .. nctx : d \in Ctx
  BY CtxRange DEF IInv, TypeOK
<1>2. \A d \in Ctx : /\ txState'[d] = "committed" <=> txState[d] = "committed"
                     /\ txState'[d] = "none" <=> txState[d] = "none"
  BY <1>t DEF DisposeUow
<1>3. active' = active \/ active' = [n \in Conns |-> None]
  BY DEF DisposeUow
<1>4. \A n \in Conns : MadeOn(n)' = MadeOn(n) /\ (Committed(n)' <=> Committed(n))
  BY <1>1, <1>2, <1>t DEF MadeOn, Committed
<1>5. \A d \in Ctx : /\ ChangesOf(d)' = ChangesOf(d) /\ On(d)' = On(d)
                     /\ (Begun(d)' <=> Begun(d))
  BY <1>1, <1>2 DEF ChangesOf, On, Begun
<1>6. PlaceInv'
  <2>1. \A n \in Conns : active'[n] # None => active'[n] = active[n]
    BY <1>3
  <2>2. \A n \in Conns : active'[n] # None =>
          active'[n] <= nctx /\ ConnOf[key[active'[n]]] = n /\ txState'[active'[n]] # "none"
    <3> SUFFICES ASSUME NEW n \in Conns, active'[n] # None
                 PROVE  active'[n] <= nctx /\ ConnOf[key[active'[n]]] = n
                        /\ txState'[active'[n]] # "none"
      OBVIOUS
    <3>1. active'[n] = active[n] /\ active[n] \in Ctx
      BY <2>1, Numbers DEF IInv, TypeOK
    <3>2. active[n] <= nctx /\ On(active[n]) = n /\ Begun(active[n])
      BY <3>1 DEF AtomInv, PlaceInv
    <3>3. QED
      BY <1>2, <3>1, <3>2 DEF On, Begun
  <2>3. QED
    BY <1>1, <1>5, <1>t, <2>2 DEF AtomInv, PlaceInv, On, Begun
<1>7. OnceInv'
  BY <1>1, <1>5 DEF AtomInv, OnceInv
<1>8. DecidedInv'
  <2>1. \A d \in 1 .. nctx : On(d) \in Conns
    BY ConnOfAssumption DEF On, AtomInv, PlaceInv
  <2>2. transactional => \A d \in 1 .. nctx : \A i \in ChangesOf(d)' :
                           i \in durable <=> Committed(On(d))'
    BY <1>4, <1>5, <1>t, <2>1 DEF AtomInv, DecidedInv
  <2>3. QED
    BY <1>1, <1>2, <1>5, <2>2 DEF AtomInv, DecidedInv
<1>9. \A n \in Conns : Aborts(n) \/ Stays(n)
  BY <1>1, <1>4 DEF Aborts, Stays, Kept, Outcome
<1>10. QED
  BY <1>6, <1>7, <1>8, <1>9, StepsOfAtomic DEF AtomInv

-----------------------------------------------------------------------------
LEMMA BranchAtomic ==
  ASSUME IInv, AtomInv, NEW b \in Branches, BranchStep(b)
  PROVE  AtomInv' /\ Atomically
<1>t. /\ TypeOK /\ tx \in [Ctx -> CtxOrNone] /\ nctx \in CtxOrNone
      /\ ~transactional => \A c \in Ctx : tx[c] = None
  BY DEF IInv, TypeOK, CachedInv
<1>1. ASSUME NEW k \in Keys, GetCached(b, k)
      PROVE  AtomInv' /\ Atomically
  BY <1>t, <1>1, QuietAtomic DEF GetCached, uowVars, ctxVars, regVars, dataVars
<1>2. ASSUME NEW k \in Keys, GetNew(b, k)
      PROVE  AtomInv' /\ Atomically
  BY <1>t, <1>2, ResolveAtomic DEF GetNew, CanStep, uowVars, dataVars
<1>3. ASSUME NEW k \in Keys, CreateStart(b, k)
      PROVE  AtomInv' /\ Atomically
  BY <1>t, <1>3, ResolveAtomic DEF CreateStart, CanStep, uowVars, regVars, dataVars
<1>4. CASE CreateShared(b)
  BY <1>t, <1>4, QuietAtomic DEF CreateShared, uowVars, ctxVars, dataVars
<1>5. CASE CreateFails(b)
  <2>1. making[b] \in Ctx
    BY <1>t, <1>5, CtxRange DEF CreateFails, IInv, MakingApart
  <2>2. QED
    BY <1>t, <1>5, <2>1, QuietAtomic DEF CreateFails, uowVars, regVars, dataVars
<1>6. CASE SaveNow(b)
  <2>1. holds[b] \in Ctx /\ IsCached(holds[b]) /\ phase = "active"
    BY <1>6, Numbers DEF SaveNow, CanStep, IInv, TypeOK, CachedInv
  <2>2. Flush(holds[b]) /\ UNCHANGED <<transactional, phase, disposed, nctx, key, tx,
                                       txState, active, nchanges>>
    BY <1>6 DEF SaveNow, uowVars, ctxVars, regVars
  <2>3. QED
    BY <2>1, <2>2, FlushAtomic
<1>7. QED
  BY <1>1, <1>2, <1>3, <1>4, <1>5, <1>6, CreateBegunAtomic, MakeChangeAtomic DEF BranchStep

LEMMA StepAtomic ==
  ASSUME IInv, AtomInv, [Next]_vars
  PROVE  AtomInv' /\ Atomically
<1>t. tx \in [Ctx -> CtxOrNone] /\ nctx \in CtxOrNone
  BY DEF IInv, TypeOK
<1>1. CASE CompleteStart
  BY <1>t, <1>1, QuietAtomic DEF CompleteStart, ctxVars, regVars, dataVars
<1>2. CASE SaveNext
  <2>1. PICK c \in todo : Flush(c)
    BY <1>2 DEF SaveNext
  <2>2. c \in Ctx /\ IsCached(c) /\ phase = "saving"
    BY <1>2 DEF SaveNext, IInv, TypeOK, TrackedInv
  <2>3. UNCHANGED <<transactional, phase, disposed, nctx, key, tx, txState, active, nchanges>>
    BY <1>2 DEF SaveNext, ctxVars, regVars
  <2>4. QED
    BY <2>1, <2>2, <2>3, FlushAtomic
<1>3. CASE CommitStart
  <2>1. \A t \in todo' : txState[t] = "open"
    <3> SUFFICES ASSUME transactional, NEW n \in Conns, active[n] # None
                 PROVE  txState[active[n]] = "open"
      BY <1>3 DEF CommitStart, OpenTxs
    <3>1. active[n] \in Ctx /\ Begun(active[n])
      BY Numbers DEF IInv, TypeOK, AtomInv, PlaceInv
    <3>2. phase = "saving" /\ ~disposed
      BY <1>3 DEF CommitStart, IInv, TrackedInv
    <3>3. QED
      BY <3>1, <3>2 DEF AtomInv, DecidedInv, Begun, IInv, TypeOK
  <2>2. QED
    BY <1>t, <1>3, <2>1, QuietAtomic DEF CommitStart, ctxVars, regVars, dataVars
<1>4. CASE UNCHANGED vars
  BY <1>t, <1>4, QuietAtomic DEF vars
<1>5. QED
  BY <1>1, <1>2, <1>3, <1>4, BranchAtomic, CommitAtomic, CompleteEndsAtomic, DisposeAtomic
  DEF Next, CompleteStep

\* On each of its connections a transactional unit of work commits all the changes made
\* there or none, once, whatever begin, save or commit threw and whichever answer of a
\* commit was lost.
THEOREM CommitsAtomically == ASSUME OwnConnections PROVE Spec => ImplementsAtomicCommit
<1>1. Init => AtomInv /\ \A n \in Conns : Atomic(n)!Init
  BY InitAtomic
<1>2. IInv /\ AtomInv /\ [Next]_vars => AtomInv'
  BY StepAtomic
<1>3. IInv /\ IInv' /\ AtomInv /\ AtomInv' /\ [Next]_vars =>
        [\A n \in Conns : [Atomic(n)!Next]_(Atomic(n)!vars)]_vars
  BY StepAtomic DEF Atomically
<1>4. QED
  BY <1>1, <1>2, <1>3, SpecIInv, PTL DEF Spec, ImplementsAtomicCommit

=============================================================================

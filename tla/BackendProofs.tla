---------------------------- MODULE BackendProofs ----------------------------
(***************************************************************************)
(* Proofs about Token, for any callers, lifetime and number of tokens, and *)
(* about ExecutingService, for every number of starts and every set of     *)
(* callbacks, with or without executions that throw.                       *)
(***************************************************************************)
EXTENDS Token, ExecutingService, FiniteSetTheorems, TLAPS

-----------------------------------------------------------------------------
(* Token                                                                   *)

TokenInv == TypeOK /\ OneRequest

LEMMA InitToken == Init => TokenInv
<1> SUFFICES ASSUME Init
             PROVE  TokenInv
  OBVIOUS
<1> USE MaxTokensAssumption, LifetimeAssumption, NoTaskAssumption
<1>1. None \in TokenOrNone /\ 0 \in TokenOrNone /\ 0 \in 0 .. Sliding /\ 0 \in 0 .. Lifetime
  BY DEF TokenOrNone, None, Sliding
<1>2. TypeOK
  BY <1>1 DEF Init, TypeOK, Stage
<1>3. OneRequest
  BY DEF Init, OneRequest
<1>4. QED
  BY <1>2, <1>3 DEF TokenInv

\* The end of a call: only the semaphore is left to look at.
LEMMA EndTyped ==
  ASSUME TypeOK, NEW k \in Task, End(k), UNCHANGED slides
  PROVE  /\ pc' \in [Task -> Stage] /\ attempt' \in [Task -> {1, 2}]
         /\ token' \in [Task -> TokenOrNone] /\ slides' \in [Task -> BOOLEAN]
         /\ rejected' \in [Task -> TokenOrNone]
         /\ \A j \in Task : pc'[j] = IF j = k THEN "idle" ELSE pc[j]
  BY MaxTokensAssumption DEF TypeOK, End, Goto, Stage, TokenOrNone, None

LEMMA AccessTyped ==
  ASSUME TypeOK, Access
  PROVE  cached' \in TokenOrNone /\ sliding' \in BOOLEAN /\ idle' \in 0 .. Sliding
  BY LifetimeAssumption DEF TypeOK, Access, Sliding

LEMMA StepToken == TokenInv /\ [Next]_vars => TokenInv'
<1> SUFFICES ASSUME TypeOK, OneRequest, [Next]_vars
             PROVE  TypeOK' /\ OneRequest'
  BY DEF TokenInv
<1>a. /\ pc \in [Task -> Stage] /\ attempt \in [Task -> {1, 2}]
      /\ token \in [Task -> TokenOrNone] /\ slides \in [Task -> BOOLEAN]
      /\ rejected \in [Task -> TokenOrNone] /\ holder \in Task \cup {NoTask}
      /\ cached \in TokenOrNone /\ sliding \in BOOLEAN /\ idle \in 0 .. Sliding
      /\ issued \in TokenOrNone /\ age \in [Tokens -> 0 .. Lifetime]
  BY DEF TypeOK
<1>1. ASSUME NEW c \in Unary \cup Streaming, Start(c)
      PROVE  TypeOK' /\ OneRequest'
  <2>1. pc' \in [Task -> Stage]
    BY <1>1, <1>a DEF Start, Stage
  <2>2. \A k \in Task : pc'[k] = "requesting" <=> pc[k] = "requesting"
    BY <1>1, <1>a DEF Start
  <2>3. QED
    BY <1>1, <1>a, <2>1, <2>2 DEF Start, TypeOK, OneRequest, cacheVars, serverVars
<1>2. ASSUME NEW k \in Task, Look(k)
      PROVE  TypeOK' /\ OneRequest'
  <2>1. pc' \in [Task -> Stage] /\ token' \in [Task -> TokenOrNone]
    BY <1>2, <1>a DEF Look, Goto, Stage
  <2>2. OneRequest'
    BY <1>2, <1>a DEF Look, Goto, OneRequest
  <2>3. QED
    BY <1>2, <1>a, <2>1, <2>2, AccessTyped DEF Look, TypeOK, serverVars
<1>3. ASSUME NEW k \in Task, LookAgain(k)
      PROVE  TypeOK' /\ OneRequest'
  <2>1. pc' \in [Task -> Stage] /\ token' \in [Task -> TokenOrNone] /\ holder' \in Task \cup {NoTask}
    BY <1>3, <1>a DEF LookAgain, Goto, Stage
  <2>2. OneRequest'
    BY <1>3, <1>a, NoTaskAssumption DEF LookAgain, Goto, OneRequest
  <2>3. QED
    BY <1>3, <1>a, <2>1, <2>2, AccessTyped DEF LookAgain, TypeOK, serverVars
<1>4. ASSUME NEW k \in Task, Requested(k)
      PROVE  TypeOK' /\ OneRequest'
  <2>1. issued + 1 \in TokenOrNone
    BY <1>4, <1>a, MaxTokensAssumption DEF Requested, TokenOrNone
  <2>2. OneRequest'
    BY <1>4, <1>a, NoTaskAssumption DEF Requested, Goto, OneRequest
  <2>3. QED
    BY <1>4, <1>a, <2>1, <2>2 DEF Requested, Goto, Stage, TypeOK, cacheVars
<1>5. ASSUME NEW k \in Task, RequestFails(k)
      PROVE  TypeOK' /\ OneRequest'
  <2>1. OneRequest'
    BY <1>5, <1>a, NoTaskAssumption, EndTyped DEF RequestFails, OneRequest
  <2>2. QED
    BY <1>5, <1>a, <2>1, EndTyped DEF RequestFails, TypeOK, cacheVars, serverVars
<1>6. ASSUME NEW k \in Task, Commit(k)
      PROVE  TypeOK' /\ OneRequest'
  <2>1. idle' \in 0 .. Sliding
    BY <1>6, LifetimeAssumption DEF Commit, Sliding
  <2>2. OneRequest'
    BY <1>6, <1>a DEF Commit, Goto, OneRequest
  <2>3. QED
    BY <1>6, <1>a, <2>1, <2>2 DEF Commit, Goto, Stage, TypeOK, serverVars
<1>7. ASSUME NEW k \in Task, Answered(k)
      PROVE  TypeOK' /\ OneRequest'
  <2>1. OneRequest'
    BY <1>7, <1>a, EndTyped DEF Answered, OneRequest
  <2>2. QED
    BY <1>7, <1>a, <2>1, EndTyped DEF Answered, TypeOK, cacheVars, serverVars
<1>8. ASSUME NEW k \in Task, Unauthenticated(k)
      PROVE  TypeOK' /\ OneRequest'
  <2>1. CASE attempt[k] = 1
    BY <1>8, <1>a, <2>1, MaxTokensAssumption
    DEF Unauthenticated, Goto, Stage, TokenOrNone, None, TypeOK, OneRequest, cacheVars, serverVars
  <2>2. CASE attempt[k] # 1
    <3>1. End(k) /\ UNCHANGED slides
      BY <1>8, <2>2 DEF Unauthenticated
    <3>2. OneRequest'
      BY <1>8, <1>a, <3>1, EndTyped DEF Unauthenticated, OneRequest
    <3>3. QED
      BY <1>8, <1>a, <3>1, <3>2, EndTyped DEF Unauthenticated, TypeOK, cacheVars, serverVars
  <2>3. QED
    BY <2>1, <2>2
<1>9. CASE Tick
  <2>1. age' \in [Tokens -> 0 .. Lifetime]
    BY <1>9, <1>a, LifetimeAssumption DEF Tick
  <2>2. idle' \in 0 .. Sliding
    BY <1>9, <1>a, LifetimeAssumption DEF Tick, Sliding
  <2>3. QED
    BY <1>9, <1>a, <2>1, <2>2 DEF Tick, callVars, TypeOK, OneRequest
<1>10. CASE UNCHANGED vars
  BY <1>10, <1>a DEF vars, TypeOK, OneRequest
<1>11. QED
  BY <1>1, <1>2, <1>3, <1>4, <1>5, <1>6, <1>7, <1>8, <1>9, <1>10 DEF Next, Proceed

LEMMA SpecToken == Spec => []TokenInv
  BY InitToken, StepToken, PTL DEF Spec

\* Every reachable state of the token cache and its callers is well typed.
THEOREM TokenTypeCorrect == Spec => []TypeOK
<1>1. TokenInv => TypeOK
  BY DEF TokenInv
<1>2. QED
  BY <1>1, SpecToken, PTL

\* However many calls ask for a token, the identity server has one request at a
\* time, made by the task that holds the semaphore.
THEOREM OneRequestAtATime == Spec => []OneRequest
<1>1. TokenInv => OneRequest
  BY DEF TokenInv
<1>2. QED
  BY <1>1, SpecToken, PTL

\* A burst: a token that is still fresh was fetched since time last passed.  Once one of
\* them is committed every further look hits, so only the task that is requesting can
\* still fetch; before, every fresh token is held by a task about to commit it.
Fresh == {t \in 1 .. issued : age[t] = 0}
Requesting == {k \in Task : pc[k] = "requesting"}
Committing == {k \in Task : pc[k] = "committing"}
Warm == cached # None /\ idle = 0

HeldInv == \A k \in Committing : token[k] # None
ColdInv == Warm \/ \A t \in Fresh : \E k \in Committing : token[k] = t
CountInv == Cardinality(Fresh) + Cardinality(Requesting) <= Cardinality(Task)
BurstInv == HeldInv /\ ColdInv /\ CountInv

\* However many callers there are, their tasks are finitely many.
LEMMA TaskFinite ==
  /\ IsFiniteSet(Task)
  /\ \A S \in SUBSET Task : IsFiniteSet(S) /\ Cardinality(S) \in Nat
                             /\ Cardinality(S) <= Cardinality(Task)
<1>1. IsFiniteSet(Unary) /\ IsFiniteSet(Streaming)
  BY CallersAssumption, FS_Subset
<1>2. IsFiniteSet({"stream"}) /\ IsFiniteSet({"execute"} \cup {"headers"})
  BY FS_Singleton, FS_AddElement
<1>3. {"execute"} \cup {"headers"} = {"execute", "headers"}
  OBVIOUS
<1>4. IsFiniteSet(Unary \X {"execute", "headers"}) /\ IsFiniteSet(Streaming \X {"stream"})
  BY <1>1, <1>2, <1>3, FS_Product
<1>5. IsFiniteSet(Task)
  BY <1>4, FS_Union DEF Task
<1>6. QED
  BY <1>5, FS_Subset, FS_CardinalityType

LEMMA FreshFinite ==
  ASSUME TypeOK
  PROVE  IsFiniteSet(Fresh) /\ Cardinality(Fresh) \in Nat
<1>1. issued \in Nat
  BY MaxTokensAssumption DEF TypeOK, TokenOrNone
<1>2. IsFiniteSet(1 .. issued)
  BY <1>1, FS_Interval
<1>3. Fresh \in SUBSET (1 .. issued)
  BY DEF Fresh
<1>4. QED
  BY <1>2, <1>3, FS_Subset, FS_CardinalityType

\* Before the first commit every fresh token has a task of its own.
LEMMA ColdBound ==
  ASSUME TypeOK, ColdInv, ~Warm
  PROVE  Cardinality(Fresh) <= Cardinality(Committing)
<1> DEFINE by == [t \in Fresh |-> CHOOSE k \in Committing : token[k] = t]
<1>1. \A t \in Fresh : by[t] \in Committing /\ token[by[t]] = t
  BY DEF ColdInv
<1>2. by \in Injection(Fresh, Committing)
  BY <1>1 DEF Injection, IsInjective
<1>3. IsFiniteSet(Committing)
  BY TaskFinite DEF Committing
<1>4. QED
  BY <1>2, <1>3, FS_Injection

\* A step after which a look hits, or that leaves the fresh tokens with the tasks that
\* are about to commit them, while nobody begins or ends a request.
LEMMA QuietKeeps ==
  ASSUME BurstInv, Requesting' = Requesting, UNCHANGED <<issued, age>>,
         \A k \in Committing' : token'[k] # None,
         \/ Warm'
         \/ /\ Warm => Warm'
            /\ \A k \in Committing : k \in Committing' /\ token'[k] = token[k]
  PROVE  BurstInv'
<1>1. Fresh' = Fresh
  BY DEF Fresh
<1>2. ColdInv'
  BY <1>1 DEF BurstInv, ColdInv
<1>3. QED
  BY <1>1, <1>2 DEF BurstInv, HeldInv, CountInv

LEMMA StepBurst == TokenInv /\ BurstInv /\ [Next]_vars => BurstInv'
<1> SUFFICES ASSUME TypeOK, OneRequest, BurstInv, [Next]_vars
             PROVE  BurstInv'
  BY DEF TokenInv
<1>a. /\ pc \in [Task -> Stage] /\ token \in [Task -> TokenOrNone]
      /\ slides \in [Task -> BOOLEAN]
      /\ cached \in TokenOrNone /\ sliding \in BOOLEAN /\ idle \in Nat
      /\ issued \in Nat /\ age \in [Tokens -> 0 .. Lifetime]
  BY MaxTokensAssumption, LifetimeAssumption DEF TypeOK, TokenOrNone, Sliding
<1>h. Warm => Hit
  BY LifetimeAssumption DEF Warm, Hit, Sliding
<1>b. \A k \in Committing : token[k] # None
  BY DEF BurstInv, HeldInv
<1>1. ASSUME NEW c \in Unary \cup Streaming, Start(c)
      PROVE  BurstInv'
  <2>1. Requesting' = Requesting /\ Committing' = Committing
    BY <1>1, <1>a DEF Start, Requesting, Committing
  <2>2. QED
    BY <1>1, <1>b, <2>1, QuietKeeps DEF Start, cacheVars, serverVars, Warm
<1>2. ASSUME NEW k \in Task, Look(k)
      PROVE  BurstInv'
  <2>1. Requesting' = Requesting /\ Committing' = Committing /\ k \notin Committing
    BY <1>2, <1>a DEF Look, Goto, Requesting, Committing
  <2>2. \A j \in Committing : token'[j] = token[j]
    BY <1>2, <1>a, <2>1 DEF Look, Committing
  <2>3. Warm => Warm'
    BY <1>2 DEF Look, Access, Warm
  <2>4. QED
    BY <1>2, <1>b, <2>1, <2>2, <2>3, QuietKeeps DEF Look, serverVars
<1>3. ASSUME NEW k \in Task, LookAgain(k)
      PROVE  BurstInv'
  <2>1. CASE Hit
    <3>1. Requesting' = Requesting /\ Committing' = Committing \cup {k}
      BY <1>3, <1>a, <2>1 DEF LookAgain, Goto, Requesting, Committing
    <3>2. cached # None /\ token' = [token EXCEPT ![k] = cached]
      BY <1>3, <2>1 DEF LookAgain, Hit
    <3>3. \A j \in Committing' : token'[j] # None
      BY <1>a, <1>b, <3>1, <3>2 DEF Committing
    <3>4. Warm'
      BY <1>3, <2>1, <3>2 DEF LookAgain, Access, Warm
    <3>5. QED
      BY <1>3, <3>1, <3>3, <3>4, QuietKeeps DEF LookAgain, serverVars
  <2>2. CASE ~Hit
    <3>1. /\ Requesting' \subseteq Task /\ Committing' = Committing /\ Committing \subseteq Task
          /\ Requesting' \cap Committing = {}
      BY <1>3, <1>a, <2>2 DEF LookAgain, Goto, Requesting, Committing
    <3>2. Fresh' = Fresh /\ (Warm' <=> Warm) /\ token' = token
      BY <1>3, <2>2 DEF LookAgain, Access, serverVars, Fresh, Warm
    <3>3. Cardinality(Fresh) <= Cardinality(Committing)
      BY <1>h, <2>2, ColdBound DEF BurstInv
    <3>4. Cardinality(Committing) + Cardinality(Requesting') <= Cardinality(Task)
      <4>1. Cardinality(Requesting' \cup Committing)
              = Cardinality(Requesting') + Cardinality(Committing) - Cardinality({})
        BY <3>1, TaskFinite, FS_Union
      <4>2. /\ Cardinality(Requesting' \cup Committing) <= Cardinality(Task)
            /\ Cardinality(Requesting') \in Nat /\ Cardinality(Committing) \in Nat
        BY <3>1, TaskFinite
      <4>3. QED
        BY <4>1, <4>2, FS_EmptySet
    <3>5. CountInv'
      <4>1. /\ Cardinality(Fresh) \in Nat /\ Cardinality(Requesting') \in Nat
            /\ Cardinality(Committing) \in Nat /\ Cardinality(Task) \in Nat
        BY <3>1, FreshFinite, TaskFinite
      <4>2. QED
        BY <3>2, <3>3, <3>4, <4>1 DEF CountInv
    <3>6. QED
      BY <3>1, <3>2, <3>5 DEF BurstInv, HeldInv, ColdInv
  <2>3. QED
    BY <2>1, <2>2
<1>4. ASSUME NEW k \in Task, Requested(k)
      PROVE  BurstInv'
  <2>1. /\ Requesting' = Requesting \ {k} /\ k \in Requesting
        /\ Committing' = Committing \cup {k} /\ k \notin Committing
    BY <1>4, <1>a DEF Requested, Goto, Requesting, Committing
  <2>2. /\ token' = [token EXCEPT ![k] = issued + 1] /\ issued + 1 # None
        /\ (Warm' <=> Warm) /\ Fresh' \subseteq Fresh \cup {issued + 1}
    BY <1>4, <1>a DEF Requested, cacheVars, Warm, Fresh, None
  <2>3. HeldInv'
    BY <1>a, <1>b, <2>1, <2>2 DEF HeldInv, Committing
  <2>4. ColdInv'
    <3>1. token'[k] = issued + 1 /\ \A j \in Committing : token'[j] = token[j]
      BY <1>a, <2>1, <2>2 DEF Committing
    <3>2. QED
      BY <2>1, <2>2, <3>1 DEF BurstInv, ColdInv
  <2>5. CountInv'
    <3>1. /\ IsFiniteSet(Fresh) /\ Cardinality(Fresh) \in Nat
          /\ IsFiniteSet(Requesting) /\ Cardinality(Requesting) \in Nat
          /\ Cardinality(Task) \in Nat
      BY FreshFinite, TaskFinite DEF Requesting
    <3>2. Cardinality(Requesting') = Cardinality(Requesting) - 1
      BY <2>1, <3>1, FS_RemoveElement
    <3>3. /\ IsFiniteSet(Fresh \cup {issued + 1})
          /\ Cardinality(Fresh \cup {issued + 1}) <= Cardinality(Fresh) + 1
      <4> DEFINE new == issued + 1
      <4>1. /\ IsFiniteSet(Fresh \cup {new})
            /\ Cardinality(Fresh \cup {new}) =
                 IF new \in Fresh THEN Cardinality(Fresh) ELSE Cardinality(Fresh) + 1
        <5> HIDE DEF new
        <5>1. QED
          BY <3>1, FS_AddElement
      <4>2. QED
        BY <3>1, <4>1
    <3>4. Cardinality(Fresh') <= Cardinality(Fresh \cup {issued + 1})
      BY <2>2, <3>3, FS_Subset
    <3>5. Cardinality(Fresh') \in Nat /\ Cardinality(Fresh \cup {issued + 1}) \in Nat
      BY <2>2, <3>3, FS_Subset, FS_CardinalityType
    <3>6. QED
      BY <3>1, <3>2, <3>3, <3>4, <3>5 DEF BurstInv, CountInv
  <2>6. QED
    BY <2>3, <2>4, <2>5 DEF BurstInv
<1>5. ASSUME NEW k \in Task, RequestFails(k)
      PROVE  BurstInv'
  <2>1. /\ Requesting' = Requesting \ {k} /\ k \in Requesting
        /\ Committing' = Committing /\ k \notin Committing
    BY <1>5, <1>a DEF RequestFails, End, Goto, Requesting, Committing
  <2>2. Fresh' = Fresh /\ (Warm' <=> Warm) /\ \A j \in Committing : token'[j] = token[j]
    BY <1>5, <1>a, <2>1
       DEF RequestFails, End, cacheVars, serverVars, Warm, Fresh, Committing
  <2>3. CountInv'
    <3>1. /\ IsFiniteSet(Requesting) /\ Cardinality(Requesting) \in Nat
          /\ Cardinality(Task) \in Nat /\ Cardinality(Fresh) \in Nat
      BY FreshFinite, TaskFinite DEF Requesting
    <3>2. Cardinality(Requesting') = Cardinality(Requesting) - 1
      BY <2>1, <3>1, FS_RemoveElement
    <3>3. QED
      BY <2>2, <3>1, <3>2 DEF BurstInv, CountInv
  <2>4. QED
    BY <1>b, <2>1, <2>2, <2>3 DEF BurstInv, HeldInv, ColdInv
<1>6. ASSUME NEW k \in Task, Commit(k)
      PROVE  BurstInv'
  <2>1. Requesting' = Requesting /\ Committing' = Committing \ {k} /\ k \in Committing
    BY <1>6, <1>a DEF Commit, Goto, Requesting, Committing
  <2>2. Warm'
    BY <1>6, <1>b, <2>1 DEF Commit, Warm
  <2>3. \A j \in Committing' : token'[j] # None
    BY <1>6, <1>b, <2>1 DEF Commit
  <2>4. QED
    BY <1>6, <2>1, <2>2, <2>3, QuietKeeps DEF Commit, serverVars
<1>7. ASSUME NEW k \in Task, Answered(k) \/ Unauthenticated(k)
      PROVE  BurstInv'
  <2>1. /\ Requesting' = Requesting /\ Committing' = Committing /\ k \notin Committing
    BY <1>7, <1>a DEF Answered, Unauthenticated, End, Goto, Requesting, Committing
  <2>2. \A j \in Committing : token'[j] = token[j]
    BY <1>7, <1>a, <2>1 DEF Answered, Unauthenticated, End, Committing
  <2>3. QED
    BY <1>7, <1>b, <2>1, <2>2, QuietKeeps
       DEF Answered, Unauthenticated, cacheVars, serverVars, Warm
<1>8. CASE Tick
  <2>1. Requesting' = Requesting /\ Committing' = {} /\ Requesting \subseteq Task
    BY <1>8 DEF Tick, callVars, Requesting, Committing
  <2>2. \A t \in 1 .. issued : age'[t] # 0
    <3>1. issued \in 0 .. MaxTokens
      BY DEF TypeOK, TokenOrNone
    <3>2. QED
      BY <1>8, <1>a, <3>1, LifetimeAssumption, MaxTokensAssumption DEF Tick, Tokens
  <2>3. Fresh' = {}
    BY <1>8, <2>2 DEF Tick, Fresh
  <2>4. CountInv'
    BY <2>1, <2>3, TaskFinite, FS_EmptySet DEF CountInv
  <2>5. QED
    BY <2>1, <2>3, <2>4 DEF BurstInv, HeldInv, ColdInv
<1>9. CASE UNCHANGED vars
  <2>1. Requesting' = Requesting /\ Committing' = Committing /\ (Warm' <=> Warm)
    BY <1>9 DEF vars, Requesting, Committing, Warm
  <2>2. QED
    BY <1>9, <1>b, <2>1, QuietKeeps DEF vars
<1>10. QED
  BY <1>1, <1>2, <1>3, <1>4, <1>5, <1>6, <1>7, <1>8, <1>9 DEF Next, Proceed

\* A burst of calls fetches at most one token per task: although the entry is committed
\* after the semaphore is released, no task fetches again before time has passed.
THEOREM BurstFetchesOncePerTask == Spec => []BurstBounded
<1>1. Init => TokenInv /\ BurstInv
  <2> SUFFICES ASSUME Init
               PROVE  BurstInv
    BY InitToken
  <2>1. Requesting = {} /\ Committing = {} /\ Fresh = {}
    BY DEF Init, Requesting, Committing, Fresh
  <2>2. QED
    BY <2>1, TaskFinite, FS_EmptySet DEF BurstInv, HeldInv, ColdInv, CountInv
<1>2. TokenInv /\ BurstInv /\ [Next]_vars => TokenInv' /\ BurstInv'
  BY StepToken, StepBurst
<1>3. TokenInv /\ BurstInv => BurstBounded
  <2> SUFFICES ASSUME TypeOK, CountInv
               PROVE  BurstBounded
    BY DEF TokenInv, BurstInv
  <2>1. Cardinality(Requesting) \in Nat /\ Cardinality(Task) \in Nat
    BY TaskFinite DEF Requesting
  <2>2. QED
    BY <2>1, FreshFinite DEF CountInv, BurstBounded, Fresh
<1>4. QED
  BY <1>1, <1>2, <1>3, PTL DEF Spec

-----------------------------------------------------------------------------
(* ExecutingService                                                        *)

USE MaxStartsAssumption, NobodyAssumption DEF CallbackStage

LEMMA NoneIsTyped == NoStart \in StartOrNone /\ 0 \in StartOrNone
  BY DEF NoStart, StartOrNone

\* A callback executes exactly while it holds the semaphore.  NoOverlap alone is not
\* inductive: a callback that enters must know that nobody executes when the
\* semaphore is free.
HolderExecutes == \A i \in Callbacks : at[i] = "executing" <=> turn = i

ServiceInv == ServiceTypeOK /\ HolderExecutes

LEMMA InitService == ServiceInit => ServiceInv
<1> SUFFICES ASSUME ServiceInit
             PROVE  ServiceInv
  OBVIOUS
<1>1. ServiceTypeOK
  BY NoneIsTyped DEF ServiceInit, ServiceTypeOK
<1>2. HolderExecutes
  BY DEF ServiceInit, HolderExecutes
<1>3. QED
  BY <1>1, <1>2 DEF ServiceInv

\* A step that moves callback i between stages other than "executing" and leaves the
\* semaphore alone.
LEMMA MoveKeeps ==
  ASSUME ServiceInv, NEW i \in Callbacks, NEW stage \in CallbackStage \ {"executing"},
         at[i] # "executing", MoveTo(i, stage), UNCHANGED turn
  PROVE  at' \in [Callbacks -> CallbackStage] /\ turn' \in Callbacks \cup {Nobody} /\ HolderExecutes'
  BY DEF ServiceInv, ServiceTypeOK, HolderExecutes, MoveTo

\* The callback that executes passes the semaphore on, or frees it.
LEMMA ReleaseKeeps ==
  ASSUME ServiceInv, NEW i \in Callbacks, NEW stage \in CallbackStage \ {"executing"},
         at[i] = "executing", Release(i, stage)
  PROVE  at' \in [Callbacks -> CallbackStage] /\ turn' \in Callbacks \cup {Nobody} /\ HolderExecutes'
<1>1. turn = i /\ at \in [Callbacks -> CallbackStage] /\ \A j \in Callbacks : at[j] = "executing" => j = i
  BY DEF ServiceInv, ServiceTypeOK, HolderExecutes
<1>2. CASE turn' = Nobody /\ MoveTo(i, stage)
  BY <1>1, <1>2 DEF MoveTo, HolderExecutes
<1>3. ASSUME NEW j \in Callbacks, at[j] = "waiting", turn' = j,
             at' = [at EXCEPT ![i] = stage, ![j] = "executing"]
      PROVE  at' \in [Callbacks -> CallbackStage] /\ turn' \in Callbacks \cup {Nobody} /\ HolderExecutes'
  BY <1>1, <1>3 DEF HolderExecutes
<1>4. QED
  BY <1>2, <1>3 DEF Release

LEMMA StepService == ServiceInv /\ [ServiceNext]_serviceVars => ServiceInv'
<1> SUFFICES ASSUME ServiceInv, [ServiceNext]_serviceVars
             PROVE  ServiceInv'
  OBVIOUS
<1> USE DEF ServiceInv
<1>1. CASE StartAsync
  BY <1>1 DEF StartAsync, Starts, StartOrNone, stopVars, callbackVars, ServiceTypeOK, HolderExecutes
<1>2. CASE StopAsync
  BY <1>2 DEF StopAsync, NoStart, Starts, StartOrNone, startVars, callbackVars, ServiceTypeOK, HolderExecutes
<1>3. CASE Dispose
  BY <1>3 DEF Dispose, startVars, callbackVars, ServiceTypeOK, HolderExecutes
<1>4. ASSUME NEW s \in Starts, StartTimer(s)
      PROVE  ServiceInv'
  BY <1>4 DEF StartTimer, Starts, StartOrNone, callbackVars, ServiceTypeOK, HolderExecutes
<1>5. ASSUME NEW s \in Starts, Collect(s)
      PROVE  ServiceInv'
  BY <1>5 DEF Collect, startVars, callbackVars, ServiceTypeOK, HolderExecutes
<1>6. ASSUME NEW s \in Starts, NEW i \in Callbacks, Fire(s, i)
      PROVE  ServiceInv'
  <2>1. at' \in [Callbacks -> CallbackStage] /\ turn' \in Callbacks \cup {Nobody} /\ HolderExecutes'
    BY <1>6, MoveKeeps DEF Fire
  <2>2. s \in StartOrNone
    BY DEF Starts, StartOrNone
  <2>3. QED
    BY <1>6, <2>1, <2>2 DEF Fire, startVars, stopVars, ServiceTypeOK
<1>7. ASSUME NEW i \in Callbacks, Enter(i)
      PROVE  ServiceInv'
  <2>1. at' \in [Callbacks -> CallbackStage] /\ turn' \in Callbacks \cup {Nobody} /\ HolderExecutes'
    <3>1. CASE at[i] = "entering" /\ turn = Nobody /\ MoveTo(i, "executing") /\ turn' = i
      BY <3>1 DEF MoveTo, ServiceTypeOK, HolderExecutes
    <3>2. CASE at[i] = "entering" /\ MoveTo(i, "waiting") /\ UNCHANGED turn
      BY <3>2, MoveKeeps
    <3>3. CASE at[i] = "entering" /\ MoveTo(i, "failing") /\ UNCHANGED turn
      BY <3>3, MoveKeeps
    <3>4. QED
      BY <1>7, <3>1, <3>2, <3>3 DEF Enter
  <2>2. QED
    BY <1>7, <2>1 DEF Enter, startVars, stopVars, ServiceTypeOK
<1>8. ASSUME NEW i \in Callbacks, TimeOut(i) \/ CancelWait(i) \/ Failed(i)
      PROVE  ServiceInv'
  <2>1. at' \in [Callbacks -> CallbackStage] /\ turn' \in Callbacks \cup {Nobody} /\ HolderExecutes'
    BY <1>8, MoveKeeps DEF TimeOut, CancelWait, Failed
  <2>2. QED
    BY <1>8, <2>1, NoneIsTyped DEF TimeOut, CancelWait, Failed, startVars, stopVars, ServiceTypeOK
<1>9. ASSUME NEW i \in Callbacks, ExecuteEnds(i) \/ ExecuteThrows(i)
      PROVE  ServiceInv'
  <2>1. at' \in [Callbacks -> CallbackStage] /\ turn' \in Callbacks \cup {Nobody} /\ HolderExecutes'
    BY <1>9, ReleaseKeeps DEF ExecuteEnds, ExecuteThrows
  <2>2. QED
    BY <1>9, <2>1, NoneIsTyped DEF ExecuteEnds, ExecuteThrows, startVars, stopVars, ServiceTypeOK
<1>10. ASSUME NEW i \in Callbacks, FailedThrows(i)
       PROVE  ServiceInv'
  BY <1>10 DEF FailedThrows, startVars, stopVars, callbackVars, ServiceTypeOK, HolderExecutes
<1>11. CASE UNCHANGED serviceVars
  BY <1>11 DEF serviceVars, ServiceTypeOK, HolderExecutes
<1>12. QED
  BY <1>1, <1>2, <1>3, <1>4, <1>5, <1>6, <1>7, <1>8, <1>9, <1>10, <1>11 DEF ServiceNext, Advance

LEMMA SpecService == ServiceSpec => []ServiceInv
  BY InitService, StepService, PTL DEF ServiceSpec

-----------------------------------------------------------------------------
\* Every variable of a scheduled service keeps its type.
THEOREM ServiceTypeCorrect == ServiceSpec => []ServiceTypeOK
<1>1. ServiceInv => ServiceTypeOK
  BY DEF ServiceInv
<1>2. QED
  BY <1>1, SpecService, PTL

\* Two callbacks never execute at once: not the callbacks of one timer, nor those of
\* timers that several calls of StartAsync left firing.
THEOREM ExecutionsNeverOverlap == ServiceSpec => []NoOverlap
<1>1. ServiceInv => NoOverlap
  BY DEF ServiceInv, HolderExecutes, NoOverlap
<1>2. QED
  BY <1>1, SpecService, PTL
=============================================================================

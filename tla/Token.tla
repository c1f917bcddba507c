-------------------------------- MODULE Token --------------------------------
(***************************************************************************)
(* Token.GetToken, a double-checked fetch of an access token into an       *)
(* IMemoryCache, and the gRPC calls of GrpcClientTokenInterceptor.  A unary *)
(* call asks for it twice at once, for the request and for the response    *)
(* headers, and again when the server answers Unauthenticated; a streaming *)
(* call asks once.  Calls come from code that has no access token of its   *)
(* own.                                                                    *)
(*                                                                         *)
(* Tokens are numbered as they are issued.  Time is counted in steps of    *)
(* the margin that GetToken takes off a token's lifetime (60 s).           *)
(***************************************************************************)
EXTENDS Naturals, FiniteSets

CONSTANTS
  Unary,      \* callers of unary methods of one service, one call after another
  Streaming,  \* callers of its streaming methods
  NoTask,
  Lifetime,   \* expires_in
  MaxTokens,  \* bound: tokens issued
  Faults      \* "request": the identity server may fail

ASSUME LifetimeAssumption == Lifetime \in Nat \ {0, 1}
ASSUME MaxTokensAssumption == MaxTokens \in Nat
ASSUME FaultsAssumption == Faults \subseteq {"request"}

ASSUME CallersAssumption == Unary \cap Streaming = {} /\ IsFiniteSet(Unary \cup Streaming)

\* The two tasks of AsyncUnaryCall, ExecuteWithAuthAsync and GetMetadata for the
\* response headers; the one task of a streaming call.
Task == (Unary \X {"execute", "headers"}) \cup (Streaming \X {"stream"})
Execute(c) == <<c, "execute">>

ASSUME NoTaskAssumption == NoTask \notin Task

SlidingInMilliseconds == 0     \* mutant: the seconds are taken for milliseconds
Sliding == Lifetime - 1        \* SlidingExpiration of an entry
Tokens == 1 .. MaxTokens
None == 0
TokenOrNone == 0 .. MaxTokens
Stage == {"idle", "looking", "waiting", "requesting", "committing", "sending"}

VARIABLES
  pc,        \* where each call is; "waiting" for the semaphore
  attempt,   \* 1, or 2 after Unauthenticated
  token,     \* the token the call got
  slides,    \* has the entry it is about to commit a SlidingExpiration
  rejected,  \* the token the server rejected
  holder,    \* the call that holds the semaphore
  cached,    \* the token in the memory cache
  sliding,   \* has its entry a SlidingExpiration
  idle,      \* time since the entry was accessed
  issued,    \* how many tokens the identity server issued
  age        \* their ages

callVars == <<pc, attempt, token, slides, rejected>>
cacheVars == <<cached, sliding, idle>>
serverVars == <<issued, age>>
vars == <<pc, attempt, token, slides, rejected, holder, cached, sliding, idle, issued, age>>

Init ==
  /\ pc = [k \in Task |-> "idle"]
  /\ attempt = [k \in Task |-> 1]
  /\ token = [k \in Task |-> None]
  /\ slides = [k \in Task |-> FALSE]
  /\ rejected = [k \in Task |-> None]
  /\ holder = NoTask
  /\ cached = None /\ sliding = FALSE /\ idle = 0
  /\ issued = 0
  /\ age = [t \in Tokens |-> 0]

-----------------------------------------------------------------------------
(* IMemoryCache                                                             *)

Hit == cached # None /\ (sliding => idle < Sliding)

\* TryGetValue: a hit is an access.
Access == idle' = (IF Hit THEN 0 ELSE idle) /\ UNCHANGED <<cached, sliding>>

-----------------------------------------------------------------------------
(* GetToken                                                                 *)

Goto(k, stage) == pc' = [pc EXCEPT ![k] = stage]

\* The call returns or throws; its locals are gone.
End(k) ==
  /\ Goto(k, "idle")
  /\ attempt' = [attempt EXCEPT ![k] = 1]
  /\ token' = [token EXCEPT ![k] = None]
  /\ rejected' = [rejected EXCEPT ![k] = None]

Start(c) ==
  /\ \A k \in Task : k[1] = c => pc[k] = "idle"
  /\ pc' = [k \in Task |-> IF k[1] = c THEN "looking" ELSE pc[k]]
  /\ UNCHANGED <<attempt, token, slides, rejected, holder, cacheVars, serverVars>>

\* ExecuteWithAuthAsync runs up to its first await before GetMetadata is called.
Called(k) ==
  k[2] = "headers" => pc[Execute(k[1])] # "looking" \/ attempt[Execute(k[1])] = 2

\* GetOrCreateAsync.
Look(k) ==
  /\ pc[k] = "looking" /\ Called(k)
  /\ Access
  /\ IF Hit THEN token' = [token EXCEPT ![k] = cached] /\ Goto(k, "sending")
            ELSE Goto(k, "waiting") /\ UNCHANGED token
  /\ UNCHANGED <<attempt, slides, rejected, holder, serverVars>>

LookAgainUnlocked(k) ==   \* mutant: without the semaphore
  /\ pc[k] = "waiting"
  /\ Access
  /\ IF Hit THEN token' = [token EXCEPT ![k] = cached] /\ Goto(k, "committing")
            ELSE Goto(k, "requesting") /\ UNCHANGED token
  /\ UNCHANGED <<attempt, slides, rejected, holder, serverVars>>

\* The second TryGetValue.  On a hit the factory returns without setting the
\* expiration of its own entry.
LookAgain(k) ==
  /\ pc[k] = "waiting" /\ holder = NoTask
  /\ Access
  /\ IF Hit
     THEN /\ token' = [token EXCEPT ![k] = cached]
          /\ Goto(k, "committing")
          /\ UNCHANGED holder
     ELSE /\ holder' = k
          /\ Goto(k, "requesting")
          /\ UNCHANGED token
  /\ UNCHANGED <<attempt, slides, rejected, serverVars>>

\* The identity server answers; the semaphore is released before the entry is
\* committed.
Requested(k) ==
  /\ pc[k] = "requesting" /\ issued < MaxTokens
  /\ issued' = issued + 1
  /\ token' = [token EXCEPT ![k] = issued + 1]
  /\ slides' = [slides EXCEPT ![k] = TRUE]
  /\ holder' = NoTask
  /\ Goto(k, "committing")
  /\ UNCHANGED <<attempt, rejected, cacheVars, age>>

RequestFailsHolding(k) ==   \* mutant: the semaphore is not released
  /\ pc[k] = "requesting" /\ ("request" \in Faults \/ issued = MaxTokens)
  /\ End(k)
  /\ UNCHANGED <<slides, holder, cacheVars, serverVars>>

\* PostAsync or EnsureSuccessStatusCode throws: no entry is committed, the
\* exception ends the call.
RequestFails(k) ==
  /\ pc[k] = "requesting" /\ ("request" \in Faults \/ issued = MaxTokens)
  /\ holder' = NoTask
  /\ End(k)
  /\ UNCHANGED <<slides, cacheVars, serverVars>>

\* The entry is disposed: it replaces the entry of the cache.
Commit(k) ==
  /\ pc[k] = "committing"
  /\ cached' = token[k] /\ sliding' = slides[k] /\ idle' = 0
  /\ slides' = [slides EXCEPT ![k] = FALSE]
  /\ Goto(k, "sending")
  /\ UNCHANGED <<attempt, token, rejected, holder, serverVars>>

-----------------------------------------------------------------------------
(* ExecuteWithAuthAsync                                                     *)

Expired(t) == age[t] >= Lifetime

\* The server answers, or fails for another reason than the token.  The task for
\* the headers has nothing to send, a streaming call is over whatever the answer.
Answered(k) ==
  /\ pc[k] = "sending"
  /\ k[2] = "execute" => ~Expired(token[k])
  /\ End(k)
  /\ UNCHANGED <<slides, holder, cacheVars, serverVars>>

\* Unauthenticated: GetMetadata and the call once more, and only once.
Unauthenticated(k) ==
  /\ pc[k] = "sending" /\ k[2] = "execute" /\ Expired(token[k])
  /\ IF attempt[k] = 1
     THEN /\ Goto(k, "looking")
          /\ attempt' = [attempt EXCEPT ![k] = 2]
          /\ rejected' = [rejected EXCEPT ![k] = token[k]]
          /\ token' = [token EXCEPT ![k] = None]
     ELSE End(k)
  /\ UNCHANGED <<slides, holder, cacheVars, serverVars>>

-----------------------------------------------------------------------------
\* Time passes while calls await; code that does not await takes none.
Tick ==
  /\ \A k \in Task : pc[k] \notin {"looking", "committing"}
  /\ age' = [t \in Tokens |-> IF t <= issued /\ age[t] < Lifetime THEN age[t] + 1 ELSE age[t]]
  /\ idle' = IF cached # None /\ idle < Sliding THEN idle + 1 ELSE idle
  /\ <<age, idle>>' # <<age, idle>>
  /\ UNCHANGED <<callVars, holder, cached, sliding, issued>>

Proceed(k) ==
  \/ Look(k) \/ LookAgain(k) \/ Requested(k) \/ RequestFails(k) \/ Commit(k)
  \/ Answered(k) \/ Unauthenticated(k)

Next == (\E c \in Unary \cup Streaming : Start(c)) \/ (\E k \in Task : Proceed(k)) \/ Tick

Spec == Init /\ [][Next]_vars

\* Servers answer, and WaitAsync is granted to waiting calls in turn.
Fairness == \A k \in Task : WF_vars(Proceed(k)) /\ SF_vars(LookAgain(k))

-----------------------------------------------------------------------------
(* Properties                                                              *)

TypeOK ==
  /\ pc \in [Task -> Stage]
  /\ attempt \in [Task -> {1, 2}]
  /\ token \in [Task -> TokenOrNone]
  /\ slides \in [Task -> BOOLEAN]
  /\ rejected \in [Task -> TokenOrNone]
  /\ holder \in Task \cup {NoTask}
  /\ cached \in TokenOrNone /\ sliding \in BOOLEAN /\ idle \in 0 .. Sliding
  /\ issued \in TokenOrNone
  /\ age \in [Tokens -> 0 .. Lifetime]

\* The identity server gets one token request at a time, and it is made by the task
\* that holds the semaphore.
OneRequest == \A k \in Task : pc[k] = "requesting" <=> holder = k

\* A burst of calls fetches at most one token per task: the second look may still
\* miss a token whose entry is committed after the semaphore is released, but no
\* task fetches twice.
BurstBounded == Cardinality({t \in 1 .. issued : age[t] = 0}) <= Cardinality(Task)

\* No call waits forever for the semaphore or retries without end, whatever fails.
EveryCallEnds == \A k \in Task : pc[k] # "idle" ~> pc[k] = "idle"

\* "Token expired or invalid, refreshing..." (ExecuteWithAuthAsync): the second
\* attempt does not carry the token the server has just rejected.
RetryRefreshes ==
  \A k \in Task : pc[k] = "sending" /\ attempt[k] = 2 => token[k] # rejected[k]

=============================================================================

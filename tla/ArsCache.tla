------------------------------ MODULE ArsCache ------------------------------
(***************************************************************************)
(* ArsCacheBaseAccessor.GetAsync over a Redis string cache: an unlocked    *)
(* read, then under the semaphore of the cache instance a second read, the *)
(* factory and SetAsync.  Each process has its own instance and semaphore; *)
(* Redis and the source the factory reads are shared.  Application code    *)
(* updates the source and removes the key afterwards.                      *)
(*                                                                         *)
(* A value is the version of the source it was made from; 0 is the default *)
(* value of its type (null, 0, false).                                     *)
(***************************************************************************)
EXTENDS Naturals

CONSTANTS
  Callers,      \* calls of GetAsync
  Processes,    \* processes that share the Redis cache
  ProcessOf,    \* where each call runs
  Keys,
  NoKey,        \* key of a call that has not started
  NoCaller,
  Unborn,       \* keys the source may have no value for at first
  IsReference,  \* is TValue a type whose default is null
  MaxVersion,   \* bound: versions of the source of a key
  MaxGone,      \* bound: removals and expirations of a cached value
  FaultSets     \* what may fail: "read", "write" of Redis throw, "factory" throws

ASSUME ProcessOfAssumption == ProcessOf \in [Callers -> Processes]
ASSUME NoKeyAssumption == NoKey \notin Keys
ASSUME NoCallerAssumption == NoCaller \notin Callers
ASSUME UnbornAssumption == Unborn \subseteq Keys
ASSUME BoundsAssumption == MaxVersion \in Nat \ {0} /\ MaxGone \in Nat
ASSUME FaultSetsAssumption == FaultSets \subseteq SUBSET {"read", "write", "factory"}

Version == 0 .. MaxVersion
Default == 0
Miss == MaxVersion + 1       \* Redis has no such key
Step == {"idle", "missed", "locked", "calling", "setting", "done", "threw"}

VARIABLES
  faults,  \* what fails in this behaviour
  source,  \* the version of each key the factory would read now
  redis,   \* the version Redis holds for a key, or Miss
  holder,  \* the call that holds the semaphore of a process
  pc,      \* where each call is; "missed" waits for the semaphore
  key,     \* the key it was made for
  given,   \* was it given a factory
  value,   \* what it got
  loads,   \* factory calls by which a process made a value of a key to store
  gone     \* cached values removed or expired

callVars == <<pc, key, given, value>>
vars == <<faults, source, redis, holder, pc, key, given, value, loads, gone>>

Init ==
  /\ faults \in FaultSets
  /\ source \in {v \in [Keys -> {Default, 1}] : \A k \in Keys \ Unborn : v[k] = 1}
  /\ redis = [k \in Keys |-> Miss]
  /\ holder = [p \in Processes |-> NoCaller]
  /\ pc = [c \in Callers |-> "idle"]
  /\ key = [c \in Callers |-> NoKey]
  /\ given = [c \in Callers |-> TRUE]
  /\ value = [c \in Callers |-> Default]
  /\ loads = [p \in Processes |-> [k \in Keys |-> 0]]
  /\ gone = [k \in Keys |-> 0]

-----------------------------------------------------------------------------
(* GetValueOrDefaultAsync                                                   *)

HasValueAlways(k) == TRUE   \* mutant: HasValue for every answer

\* Its ConditionalValue: HasValue is `null != value', so a miss of a type that
\* has no null is the type's default value, found.
HasValue(k) == redis[k] # Miss \/ ~IsReference
Found(k) == IF redis[k] = Miss THEN Default ELSE redis[k]

\* GetAsync catches what the read throws and goes on as after a miss.
ReadFails == "read" \in faults

-----------------------------------------------------------------------------
(* GetAsync                                                                 *)

Goto(c, step) == pc' = [pc EXCEPT ![c] = step]

Release(c) == holder' = [holder EXCEPT ![ProcessOf[c]] = NoCaller]

\* The first read, outside the lock.
Get(c, k, f) ==
  /\ pc[c] = "idle"
  /\ key' = [key EXCEPT ![c] = k]
  /\ given' = [given EXCEPT ![c] = f]
  /\ \/ HasValue(k) /\ value' = [value EXCEPT ![c] = Found(k)] /\ Goto(c, "done")
     \/ ~HasValue(k) /\ Goto(c, "missed") /\ UNCHANGED value
     \/ ReadFails /\ Goto(c, "missed") /\ UNCHANGED value
  /\ UNCHANGED <<faults, source, redis, holder, loads, gone>>

Lock(c) ==
  /\ pc[c] = "missed" /\ holder[ProcessOf[c]] = NoCaller
  /\ holder' = [holder EXCEPT ![ProcessOf[c]] = c]
  /\ Goto(c, "locked")
  /\ UNCHANGED <<faults, source, redis, key, given, value, loads, gone>>

Return(c, v) == value' = [value EXCEPT ![c] = v] /\ Goto(c, "done") /\ Release(c)

CanMake(c) == (~HasValue(key[c]) \/ ReadFails) /\ given[c]

ReadAgainSkipped(c) ==   \* mutant: without the second read
  /\ pc[c] = "locked"
  /\ IF given[c] THEN Goto(c, "calling") /\ UNCHANGED <<value, holder>> ELSE Return(c, Default)
  /\ UNCHANGED <<faults, source, redis, key, given, loads, gone>>

\* The second read, under the lock.
ReadAgain(c) ==
  /\ pc[c] = "locked"
  /\ \/ HasValue(key[c]) /\ Return(c, Found(key[c]))
     \/ CanMake(c) /\ Goto(c, "calling") /\ UNCHANGED <<value, holder>>
     \/ (~HasValue(key[c]) \/ ReadFails) /\ ~given[c] /\ Return(c, Default)
  /\ UNCHANGED <<faults, source, redis, key, given, loads, gone>>

\* The factory has read the source; a default value is returned and not stored.
Make(c) ==
  LET v == source[key[c]] IN
  /\ pc[c] = "calling"
  /\ \/ v = Default /\ Return(c, v) /\ UNCHANGED loads
     \/ /\ v # Default
        /\ value' = [value EXCEPT ![c] = v]
        /\ loads' = [loads EXCEPT ![ProcessOf[c]][key[c]] = @ + 1]
        /\ Goto(c, "setting")
        /\ UNCHANGED holder
  /\ UNCHANGED <<faults, source, redis, key, given, gone>>

MakeThrowsHolding(c) ==   \* mutant: the semaphore is not released
  /\ pc[c] = "calling" /\ "factory" \in faults
  /\ Goto(c, "threw")
  /\ UNCHANGED <<faults, source, redis, holder, key, given, value, loads, gone>>

\* The exception of the factory reaches the caller; the semaphore is released.
MakeThrows(c) ==
  /\ pc[c] = "calling" /\ "factory" \in faults
  /\ Goto(c, "threw") /\ Release(c)
  /\ UNCHANGED <<faults, source, redis, key, given, value, loads, gone>>

\* SetAsync; what it throws is logged.
Store(c) ==
  /\ pc[c] = "setting"
  /\ \/ redis' = [redis EXCEPT ![key[c]] = value[c]]
     \/ "write" \in faults /\ UNCHANGED redis
  /\ Goto(c, "done") /\ Release(c)
  /\ UNCHANGED <<faults, source, key, given, value, loads, gone>>

-----------------------------------------------------------------------------
(* The application and Redis                                                *)

\* The application changes what the factory reads.
Update(k) ==
  /\ source[k] < MaxVersion
  /\ source' = [source EXCEPT ![k] = @ + 1]
  /\ UNCHANGED <<faults, redis, holder, callVars, loads, gone>>

\* RemoveAsync of some keys, ClearAsync, or the expiration of a key.
Drop(S) ==
  /\ \A k \in S : redis[k] # Miss /\ gone[k] < MaxGone
  /\ redis' = [k \in Keys |-> IF k \in S THEN Miss ELSE redis[k]]
  /\ gone' = [k \in Keys |-> IF k \in S THEN gone[k] + 1 ELSE gone[k]]
  /\ UNCHANGED <<faults, source, holder, callVars, loads>>

Proceed(c) == Lock(c) \/ ReadAgain(c) \/ Make(c) \/ MakeThrows(c) \/ Store(c)

Next ==
  \/ \E c \in Callers : (\E k \in Keys, f \in BOOLEAN : Get(c, k, f)) \/ Proceed(c)
  \/ \E k \in Keys : Update(k)
  \/ \E S \in SUBSET Keys \ {{}} : Drop(S)

Spec == Init /\ [][Next]_vars

\* Redis and the factory answer, and WaitAsync is granted to waiting calls in turn.
FairSpec == Spec /\ \A c \in Callers : WF_vars(Proceed(c)) /\ SF_vars(Lock(c))

-----------------------------------------------------------------------------
(* Properties                                                              *)

TypeOK ==
  /\ faults \in FaultSets
  /\ source \in [Keys -> Version]
  /\ redis \in [Keys -> Version \cup {Miss}]
  /\ holder \in [Processes -> Callers \cup {NoCaller}]
  /\ pc \in [Callers -> Step]
  /\ key \in [Callers -> Keys \cup {NoKey}]
  /\ given \in [Callers -> BOOLEAN]
  /\ value \in [Callers -> Version]
  /\ loads \in [Processes -> [Keys -> Nat]]
  /\ gone \in [Keys -> 0 .. MaxGone]

\* No stampede: however many calls miss together, a process loads a key once, and
\* once more each time its cached value went away, while Redis does not fail.
LoadsBounded ==
  faults \cap {"read", "write"} = {} =>
    \A p \in Processes, k \in Keys : loads[p][k] <= gone[k] + 1

\* "Factory method to create cache item if not exists" (IArsCache.GetAsync): a
\* call with a factory gets a value the source had, never the default of the
\* type, if the source always has a value.
FindsOrMakes ==
  \A c \in Callers :
    pc[c] = "done" /\ given[c] /\ key[c] \notin Unborn => value[c] # Default

\* No call waits forever for the semaphore, whatever the call before it met, and "this
\* method hides cache provider failures": a call fails only when its factory does.
EveryCallReturns ==
  \A c \in Callers :
    pc[c] = "missed" ~> pc[c] = "done" \/ (pc[c] = "threw" /\ "factory" \in faults)

=============================================================================

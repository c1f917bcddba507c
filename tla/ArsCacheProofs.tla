---------------------------- MODULE ArsCacheProofs ----------------------------
(***************************************************************************)
(* Proofs about ArsCache, for any calls, processes, keys and failures.     *)
(***************************************************************************)
EXTENDS ArsCache, TLAPS

InLock == {"locked", "calling", "setting"}

\* A call is between WaitAsync and Release exactly while it holds the semaphore of
\* its process.
LockInv == \A c \in Callers : pc[c] \in InLock <=> holder[ProcessOf[c]] = c

\* A call that has started has a key.
KeyInv == \A c \in Callers : pc[c] # "idle" => key[c] \in Keys

\* Calls of process p that made a value of k and have not stored it, and those
\* that are about to make one.
Setting(p, k) == \E c \in Callers : ProcessOf[c] = p /\ key[c] = k /\ pc[c] = "setting"
Calling(p, k) == \E c \in Callers : ProcessOf[c] = p /\ key[c] = k /\ pc[c] = "calling"

\* While Redis does not fail: a process that may make a value, or will find none to
\* return, has made no more than the removals so far account for.
LoadsOK(p, k) ==
  /\ loads[p][k] <= gone[k] + 1
  /\ Calling(p, k) => loads[p][k] <= gone[k]
  /\ redis[k] = Miss /\ ~Setting(p, k) => loads[p][k] <= gone[k]

LoadInv ==
  faults \cap {"read", "write"} = {} => \A p \in Processes, k \in Keys : LoadsOK(p, k)

\* With a null to tell a miss from a value, no default value is stored or found.
ValueInv ==
  IsReference =>
    /\ \A k \in Keys : redis[k] # Default /\ (k \notin Unborn => source[k] # Default)
    /\ \A c \in Callers : pc[c] = "setting" => value[c] # Default
    /\ FindsOrMakes

-----------------------------------------------------------------------------
(* Types                                                                    *)

LEMMA InitTyped == Init => TypeOK
<1> SUFFICES ASSUME Init
             PROVE  TypeOK
  OBVIOUS
<1>1. source \in [Keys -> Version]
  BY BoundsAssumption DEF Init, Version, Default
<1>2. QED
  BY <1>1, BoundsAssumption DEF Init, TypeOK, Version, Miss, Default, Step

LEMMA StepTyped == TypeOK /\ KeyInv /\ [Next]_vars => TypeOK'
<1> SUFFICES ASSUME TypeOK, KeyInv, [Next]_vars
             PROVE  TypeOK'
  OBVIOUS
<1> USE BoundsAssumption DEF TypeOK, Step
<1>1. ASSUME NEW c \in Callers, NEW k \in Keys, NEW f \in BOOLEAN, Get(c, k, f)
      PROVE  TypeOK'
  <2>1. Found(k) \in Version
    BY DEF Found, Version, Default, Miss
  <2>2. QED
    BY <1>1, <2>1 DEF Get, Goto
<1>2. ASSUME NEW c \in Callers, Lock(c)
      PROVE  TypeOK'
  BY <1>2, ProcessOfAssumption DEF Lock, Goto
<1>3. ASSUME NEW c \in Callers, ReadAgain(c)
      PROVE  TypeOK'
  <2>1. Found(key[c]) \in Version /\ Default \in Version
    <3>1. key[c] \in Keys
      BY <1>3 DEF ReadAgain, KeyInv
    <3>2. QED
      BY <3>1 DEF Found, Version, Default, Miss
  <2>2. ASSUME NEW v \in Version, Return(c, v)
        PROVE  value' \in [Callers -> Version] /\ pc' \in [Callers -> Step]
               /\ holder' \in [Processes -> Callers \cup {NoCaller}]
    BY <2>2, ProcessOfAssumption DEF Return, Release, Goto
  <2>3. ASSUME Goto(c, "calling"), UNCHANGED <<value, holder>>
        PROVE  value' \in [Callers -> Version] /\ pc' \in [Callers -> Step]
               /\ holder' \in [Processes -> Callers \cup {NoCaller}]
    BY <2>3 DEF Goto
  <2>4. QED
    BY <1>3, <2>1, <2>2, <2>3 DEF ReadAgain
<1>4. ASSUME NEW c \in Callers, Make(c)
      PROVE  TypeOK'
  <2>1. key[c] \in Keys /\ ProcessOf[c] \in Processes
    BY <1>4, ProcessOfAssumption DEF Make, KeyInv
  <2>2. source[key[c]] \in Version
    BY <2>1
  <2>3. [loads EXCEPT ![ProcessOf[c]][key[c]] = loads[ProcessOf[c]][key[c]] + 1]
          \in [Processes -> [Keys -> Nat]]
    BY <2>1
  <2>4. QED
    BY <1>4, <2>1, <2>2, <2>3 DEF Make, Return, Release, Goto
<1>5. ASSUME NEW c \in Callers, MakeThrows(c)
      PROVE  TypeOK'
  BY <1>5, ProcessOfAssumption DEF MakeThrows, Release, Goto
<1>6. ASSUME NEW c \in Callers, Store(c)
      PROVE  TypeOK'
  BY <1>6, ProcessOfAssumption DEF Store, Release, Goto
<1>7. ASSUME NEW k \in Keys, Update(k)
      PROVE  TypeOK'
  BY <1>7 DEF Update, callVars, Version
<1>8. ASSUME NEW S \in SUBSET Keys, Drop(S)
      PROVE  TypeOK'
  BY <1>8 DEF Drop, callVars
<1>9. CASE UNCHANGED vars
  BY <1>9 DEF vars
<1>10. QED
  BY <1>1, <1>2, <1>3, <1>4, <1>5, <1>6, <1>7, <1>8, <1>9 DEF Next, Proceed

-----------------------------------------------------------------------------
(* The semaphores                                                           *)

LEMMA StepLocked == TypeOK /\ LockInv /\ KeyInv /\ [Next]_vars => LockInv' /\ KeyInv'
<1> SUFFICES ASSUME TypeOK, LockInv, KeyInv, [Next]_vars
             PROVE  LockInv' /\ KeyInv'
  OBVIOUS
<1> USE DEF LockInv, KeyInv, InLock
<1>a. pc \in [Callers -> Step] /\ key \in [Callers -> Keys \cup {NoKey}]
      /\ holder \in [Processes -> Callers \cup {NoCaller}]
      /\ ProcessOf \in [Callers -> Processes]
  BY ProcessOfAssumption DEF TypeOK
\* A call that leaves the lock had it, so no other call of its process is inside.
<1>b. ASSUME NEW c \in Callers, pc[c] \in InLock, NEW step \in Step \ InLock,
             step # "idle", Goto(c, step), Release(c), UNCHANGED key
      PROVE  LockInv' /\ KeyInv'
  BY <1>a, <1>b, NoCallerAssumption DEF Goto, Release
<1>c. ASSUME NEW c \in Callers, pc[c] \in InLock, NEW step \in InLock,
             Goto(c, step), UNCHANGED <<holder, key>>
      PROVE  LockInv' /\ KeyInv'
  BY <1>a, <1>c DEF Goto
<1>1. ASSUME NEW c \in Callers, NEW k \in Keys, NEW f \in BOOLEAN, Get(c, k, f)
      PROVE  LockInv' /\ KeyInv'
  BY <1>a, <1>1 DEF Get, Goto
<1>2. ASSUME NEW c \in Callers, Lock(c)
      PROVE  LockInv' /\ KeyInv'
  BY <1>a, <1>2, NoCallerAssumption DEF Lock, Goto
<1>3. ASSUME NEW c \in Callers, ReadAgain(c)
      PROVE  LockInv' /\ KeyInv'
  BY <1>3, <1>b, <1>c DEF ReadAgain, Return, Step
<1>4. ASSUME NEW c \in Callers, Make(c)
      PROVE  LockInv' /\ KeyInv'
  BY <1>4, <1>b, <1>c DEF Make, Return, Step
<1>5. ASSUME NEW c \in Callers, MakeThrows(c)
      PROVE  LockInv' /\ KeyInv'
  BY <1>5, <1>b DEF MakeThrows, Step
<1>6. ASSUME NEW c \in Callers, Store(c)
      PROVE  LockInv' /\ KeyInv'
  BY <1>6, <1>b DEF Store, Step
<1>7. CASE \/ \E k \in Keys : Update(k)
           \/ \E S \in SUBSET Keys \ {{}} : Drop(S)
           \/ UNCHANGED vars
  BY <1>7 DEF Update, Drop, callVars, vars
<1>8. QED
  BY <1>1, <1>2, <1>3, <1>4, <1>5, <1>6, <1>7 DEF Next, Proceed

-----------------------------------------------------------------------------
(* No stampede                                                              *)

LEMMA OneInLock ==
  ASSUME LockInv, NEW c \in Callers, NEW d \in Callers,
         pc[c] \in InLock, pc[d] \in InLock, ProcessOf[c] = ProcessOf[d]
  PROVE  c = d
  BY DEF LockInv

\* A step that neither loads, stores nor removes, and after which no call is about
\* to load that was not before.
LEMMA OthersKeepLoads ==
  ASSUME NEW p, NEW k, LoadsOK(p, k), UNCHANGED <<loads, gone, redis>>,
         Calling(p, k)' => Calling(p, k), Setting(p, k) => Setting(p, k)'
  PROVE  LoadsOK(p, k)'
  BY DEF LoadsOK

LEMMA StepLoads == TypeOK /\ LockInv /\ KeyInv /\ LoadInv /\ [Next]_vars => LoadInv'
<1> SUFFICES ASSUME TypeOK, LockInv, KeyInv, LoadInv, [Next]_vars,
                    faults' \cap {"read", "write"} = {},
                    NEW p \in Processes, NEW k \in Keys
             PROVE  LoadsOK(p, k)'
  BY DEF LoadInv
<1>a. /\ pc \in [Callers -> Step] /\ key \in [Callers -> Keys \cup {NoKey}]
      /\ loads[p][k] \in Nat /\ gone[k] \in Nat
      /\ loads \in [Processes -> [Keys -> Nat]] /\ redis \in [Keys -> Version \cup {Miss}]
      /\ \A c \in Callers : value[c] \in Version
  BY BoundsAssumption DEF TypeOK
<1>b. faults' = faults
  BY DEF Next, Proceed, Get, Lock, ReadAgain, Make, MakeThrows, Store, Update, Drop, vars
<1>c. LoadsOK(p, k) /\ ~ReadFails /\ "write" \notin faults
  BY <1>b DEF LoadInv, ReadFails
\* Call c moves to a step at which it neither makes nor stores.
<1>d. ASSUME NEW c \in Callers, pc[c] # "setting", NEW step \in Step \ {"calling", "setting"},
             Goto(c, step), \A d \in Callers : d # c => key'[d] = key[d],
             UNCHANGED <<loads, gone, redis>>
      PROVE  LoadsOK(p, k)'
  <2>1. Calling(p, k)' => Calling(p, k)
    BY <1>a, <1>d DEF Goto, Calling
  <2>2. Setting(p, k) => Setting(p, k)'
    BY <1>a, <1>d DEF Goto, Setting
  <2>3. QED
    BY <1>c, <1>d, <2>1, <2>2, OthersKeepLoads
<1>1. ASSUME NEW c \in Callers, NEW l \in Keys, NEW f \in BOOLEAN, Get(c, l, f)
      PROVE  LoadsOK(p, k)'
  BY <1>1, <1>a, <1>d DEF Get, Step
<1>2. ASSUME NEW c \in Callers, Lock(c)
      PROVE  LoadsOK(p, k)'
  BY <1>2, <1>a, <1>d DEF Lock, Step
<1>3. ASSUME NEW c \in Callers, ReadAgain(c)
      PROVE  LoadsOK(p, k)'
  <2>1. CASE \E v : Return(c, v)
    BY <1>3, <2>1, <1>a, <1>d DEF ReadAgain, Return, Step
  <2>2. CASE CanMake(c) /\ Goto(c, "calling")
    <3>1. UNCHANGED <<loads, gone, redis, key>> /\ pc[c] = "locked"
      BY <1>3 DEF ReadAgain
    <3>2. redis[key[c]] = Miss
      BY <1>c, <2>2 DEF CanMake, HasValue
    <3>3. Setting(p, k) => Setting(p, k)'
      BY <1>a, <2>2, <3>1 DEF Goto, Setting
    <3>4. CASE ProcessOf[c] = p /\ key[c] = k
      <4>1. ~Setting(p, k)
        BY <3>1, <3>4, OneInLock DEF Setting, InLock
      <4>2. loads[p][k] <= gone[k]
        BY <1>c, <3>2, <3>4, <4>1 DEF LoadsOK
      <4>3. QED
        BY <1>a, <3>1, <4>2 DEF LoadsOK
    <3>5. CASE ~(ProcessOf[c] = p /\ key[c] = k)
      <4>1. Calling(p, k)' => Calling(p, k)
        BY <1>a, <2>2, <3>1, <3>5 DEF Goto, Calling
      <4>2. QED
        BY <1>c, <3>1, <3>3, <4>1, OthersKeepLoads
    <3>6. QED
      BY <3>4, <3>5
  <2>3. QED
    BY <1>3, <2>1, <2>2 DEF ReadAgain
<1>4. ASSUME NEW c \in Callers, Make(c)
      PROVE  LoadsOK(p, k)'
  <2>1. CASE \E v : Return(c, v) /\ UNCHANGED loads
    BY <1>4, <2>1, <1>a, <1>d DEF Make, Return, Step
  <2>2. CASE Goto(c, "setting") /\ loads' = [loads EXCEPT ![ProcessOf[c]][key[c]] = @ + 1]
    <3>1. UNCHANGED <<gone, redis, key>> /\ pc[c] = "calling"
      BY <1>4 DEF Make
    <3>2. CASE ProcessOf[c] = p /\ key[c] = k
      <4>1. loads[p][k] <= gone[k]
        BY <1>c, <3>1, <3>2 DEF LoadsOK, Calling
      <4>2. loads'[p][k] = loads[p][k] + 1
        BY <1>a, <2>2, <3>2
      <4>3. Setting(p, k)'
        BY <1>a, <2>2, <3>1, <3>2 DEF Goto, Setting
      <4>4. ~Calling(p, k)'
        BY <1>a, <2>2, <3>1, <3>2, OneInLock DEF Goto, Calling, InLock
      <4>5. QED
        BY <1>a, <3>1, <4>1, <4>2, <4>3, <4>4 DEF LoadsOK
    <3>3. CASE ~(ProcessOf[c] = p /\ key[c] = k)
      <4>1. loads'[p][k] = loads[p][k]
        BY <1>a, <2>2, <3>3
      <4>2. Calling(p, k)' => Calling(p, k)
        BY <1>a, <2>2, <3>1 DEF Goto, Calling
      <4>3. Setting(p, k) => Setting(p, k)'
        BY <1>a, <2>2, <3>1 DEF Goto, Setting
      <4>4. QED
        BY <1>c, <3>1, <4>1, <4>2, <4>3 DEF LoadsOK
    <3>4. QED
      BY <3>2, <3>3
  <2>3. QED
    BY <1>4, <2>1, <2>2 DEF Make
<1>5. ASSUME NEW c \in Callers, MakeThrows(c)
      PROVE  LoadsOK(p, k)'
  BY <1>5, <1>a, <1>d DEF MakeThrows, Step
<1>6. ASSUME NEW c \in Callers, Store(c)
      PROVE  LoadsOK(p, k)'
  <2>1. /\ redis' = [redis EXCEPT ![key[c]] = value[c]] /\ Goto(c, "done")
        /\ UNCHANGED <<loads, gone, key>> /\ pc[c] = "setting"
    BY <1>6, <1>c DEF Store
  <2>2. Calling(p, k)' => Calling(p, k)
    BY <1>a, <2>1 DEF Goto, Calling
  <2>3. CASE key[c] = k
    <3>1. redis'[k] # Miss
      BY <1>a, <2>1, <2>3, BoundsAssumption DEF Version, Miss
    <3>2. QED
      BY <1>c, <2>1, <2>2, <3>1 DEF LoadsOK
  <2>4. CASE key[c] # k
    <3>1. redis'[k] = redis[k] /\ (Setting(p, k) => Setting(p, k)')
      BY <1>a, <2>1, <2>4 DEF Goto, Setting
    <3>2. QED
      BY <1>c, <2>1, <2>2, <3>1 DEF LoadsOK
  <2>5. QED
    BY <2>3, <2>4
<1>7. ASSUME NEW S \in SUBSET Keys, Drop(S)
      PROVE  LoadsOK(p, k)'
  <2>1. UNCHANGED <<loads, pc, key>>
        /\ IF k \in S THEN gone'[k] = gone[k] + 1 ELSE redis'[k] = redis[k] /\ gone'[k] = gone[k]
    BY <1>7 DEF Drop, callVars
  <2>2. (Calling(p, k)' <=> Calling(p, k)) /\ (Setting(p, k)' <=> Setting(p, k))
    BY <2>1 DEF Calling, Setting
  <2>3. QED
    BY <1>a, <1>c, <2>1, <2>2 DEF LoadsOK
<1>8. CASE UNCHANGED <<callVars, redis, loads, gone>>
  BY <1>8, <1>c DEF callVars, LoadsOK, Calling, Setting
<1>9. QED
  BY <1>1, <1>2, <1>3, <1>4, <1>5, <1>6, <1>7, <1>8 DEF Next, Proceed, Update, vars, callVars

-----------------------------------------------------------------------------
(* Values                                                                   *)

LEMMA StepValues == TypeOK /\ KeyInv /\ ValueInv /\ [Next]_vars => ValueInv'
<1> SUFFICES ASSUME TypeOK, KeyInv, ValueInv, [Next]_vars, IsReference
             PROVE  /\ \A k \in Keys : redis'[k] # Default /\ (k \notin Unborn => source'[k] # Default)
                    /\ \A c \in Callers : pc'[c] = "setting" => value'[c] # Default
                    /\ FindsOrMakes'
  BY DEF ValueInv
<1> DEFINE Stored == \A k \in Keys : redis[k] # Default /\ (k \notin Unborn => source[k] # Default)
           Made == \A c \in Callers : pc[c] = "setting" => value[c] # Default
<1>a. /\ pc \in [Callers -> Step] /\ value \in [Callers -> Version]
      /\ key \in [Callers -> Keys \cup {NoKey}] /\ given \in [Callers -> BOOLEAN]
      /\ source \in [Keys -> Version] /\ redis \in [Keys -> Version \cup {Miss}]
      /\ gone \in [Keys -> 0 .. MaxGone]
  BY DEF TypeOK
<1>b. Stored /\ Made /\ FindsOrMakes
  BY DEF ValueInv
<1>c. \A k \in Keys : HasValue(k) => Found(k) # Default
  BY <1>b DEF HasValue, Found
\* A call returns a value that is not the default, or it has no factory, or its key
\* may have no value.
<1>d. ASSUME NEW c \in Callers, NEW v, value' = [value EXCEPT ![c] = v], Goto(c, "done"),
             \A d \in Callers : d # c => key'[d] = key[d] /\ given'[d] = given[d],
             v # Default \/ ~given'[c] \/ key'[c] \in Unborn
      PROVE  Made' /\ FindsOrMakes'
  BY <1>a, <1>b, <1>d DEF Goto, FindsOrMakes
\* A call goes on to a step at which it neither stores nor has returned.
<1>e. ASSUME NEW c \in Callers, NEW step \in Step \ {"setting", "done"}, Goto(c, step),
             UNCHANGED value, \A d \in Callers : d # c => key'[d] = key[d] /\ given'[d] = given[d]
      PROVE  Made' /\ FindsOrMakes'
  BY <1>a, <1>b, <1>e DEF Goto, FindsOrMakes
<1>1. ASSUME NEW c \in Callers, NEW k \in Keys, NEW f \in BOOLEAN, Get(c, k, f)
      PROVE  Stored' /\ Made' /\ FindsOrMakes'
  <2>1. Stored' /\ \A d \in Callers : d # c => key'[d] = key[d] /\ given'[d] = given[d]
    BY <1>1, <1>a, <1>b DEF Get
  <2>2. CASE HasValue(k) /\ value' = [value EXCEPT ![c] = Found(k)] /\ Goto(c, "done")
    BY <1>c, <1>d, <2>1, <2>2
  <2>3. CASE Goto(c, "missed") /\ UNCHANGED value
    BY <1>e, <2>1, <2>3 DEF Step
  <2>4. QED
    BY <1>1, <2>1, <2>2, <2>3 DEF Get
<1>2. ASSUME NEW c \in Callers, Lock(c)
      PROVE  Stored' /\ Made' /\ FindsOrMakes'
  BY <1>2, <1>b, <1>e DEF Lock, Step
<1>3. ASSUME NEW c \in Callers, ReadAgain(c)
      PROVE  Stored' /\ Made' /\ FindsOrMakes'
  <2>1. Stored' /\ UNCHANGED <<key, given>> /\ key[c] \in Keys
    BY <1>3, <1>b DEF ReadAgain, KeyInv
  <2>2. CASE HasValue(key[c]) /\ Return(c, Found(key[c]))
    BY <1>c, <1>d, <2>1, <2>2 DEF Return
  <2>3. CASE Goto(c, "calling") /\ UNCHANGED <<value, holder>>
    BY <1>e, <2>1, <2>3 DEF Step
  <2>4. CASE ~given[c] /\ Return(c, Default)
    BY <1>d, <2>1, <2>4 DEF Return
  <2>5. QED
    BY <1>3, <2>2, <2>3, <2>4, <2>1 DEF ReadAgain
<1>4. ASSUME NEW c \in Callers, Make(c)
      PROVE  Stored' /\ Made' /\ FindsOrMakes'
  <2>1. Stored' /\ UNCHANGED <<key, given>> /\ key[c] \in Keys
    BY <1>4, <1>b DEF Make, KeyInv
  <2>2. CASE source[key[c]] = Default /\ Return(c, source[key[c]])
    BY <1>b, <1>d, <2>1, <2>2 DEF Return
  <2>3. CASE /\ source[key[c]] # Default
             /\ value' = [value EXCEPT ![c] = source[key[c]]] /\ Goto(c, "setting")
    BY <1>a, <1>b, <2>1, <2>3 DEF Goto, FindsOrMakes
  <2>4. QED
    BY <1>4, <2>1, <2>2, <2>3 DEF Make
<1>5. ASSUME NEW c \in Callers, MakeThrows(c)
      PROVE  Stored' /\ Made' /\ FindsOrMakes'
  BY <1>5, <1>b, <1>e DEF MakeThrows, Step
<1>6. ASSUME NEW c \in Callers, Store(c)
      PROVE  Stored' /\ Made' /\ FindsOrMakes'
  <2>1. /\ pc[c] = "setting" /\ Goto(c, "done") /\ UNCHANGED <<source, key, given, value>>
        /\ UNCHANGED redis \/ redis' = [redis EXCEPT ![key[c]] = value[c]]
    BY <1>6 DEF Store
  <2>2. value[c] # Default /\ value' = [value EXCEPT ![c] = value[c]]
    BY <1>a, <1>b, <2>1
  <2>3. Stored'
    BY <1>a, <1>b, <2>1, <2>2
  <2>4. QED
    BY <1>d, <2>1, <2>2, <2>3
<1>7. ASSUME NEW k \in Keys, Update(k)
      PROVE  Stored' /\ Made' /\ FindsOrMakes'
  <2>1. \A l \in Keys : source[l] # Default => source'[l] # Default
    BY <1>7, <1>a, BoundsAssumption DEF Update, Version, Default
  <2>2. UNCHANGED <<redis, pc, key, given, value>>
    BY <1>7 DEF Update, callVars
  <2>3. QED
    BY <1>b, <2>1, <2>2 DEF FindsOrMakes
<1>8. ASSUME NEW S \in SUBSET Keys, Drop(S)
      PROVE  Stored' /\ Made' /\ FindsOrMakes'
  <2>1. UNCHANGED <<source, pc, key, given, value>>
    BY <1>8 DEF Drop, callVars
  <2>2. \A k \in Keys : redis'[k] \in {redis[k], Miss}
    BY <1>8 DEF Drop
  <2>3. Miss # Default
    BY BoundsAssumption DEF Miss, Default
  <2>4. QED
    BY <1>b, <2>1, <2>2, <2>3 DEF FindsOrMakes
<1>9. CASE UNCHANGED vars
  BY <1>9, <1>b DEF vars, FindsOrMakes
<1>10. QED
  BY <1>1, <1>2, <1>3, <1>4, <1>5, <1>6, <1>7, <1>8, <1>9 DEF Next, Proceed

-----------------------------------------------------------------------------
IInv == TypeOK /\ LockInv /\ KeyInv /\ LoadInv /\ ValueInv

LEMMA InitIInv == Init => IInv
<1> SUFFICES ASSUME Init
             PROVE  IInv
  OBVIOUS
<1>1. TypeOK
  BY InitTyped
<1>2. LockInv /\ KeyInv
  BY ProcessOfAssumption, NoCallerAssumption DEF Init, LockInv, KeyInv, InLock
<1>3. LoadInv
  BY BoundsAssumption DEF Init, LoadInv, LoadsOK, Calling, Setting, Miss
<1>4. ValueInv
  BY BoundsAssumption DEF Init, ValueInv, FindsOrMakes, Default, Miss
<1>5. QED
  BY <1>1, <1>2, <1>3, <1>4 DEF IInv

LEMMA SpecIInv == Spec => []IInv
<1>1. IInv /\ [Next]_vars => IInv'
  BY StepTyped, StepLocked, StepLoads, StepValues DEF IInv
<1>2. QED
  BY <1>1, InitIInv, PTL DEF Spec

\* Every reachable state of the cache and its calls is well typed.
THEOREM CacheTypeCorrect == Spec => []TypeOK
<1>1. IInv => TypeOK
  BY DEF IInv
<1>2. QED
  BY <1>1, SpecIInv, PTL

\* While Redis does not fail, a process loads a key once and once more for each time
\* its value went away, however many calls of GetAsync miss together.
THEOREM NoStampede == Spec => []LoadsBounded
<1>1. IInv => LoadsBounded
  BY DEF IInv, LoadInv, LoadsOK, LoadsBounded
<1>2. QED
  BY <1>1, SpecIInv, PTL

\* With a type that has null, a call of GetAsync that returns and was given a factory
\* got a value, whatever Redis answered or failed to answer.
THEOREM CallsFindOrMake == ASSUME IsReference PROVE Spec => []FindsOrMakes
<1>1. IInv => FindsOrMakes
  BY DEF IInv, ValueInv
<1>2. QED
  BY <1>1, SpecIInv, PTL

=============================================================================

--------------------------- MODULE ArsSignalRProofs ---------------------------
(***************************************************************************)
(* Proofs about ArsSignalR, for any clients, terminals, sweeps and times.  *)
(***************************************************************************)
EXTENDS ArsSignalR, TLAPS

-----------------------------------------------------------------------------
(* The inductive invariants                                                *)

\* What holds of every connection, whatever the times.
Life(c) ==
  /\ c \in entry \cup writing => conn[c] \notin {"new", "connecting"}
  /\ conn[c] # "new" => listening /\ (cacheType = 1 => TerminalOf[c] \in keys)
  /\ cacheType = 0 /\ conn[c] = "closed" => c \notin entry

\* What the callback of the timer has still to look at.
InReach(s, c) ==
  cacheType = 1 => \/ TerminalOf[c] \in left[s]
                   \/ c \in fields[s]
                   \/ stage[s] = "delete" /\ picked[s] = c

\* The callback that drops an entry was fired while the entry was overdue by less
\* than a period of the timer.
Covers(s, c) ==
  /\ stage[s] # "off" /\ InReach(s, c)
  /\ DisLine + since[s] < age[c]
  /\ age[c] <= DisLine + since[s] + SweepEvery + Slack

Expiring == \A c \in entry : age[c] <= DisLine + timer \/ \E s \in Sweeps : Covers(s, c)

SweepInv ==
  \A s \in Sweeps :
    /\ stage[s] = "off" => since[s] = 0
    /\ cacheType = 1 /\ stage[s] \in {"off", "keys"} => fields[s] = {}

ListInv ==
  /\ \A c \in Clients : Life(c)
  /\ up => Expiring /\ SweepInv

\* Heartbeats come before the limit of the listener, and the host starts the first
\* clients of a terminal one at a time if they are kept in memory.
HeartbeatsInTime == RefreshEvery + Slack <= DisLine
FirstClientsApart == Serial \/ 0 \notin CacheTypes

Gone == {"leaving", "closed", "vanished"}

\* The entry of a connected client is as fresh as its heartbeat, unless that
\* heartbeat is about to be written.
Fresh(c) ==
  conn[c] \in {"joining", "open"} =>
    /\ c \in entry
    /\ age[c] <= RefreshEvery + Slack
    /\ (cacheType = 1 /\ c \in writing) \/ age[c] <= beat[c]

Told(c) ==
  /\ conn[c] \notin Gone => notices[c] = 0
  /\ conn[c] \in {"leaving", "closed"} => notices[c] > 0
  /\ conn[c] = "vanished" => notices[c] > 0 \/ c \in entry

\* Only clients that went away are dropped.
Victims ==
  \A s \in Sweeps : stage[s] \in {"remove", "delete"} =>
    picked[s] \in Clients /\ conn[picked[s]] \in Gone

\* The client that prepares a dictionary is the only one, and there is none yet.
OneFirst ==
  cacheType = 0 =>
    \A c, d \in Clients : conn[c] = "connecting" /\ conn[d] = "connecting" =>
      c = d /\ TerminalOf[c] \notin dict

PresenceInv ==
  /\ \A c \in Clients : Told(c)
  /\ up => /\ \A c \in Clients : Fresh(c)
           /\ Victims
           /\ OneFirst

-----------------------------------------------------------------------------
(* Types                                                                   *)

LEMMA Times ==
  /\ RefreshEvery \in Nat /\ DisLine \in Nat /\ SweepEvery \in Nat
  /\ Slack \in Nat /\ MaxPass \in Nat
  /\ MaxAge \in Nat /\ MaxAge = DisLine + SweepEvery + Slack + MaxPass + 1
BY TimesAssumption DEF MaxAge, OldestEntry

\* Also outside its domain an update keeps the type of a function.
LEMMA UpdateTyped ==
  ASSUME NEW S, NEW T, NEW f \in [S -> T], NEW x, NEW v, x \in S => v \in T
  PROVE  [f EXCEPT ![x] = v] \in [S -> T]
OBVIOUS

\* What TypeOK says of the variables that both caches have, and of the rest.
HubTypes ==
  /\ conn \in [Clients -> {"new", "connecting", "joining", "open", "leaving", "closed", "vanished"}]
  /\ beat \in [Clients -> 0 .. RefreshEvery + Slack]
  /\ entry \subseteq Clients
  /\ age \in [Clients -> 0 .. MaxAge]
  /\ notices \in [Clients -> 0 .. 2]
  /\ listening \in BOOLEAN
  /\ timer \in 0 .. SweepEvery + Slack
  /\ since \in [Sweeps -> 0 .. MaxPass]
  /\ picked \in [Sweeps -> Clients \cup {NoClient}]

MemoryTypes ==
  /\ cacheType \in CacheTypes /\ up
  /\ dict \subseteq Terminals
  /\ stage \in [Sweeps -> {"off", "scan", "remove", "notice"}]

RedisTypes ==
  /\ cacheType \in CacheTypes /\ up \in BOOLEAN /\ dict = {}
  /\ writing \subseteq Clients /\ keys \subseteq Terminals
  /\ stage \in [Sweeps -> {"off", "keys", "fields", "delete", "notice"}]
  /\ looped \in [Sweeps -> SUBSET Terminals]
  /\ left \in [Sweeps -> SUBSET Terminals]
  /\ fields \in [Sweeps -> SUBSET Clients]

LEMMA TypesUnfold ==
  /\ TypeOK <=> HubTypes /\ IF cacheType = 0 THEN MemoryTypes ELSE RedisTypes
  /\ TypeOK' <=> (HubTypes /\ IF cacheType = 0 THEN MemoryTypes ELSE RedisTypes)'
BY DEF TypeOK, HubTypes, MemoryTypes, RedisTypes, Memory!TypeOK, Memory!TypeHub,
   Memory!ConnState, Memory!MaxAge, Memory!OldestEntry, Redis!TypeOK, Redis!TypeHub,
   Redis!ConnState, Redis!MaxAge, Redis!OldestEntry, MaxAge, OldestEntry

-----------------------------------------------------------------------------
(* Time and the timer                                                      *)

\* An entry is dropped by a callback that is not older than MaxPass.
LEMMA OldestInTime ==
  ASSUME HubTypes, Expiring
  PROVE  \A c \in entry : age[c] <= OldestEntry
<1> SUFFICES ASSUME NEW c \in entry
             PROVE  age[c] <= OldestEntry
  OBVIOUS
<1>1. age[c] \in Nat /\ timer \in 0 .. SweepEvery + Slack
  BY Times DEF HubTypes
<1>2. CASE age[c] <= DisLine + timer
  BY <1>1, <1>2, Times DEF OldestEntry
<1>3. CASE \E s \in Sweeps : Covers(s, c)
  <2>1. PICK s \in Sweeps : Covers(s, c)
    BY <1>3
  <2>2. since[s] \in 0 .. MaxPass
    BY DEF HubTypes
  <2>3. QED
    BY <1>1, <2>1, <2>2, Times DEF OldestEntry, Covers
<1>4. QED
  BY <1>2, <1>3 DEF Expiring

\* Ages, the timer and its callbacks grow together.
LEMMA PassKeepsExpiring ==
  ASSUME HubTypes, Expiring, \A c \in entry : listening, Pass(TRUE),
         UNCHANGED <<cacheType, entry, stage, picked, left, fields>>
  PROVE  Expiring'
<1> SUFFICES ASSUME NEW c \in entry
             PROVE  \/ age'[c] <= DisLine + timer'
                    \/ \E s \in Sweeps : Covers(s, c)'
  BY DEF Expiring
<1>1. age[c] \in Nat /\ age[c] <= OldestEntry /\ timer \in Nat
  BY OldestInTime, Times DEF HubTypes
<1>2. age'[c] = age[c] + 1
  BY <1>1, Times DEF Pass, Older, MaxAge, OldestEntry, HubTypes
<1>3. timer' = timer + 1
  BY DEF Pass
<1>4. CASE age[c] <= DisLine + timer
  BY <1>1, <1>2, <1>3, <1>4, Times
<1>5. CASE \E s \in Sweeps : Covers(s, c)
  <2>1. PICK s \in Sweeps : Covers(s, c)
    BY <1>5
  <2>2. since[s] \in Nat /\ since'[s] = since[s] + 1
    BY <2>1, Times DEF HubTypes, Covers, Pass
  <2>3. Covers(s, c)'
    BY <1>1, <1>2, <2>1, <2>2, Times DEF Covers, InReach
  <2>4. QED
    BY <2>3
<1>6. QED
  BY <1>4, <1>5 DEF Expiring

\* The callback that is fired covers the entries that were not overdue before.
LEMMA FiringKeepsExpiring ==
  ASSUME HubTypes, Expiring, NEW s \in Sweeps, stage[s] = "off", since[s] = 0,
         NEW g, g # "off", stage' = [stage EXCEPT ![s] = g], timer' = 0,
         \A c \in entry : cacheType = 1 => TerminalOf[c] \in left'[s],
         \A r \in Sweeps : r # s => left'[r] = left[r] /\ stage'[r] = stage[r],
         stage'[s] = g,
         UNCHANGED <<cacheType, entry, age, since, picked, fields>>
  PROVE  Expiring'
<1> SUFFICES ASSUME NEW c \in entry
             PROVE  \/ age[c] <= DisLine
                    \/ \E r \in Sweeps : Covers(r, c)'
  BY Times DEF Expiring
<1>1. age[c] \in Nat /\ timer \in 0 .. SweepEvery + Slack
  BY Times DEF HubTypes
<1>2. CASE age[c] > DisLine /\ age[c] <= DisLine + timer
  <2>1. Covers(s, c)'
    BY <1>1, <1>2, Times DEF Covers, InReach
  <2>2. QED
    BY <2>1
<1>3. CASE \E r \in Sweeps : Covers(r, c)
  <2>1. PICK r \in Sweeps : Covers(r, c)
    BY <1>3
  <2>2. r # s
    BY <2>1 DEF Covers
  <2>3. Covers(r, c)'
    BY <2>1, <2>2 DEF Covers, InReach
  <2>4. QED
    BY <2>3
<1>4. QED
  BY <1>1, <1>2, <1>3, Times DEF Expiring

LEMMA MemoryTyped ==
  ASSUME HubTypes, MemoryTypes, cacheType = 0, Memory!Next, UNCHANGED <<cacheType, redisVars>>
  PROVE  HubTypes' /\ MemoryTypes'
<1>1. ASSUME NEW c \in Clients, Memory!Connect(c)
      PROVE  HubTypes' /\ MemoryTypes'
  BY <1>1, Times, TerminalOfAssumption DEF Memory!Connect, Memory!StartTimer,
     Memory!List, Memory!Become, Memory!sweepVars, redisVars, HubTypes, MemoryTypes
<1>2. ASSUME NEW c \in Clients, Memory!ConnectFirst(c)
      PROVE  HubTypes' /\ MemoryTypes'
  BY <1>2, Times, TerminalOfAssumption DEF Memory!ConnectFirst, Memory!StartTimer,
     Memory!Become, Memory!cacheVars, Memory!sweepVars, redisVars, HubTypes,
     MemoryTypes
<1>3. ASSUME NEW c \in Clients, Memory!ConnectAddDictionary(c)
      PROVE  HubTypes' /\ MemoryTypes'
  <2>1. entry' \subseteq Clients /\ age' \in [Clients -> 0 .. MaxAge]
    BY <1>3, Times DEF Memory!ConnectAddDictionary, Memory!List, Memory!cacheVars,
       HubTypes
  <2>2. dict' \subseteq Terminals
    BY <1>3, TerminalOfAssumption DEF Memory!ConnectAddDictionary, Memory!cacheVars,
       MemoryTypes
  <2>3. QED
    BY <1>3, <2>1, <2>2 DEF Memory!ConnectAddDictionary, Memory!Become,
       Memory!timerVars, Memory!sweepVars, redisVars, HubTypes, MemoryTypes
<1>4. ASSUME NEW c \in Clients, Memory!Joined(c)
      PROVE  HubTypes' /\ MemoryTypes'
  BY <1>4, Times DEF Memory!Joined, Memory!Become, Memory!cacheVars, Memory!timerVars,
     Memory!sweepVars, redisVars, HubTypes, MemoryTypes
<1>5. ASSUME NEW c \in Clients, Memory!JoinFails(c)
      PROVE  HubTypes' /\ MemoryTypes'
  BY <1>5, Times DEF Memory!JoinFails, Memory!Become, Memory!cacheVars,
     Memory!timerVars, Memory!sweepVars, redisVars, HubTypes, MemoryTypes
<1>6. ASSUME NEW c \in Clients, Memory!Refresh(c)
      PROVE  HubTypes' /\ MemoryTypes'
  BY <1>6, Times DEF Memory!Refresh, Memory!MayRefresh, Memory!List, Memory!timerVars,
     Memory!sweepVars, redisVars, HubTypes, MemoryTypes
<1>7. ASSUME NEW c \in Clients, Memory!Disconnect(c)
      PROVE  HubTypes' /\ MemoryTypes'
  BY <1>7, Times DEF Memory!Disconnect, Memory!Become, Memory!Notify,
     Memory!cacheVars, Memory!timerVars, Memory!sweepVars, redisVars, HubTypes,
     MemoryTypes
<1>8. ASSUME NEW c \in Clients, Memory!DisconnectEnd(c)
      PROVE  HubTypes' /\ MemoryTypes'
  BY <1>8, Times DEF Memory!DisconnectEnd, Memory!Become, Memory!Delist,
     Memory!timerVars, Memory!sweepVars, redisVars, HubTypes, MemoryTypes
<1>9. ASSUME NEW s \in Sweeps, Memory!TimerFires(s)
      PROVE  HubTypes' /\ MemoryTypes'
  BY <1>9, Times DEF Memory!TimerFires, Memory!SetStage, Memory!cacheVars, redisVars,
     HubTypes, MemoryTypes
<1>10. ASSUME NEW s \in Sweeps, Memory!Pick(s)
      PROVE  HubTypes' /\ MemoryTypes'
  BY <1>10, Times DEF Memory!Pick, Memory!SetStage, Memory!OverTime, Memory!Expired,
     Memory!cacheVars, Memory!timerVars, redisVars, HubTypes, MemoryTypes
<1>11. ASSUME NEW s \in Sweeps, Memory!Remove(s)
      PROVE  HubTypes' /\ MemoryTypes'
  <2>1. entry' \subseteq Clients /\ age' \in [Clients -> 0 .. MaxAge]
    <3>1. entry' \subseteq entry /\ age' = [age EXCEPT ![picked[s]] = 0]
      BY <1>11 DEF Memory!Remove, Memory!Delist
    <3>2. entry \subseteq Clients /\ age \in [Clients -> 0 .. MaxAge] /\ 0 \in 0 .. MaxAge
      BY Times DEF HubTypes
    <3>3. QED
      BY <3>1, <3>2, UpdateTyped
  <2>2. notices' \in [Clients -> 0 .. 2]
    <3>1. notices \in [Clients -> 0 .. 2]
      BY DEF HubTypes
    <3> DEFINE n == notices[picked[s]]
    <3>2. picked[s] \in Clients => (IF n = 2 THEN 2 ELSE n + 1) \in 0 .. 2
      BY <3>1
    <3>3. notices' = [notices EXCEPT ![picked[s]] = IF n = 2 THEN 2 ELSE n + 1]
      BY <1>11 DEF Memory!Remove, Memory!Notify
    <3> HIDE DEF n
    <3>4. QED
      BY <3>1, <3>2, <3>3, UpdateTyped
  <2>3. QED
    BY <1>11, <2>1, <2>2 DEF Memory!Remove, Memory!SetStage, Memory!timerVars,
       redisVars, HubTypes, MemoryTypes
<1>12. ASSUME NEW s \in Sweeps, Memory!NoticesReturn(s)
      PROVE  HubTypes' /\ MemoryTypes'
  BY <1>12, Times DEF Memory!NoticesReturn, Memory!SetStage, Memory!cacheVars,
     Memory!timerVars, redisVars, HubTypes, MemoryTypes
<1>13. ASSUME NEW s \in Sweeps, Memory!EndSweep(s)
      PROVE  HubTypes' /\ MemoryTypes'
  BY <1>13, Times DEF Memory!EndSweep, Memory!SetStage, Memory!OverTime,
     Memory!Expired, Memory!cacheVars, Memory!timerVars, redisVars, HubTypes,
     MemoryTypes
<1>14. ASSUME Memory!Tick
      PROVE  HubTypes' /\ MemoryTypes'
  BY <1>14, Times DEF Memory!Tick, Memory!HubOnTime, Memory!Pass, Memory!Older,
     Memory!MaxAge, Memory!OldestEntry, Memory!Beating, redisVars, HubTypes,
     MemoryTypes
<1>15. QED
  BY <1>1, <1>2, <1>3, <1>4, <1>5, <1>6, <1>7, <1>8, <1>9, <1>10, <1>11, <1>12,
     <1>13, <1>14 DEF Memory!Next, Memory!ClientStep, Memory!SweepStep

LEMMA MemoryLists ==
  ASSUME HubTypes, MemoryTypes, ListInv, cacheType = 0, Memory!Next,
         UNCHANGED <<cacheType, redisVars>>
  PROVE  ListInv'
<1>1. ASSUME NEW c \in Clients, Memory!Connect(c)
      PROVE  ListInv'
  BY <1>1, Times, TerminalOfAssumption DEF Memory!Connect, Memory!StartTimer,
     Memory!List, Memory!Become, Memory!sweepVars, redisVars, HubTypes, MemoryTypes,
     ListInv, Life, Expiring, Covers, InReach, SweepInv
<1>2. ASSUME NEW c \in Clients, Memory!ConnectFirst(c)
      PROVE  ListInv'
  BY <1>2, Times, TerminalOfAssumption DEF Memory!ConnectFirst, Memory!StartTimer,
     Memory!Become, Memory!cacheVars, Memory!sweepVars, redisVars, HubTypes,
     MemoryTypes, ListInv, Life, Expiring, Covers, InReach, SweepInv
<1>3. ASSUME NEW c \in Clients, Memory!ConnectAddDictionary(c)
      PROVE  ListInv'
  BY <1>3, Times, TerminalOfAssumption DEF Memory!ConnectAddDictionary, Memory!List,
     Memory!Become, Memory!cacheVars, Memory!timerVars, Memory!sweepVars, redisVars,
     HubTypes, MemoryTypes, ListInv, Life, Expiring, Covers, InReach, SweepInv
<1>4. ASSUME NEW c \in Clients, Memory!Joined(c)
      PROVE  ListInv'
  BY <1>4, Times, TerminalOfAssumption DEF Memory!Joined, Memory!Become,
     Memory!cacheVars, Memory!timerVars, Memory!sweepVars, redisVars, HubTypes,
     MemoryTypes, ListInv, Life, Expiring, Covers, InReach, SweepInv
<1>5. ASSUME NEW c \in Clients, Memory!JoinFails(c)
      PROVE  ListInv'
  BY <1>5, Times, TerminalOfAssumption DEF Memory!JoinFails, Memory!Become,
     Memory!cacheVars, Memory!timerVars, Memory!sweepVars, redisVars, HubTypes,
     MemoryTypes, ListInv, Life, Expiring, Covers, InReach, SweepInv
<1>6. ASSUME NEW c \in Clients, Memory!Refresh(c)
      PROVE  ListInv'
  BY <1>6, Times, TerminalOfAssumption DEF Memory!Refresh, Memory!MayRefresh,
     Memory!List, Memory!timerVars, Memory!sweepVars, redisVars, HubTypes,
     MemoryTypes, ListInv, Life, Expiring, Covers, InReach, SweepInv
<1>7. ASSUME NEW c \in Clients, Memory!Disconnect(c)
      PROVE  ListInv'
  BY <1>7, Times, TerminalOfAssumption DEF Memory!Disconnect, Memory!Become,
     Memory!Notify, Memory!cacheVars, Memory!timerVars, Memory!sweepVars, redisVars,
     HubTypes, MemoryTypes, ListInv, Life, Expiring, Covers, InReach, SweepInv
<1>8. ASSUME NEW c \in Clients, Memory!DisconnectEnd(c)
      PROVE  ListInv'
  BY <1>8, Times, TerminalOfAssumption DEF Memory!DisconnectEnd, Memory!Become,
     Memory!Delist, Memory!timerVars, Memory!sweepVars, redisVars, HubTypes,
     MemoryTypes, ListInv, Life, Expiring, Covers, InReach, SweepInv
<1>9. ASSUME NEW s \in Sweeps, Memory!TimerFires(s)
      PROVE  ListInv'
  <2>1. /\ stage[s] = "off" /\ stage' = [stage EXCEPT ![s] = "scan"] /\ timer' = 0
        /\ stage'[s] = "scan"
        /\ \A r \in Sweeps : r # s => left'[r] = left[r] /\ stage'[r] = stage[r]
        /\ UNCHANGED <<cacheType, up, writing, keys, conn, entry, age, listening,
                       since, picked, fields>>
    BY <1>9 DEF Memory!TimerFires, Memory!SetStage, Memory!cacheVars, redisVars,
       HubTypes, MemoryTypes
  <2>2. \A c \in entry : cacheType = 1 => TerminalOf[c] \in left'[s]
    BY <1>9 DEF Memory!TimerFires, ListInv, Life, HubTypes, MemoryTypes
  <2>3. up => Expiring'
    BY <2>1, <2>2, FiringKeepsExpiring DEF ListInv, SweepInv
  <2>4. up => SweepInv'
    BY <2>1 DEF ListInv, SweepInv, MemoryTypes
  <2>5. \A c \in Clients : Life(c)'
    BY <2>1 DEF ListInv, Life
  <2>6. QED
    BY <2>1, <2>3, <2>4, <2>5 DEF ListInv
<1>10. ASSUME NEW s \in Sweeps, Memory!Pick(s)
      PROVE  ListInv'
  BY <1>10, Times, TerminalOfAssumption DEF Memory!Pick, Memory!SetStage,
     Memory!OverTime, Memory!Expired, Memory!cacheVars, Memory!timerVars, redisVars,
     HubTypes, MemoryTypes, ListInv, Life, Expiring, Covers, InReach, SweepInv
<1>11. ASSUME NEW s \in Sweeps, Memory!Remove(s)
      PROVE  ListInv'
  BY <1>11, Times, TerminalOfAssumption DEF Memory!Remove, Memory!Delist,
     Memory!Notify, Memory!SetStage, Memory!timerVars, redisVars, HubTypes,
     MemoryTypes, ListInv, Life, Expiring, Covers, InReach, SweepInv
<1>12. ASSUME NEW s \in Sweeps, Memory!NoticesReturn(s)
      PROVE  ListInv'
  BY <1>12, Times, TerminalOfAssumption DEF Memory!NoticesReturn, Memory!SetStage,
     Memory!cacheVars, Memory!timerVars, redisVars, HubTypes, MemoryTypes, ListInv,
     Life, Expiring, Covers, InReach, SweepInv
<1>13. ASSUME NEW s \in Sweeps, Memory!EndSweep(s)
      PROVE  ListInv'
  BY <1>13, Times, TerminalOfAssumption DEF Memory!EndSweep, Memory!SetStage,
     Memory!OverTime, Memory!Expired, Memory!cacheVars, Memory!timerVars, redisVars,
     HubTypes, MemoryTypes, ListInv, Life, Expiring, Covers, InReach, SweepInv
<1>14. ASSUME Memory!Tick
      PROVE  ListInv'
  <2>1. /\ Pass(TRUE)
        /\ UNCHANGED <<cacheType, up, writing, keys, left, fields, conn, dict, entry,
                       listening, stage, picked>>
    BY <1>14 DEF Memory!Tick, Memory!Pass, Memory!Older, Memory!MaxAge,
       Memory!OldestEntry, Memory!Beating, Pass, Older, MaxAge, OldestEntry, Beating,
       redisVars
  <2>2. Expiring'
    <3>1. Expiring /\ \A c \in entry : listening
      BY DEF ListInv, Life, HubTypes, MemoryTypes
    <3>2. QED
      BY <2>1, <3>1, PassKeepsExpiring
  <2>3. SweepInv'
    BY <2>1 DEF ListInv, SweepInv, MemoryTypes, Pass
  <2>4. \A c \in Clients : Life(c)'
    BY <2>1 DEF ListInv, Life
  <2>5. QED
    BY <2>2, <2>3, <2>4 DEF ListInv
<1>15. QED
  BY <1>1, <1>2, <1>3, <1>4, <1>5, <1>6, <1>7, <1>8, <1>9, <1>10, <1>11, <1>12,
     <1>13, <1>14 DEF Memory!Next, Memory!ClientStep, Memory!SweepStep

LEMMA MemoryPresent ==
  ASSUME HubTypes, MemoryTypes, ListInv, PresenceInv,
         HeartbeatsInTime, FirstClientsApart, cacheType = 0, Memory!Next, UNCHANGED <<cacheType, redisVars>>
  PROVE  PresenceInv'
<1>1. ASSUME NEW c \in Clients, Memory!Connect(c)
      PROVE  PresenceInv'
  BY <1>1, Times, TerminalOfAssumption DEF Memory!Connect, Memory!StartTimer,
     Memory!List, Memory!Become, Memory!sweepVars, redisVars, HubTypes, MemoryTypes,
     ListInv, Life, PresenceInv, Told, Gone, Fresh, Victims, OneFirst,
     HeartbeatsInTime, FirstClientsApart
<1>2. ASSUME NEW c \in Clients, Memory!ConnectFirst(c)
      PROVE  PresenceInv'
  BY <1>2, Times, TerminalOfAssumption DEF Memory!ConnectFirst, Memory!StartTimer,
     Memory!Become, Memory!cacheVars, Memory!sweepVars, redisVars, HubTypes,
     MemoryTypes, ListInv, Life, PresenceInv, Told, Gone, Fresh, Victims, OneFirst,
     HeartbeatsInTime, FirstClientsApart
<1>3. ASSUME NEW c \in Clients, Memory!ConnectAddDictionary(c)
      PROVE  PresenceInv'
  BY <1>3, Times, TerminalOfAssumption DEF Memory!ConnectAddDictionary, Memory!List,
     Memory!Become, Memory!cacheVars, Memory!timerVars, Memory!sweepVars, redisVars,
     HubTypes, MemoryTypes, ListInv, Life, PresenceInv, Told, Gone, Fresh, Victims,
     OneFirst, HeartbeatsInTime, FirstClientsApart
<1>4. ASSUME NEW c \in Clients, Memory!Joined(c)
      PROVE  PresenceInv'
  BY <1>4, Times, TerminalOfAssumption DEF Memory!Joined, Memory!Become,
     Memory!cacheVars, Memory!timerVars, Memory!sweepVars, redisVars, HubTypes,
     MemoryTypes, ListInv, Life, PresenceInv, Told, Gone, Fresh, Victims, OneFirst,
     HeartbeatsInTime, FirstClientsApart
<1>5. ASSUME NEW c \in Clients, Memory!JoinFails(c)
      PROVE  PresenceInv'
  BY <1>5, Times, TerminalOfAssumption DEF Memory!JoinFails, Memory!Become,
     Memory!cacheVars, Memory!timerVars, Memory!sweepVars, redisVars, HubTypes,
     MemoryTypes, ListInv, Life, PresenceInv, Told, Gone, Fresh, Victims, OneFirst,
     HeartbeatsInTime, FirstClientsApart
<1>6. ASSUME NEW c \in Clients, Memory!Refresh(c)
      PROVE  PresenceInv'
  BY <1>6, Times, TerminalOfAssumption DEF Memory!Refresh, Memory!MayRefresh,
     Memory!List, Memory!timerVars, Memory!sweepVars, redisVars, HubTypes,
     MemoryTypes, ListInv, Life, PresenceInv, Told, Gone, Fresh, Victims, OneFirst,
     HeartbeatsInTime, FirstClientsApart
<1>7. ASSUME NEW c \in Clients, Memory!Disconnect(c)
      PROVE  PresenceInv'
  BY <1>7, Times, TerminalOfAssumption DEF Memory!Disconnect, Memory!Become,
     Memory!Notify, Memory!cacheVars, Memory!timerVars, Memory!sweepVars, redisVars,
     HubTypes, MemoryTypes, ListInv, Life, PresenceInv, Told, Gone, Fresh, Victims,
     OneFirst, HeartbeatsInTime, FirstClientsApart
<1>8. ASSUME NEW c \in Clients, Memory!DisconnectEnd(c)
      PROVE  PresenceInv'
  BY <1>8, Times, TerminalOfAssumption DEF Memory!DisconnectEnd, Memory!Become,
     Memory!Delist, Memory!timerVars, Memory!sweepVars, redisVars, HubTypes,
     MemoryTypes, ListInv, Life, PresenceInv, Told, Gone, Fresh, Victims, OneFirst,
     HeartbeatsInTime, FirstClientsApart
<1>9. ASSUME NEW s \in Sweeps, Memory!TimerFires(s)
      PROVE  PresenceInv'
  BY <1>9, Times, TerminalOfAssumption DEF Memory!TimerFires, Memory!SetStage,
     Memory!cacheVars, redisVars, HubTypes, MemoryTypes, ListInv, Life, PresenceInv,
     Told, Gone, Fresh, Victims, OneFirst, HeartbeatsInTime, FirstClientsApart
<1>10. ASSUME NEW s \in Sweeps, Memory!Pick(s)
      PROVE  PresenceInv'
  BY <1>10, Times, TerminalOfAssumption DEF Memory!Pick, Memory!SetStage,
     Memory!OverTime, Memory!Expired, Memory!cacheVars, Memory!timerVars, redisVars,
     HubTypes, MemoryTypes, ListInv, Life, PresenceInv, Told, Gone, Fresh, Victims,
     OneFirst, HeartbeatsInTime, FirstClientsApart
<1>11. ASSUME NEW s \in Sweeps, Memory!Remove(s)
      PROVE  PresenceInv'
  BY <1>11, Times, TerminalOfAssumption DEF Memory!Remove, Memory!Delist,
     Memory!Notify, Memory!SetStage, Memory!timerVars, redisVars, HubTypes,
     MemoryTypes, ListInv, Life, PresenceInv, Told, Gone, Fresh, Victims, OneFirst,
     HeartbeatsInTime, FirstClientsApart
<1>12. ASSUME NEW s \in Sweeps, Memory!NoticesReturn(s)
      PROVE  PresenceInv'
  BY <1>12, Times, TerminalOfAssumption DEF Memory!NoticesReturn, Memory!SetStage,
     Memory!cacheVars, Memory!timerVars, redisVars, HubTypes, MemoryTypes, ListInv,
     Life, PresenceInv, Told, Gone, Fresh, Victims, OneFirst, HeartbeatsInTime,
     FirstClientsApart
<1>13. ASSUME NEW s \in Sweeps, Memory!EndSweep(s)
      PROVE  PresenceInv'
  BY <1>13, Times, TerminalOfAssumption DEF Memory!EndSweep, Memory!SetStage,
     Memory!OverTime, Memory!Expired, Memory!cacheVars, Memory!timerVars, redisVars,
     HubTypes, MemoryTypes, ListInv, Life, PresenceInv, Told, Gone, Fresh, Victims,
     OneFirst, HeartbeatsInTime, FirstClientsApart
<1>14. ASSUME Memory!Tick
      PROVE  PresenceInv'
  BY <1>14, Times, TerminalOfAssumption DEF Memory!Tick, Memory!HubOnTime,
     Memory!Pass, Memory!Older, Memory!MaxAge, Memory!OldestEntry, Memory!Beating,
     redisVars, HubTypes, MemoryTypes, ListInv, Life, PresenceInv, Told, Gone, Fresh,
     Victims, OneFirst, HeartbeatsInTime, FirstClientsApart
<1>15. QED
  BY <1>1, <1>2, <1>3, <1>4, <1>5, <1>6, <1>7, <1>8, <1>9, <1>10, <1>11, <1>12,
     <1>13, <1>14 DEF Memory!Next, Memory!ClientStep, Memory!SweepStep

LEMMA RedisTyped ==
  ASSUME HubTypes, RedisTypes, cacheType = 1, Redis!Next, UNCHANGED <<cacheType, dict>>
  PROVE  HubTypes' /\ RedisTypes'
<1>1. ASSUME NEW c \in Clients, Redis!Connect(c)
      PROVE  HubTypes' /\ RedisTypes'
  <2>1. keys' \subseteq Terminals
    BY <1>1, TerminalOfAssumption DEF Redis!Connect, RedisTypes
  <2>2. timer' \in 0 .. SweepEvery + Slack /\ listening' \in BOOLEAN
    BY <1>1, Times DEF Redis!Connect, Redis!StartTimer, HubTypes
  <2>3. QED
    BY <1>1, <2>1, <2>2 DEF Redis!Connect, Redis!Become, Redis!cacheVars,
       Redis!sweepVars, HubTypes, RedisTypes
<1>2. ASSUME NEW c \in Clients, Redis!ConnectSet(c)
      PROVE  HubTypes' /\ RedisTypes'
  BY <1>2, Times DEF Redis!ConnectSet, Redis!List, Redis!Become, Redis!timerVars,
     Redis!sweepVars, HubTypes, RedisTypes
<1>3. ASSUME NEW c \in Clients, Redis!Joined(c)
      PROVE  HubTypes' /\ RedisTypes'
  BY <1>3, Times DEF Redis!Joined, Redis!Become, Redis!cacheVars, Redis!timerVars,
     Redis!sweepVars, HubTypes, RedisTypes
<1>4. ASSUME NEW c \in Clients, Redis!JoinFails(c)
      PROVE  HubTypes' /\ RedisTypes'
  BY <1>4, Times DEF Redis!JoinFails, Redis!Become, Redis!cacheVars, Redis!timerVars,
     Redis!sweepVars, HubTypes, RedisTypes
<1>5. ASSUME NEW c \in Clients, Redis!RefreshGet(c)
      PROVE  HubTypes' /\ RedisTypes'
  BY <1>5, Times DEF Redis!RefreshGet, Redis!MayRefresh, Redis!cacheVars,
     Redis!timerVars, Redis!sweepVars, HubTypes, RedisTypes
<1>6. ASSUME NEW c \in Clients, Redis!RefreshSet(c)
      PROVE  HubTypes' /\ RedisTypes'
  BY <1>6, Times DEF Redis!RefreshSet, Redis!List, Redis!timerVars, Redis!sweepVars,
     HubTypes, RedisTypes
<1>7. ASSUME NEW c \in Clients, Redis!Disconnect(c)
      PROVE  HubTypes' /\ RedisTypes'
  BY <1>7, Times DEF Redis!Disconnect, Redis!Become, Redis!Notify, Redis!cacheVars,
     Redis!timerVars, Redis!sweepVars, HubTypes, RedisTypes
<1>8. ASSUME NEW c \in Clients, Redis!DisconnectEnd(c)
      PROVE  HubTypes' /\ RedisTypes'
  BY <1>8, Times DEF Redis!DisconnectEnd, Redis!Become, Redis!Delist, Redis!timerVars,
     Redis!sweepVars, HubTypes, RedisTypes
<1>9. ASSUME NEW s \in Sweeps, Redis!TimerFires(s)
      PROVE  HubTypes' /\ RedisTypes'
  BY <1>9, Times DEF Redis!TimerFires, Redis!SetStage, Redis!cacheVars, Redis!hubVars,
     HubTypes, RedisTypes
<1>10. ASSUME NEW s \in Sweeps, Redis!NextKey(s)
      PROVE  HubTypes' /\ RedisTypes'
  BY <1>10, Times, TerminalOfAssumption DEF Redis!NextKey, Redis!SetStage,
     Redis!cacheVars, Redis!timerVars, Redis!hubVars, HubTypes, RedisTypes
<1>11. ASSUME NEW s \in Sweeps, Redis!EndSweep(s)
      PROVE  HubTypes' /\ RedisTypes'
  BY <1>11, Times DEF Redis!EndSweep, Redis!SetStage, Redis!cacheVars,
     Redis!timerVars, Redis!hubVars, HubTypes, RedisTypes
<1>12. ASSUME NEW s \in Sweeps, Redis!LoopThrows(s)
      PROVE  HubTypes' /\ RedisTypes'
  BY <1>12, Times DEF Redis!LoopThrows, Redis!cacheVars, Redis!timerVars,
     Redis!sweepVars, HubTypes, RedisTypes
<1>13. ASSUME NEW s \in Sweeps, NEW c \in Clients, Redis!Look(s, c)
      PROVE  HubTypes' /\ RedisTypes'
  BY <1>13, Times DEF Redis!Look, Redis!SetStage, Redis!OverTime, Redis!Expired,
     Redis!cacheVars, Redis!timerVars, Redis!hubVars, HubTypes, RedisTypes
<1>14. ASSUME NEW s \in Sweeps, Redis!Delete(s)
      PROVE  HubTypes' /\ RedisTypes'
  <2>1. entry' \subseteq Clients /\ age' \in [Clients -> 0 .. MaxAge]
    <3>1. entry' \subseteq entry /\ age' = [age EXCEPT ![picked[s]] = 0]
      BY <1>14 DEF Redis!Delete, Redis!Delist
    <3>2. entry \subseteq Clients /\ age \in [Clients -> 0 .. MaxAge] /\ 0 \in 0 .. MaxAge
      BY Times DEF HubTypes
    <3>3. QED
      BY <3>1, <3>2, UpdateTyped
  <2>2. notices' \in [Clients -> 0 .. 2]
    <3>1. notices \in [Clients -> 0 .. 2]
      BY DEF HubTypes
    <3> DEFINE n == notices[picked[s]]
    <3>2. picked[s] \in Clients => (IF n = 2 THEN 2 ELSE n + 1) \in 0 .. 2
      BY <3>1
    <3>3. notices' = [notices EXCEPT ![picked[s]] = IF n = 2 THEN 2 ELSE n + 1]
      BY <1>14 DEF Redis!Delete, Redis!Notify
    <3> HIDE DEF n
    <3>4. QED
      BY <3>1, <3>2, <3>3, UpdateTyped
  <2>3. QED
    BY <1>14, <2>1, <2>2 DEF Redis!Delete, Redis!SetStage, Redis!timerVars,
       Redis!hubVars, HubTypes, RedisTypes
<1>15. ASSUME NEW s \in Sweeps, Redis!NoticesReturn(s)
      PROVE  HubTypes' /\ RedisTypes'
  BY <1>15, Times DEF Redis!NoticesReturn, Redis!SetStage, Redis!cacheVars,
     Redis!timerVars, Redis!hubVars, HubTypes, RedisTypes
<1>16. ASSUME NEW s \in Sweeps, Redis!EndFields(s)
      PROVE  HubTypes' /\ RedisTypes'
  BY <1>16, Times DEF Redis!EndFields, Redis!SetStage, Redis!cacheVars,
     Redis!timerVars, Redis!hubVars, HubTypes, RedisTypes
<1>17. ASSUME Redis!Tick
      PROVE  HubTypes' /\ RedisTypes'
  BY <1>17, Times DEF Redis!Tick, Redis!HubOnTime, Redis!Pass, Redis!Older,
     Redis!MaxAge, Redis!OldestEntry, Redis!Beating, HubTypes, RedisTypes
<1>18. QED
  BY <1>1, <1>2, <1>3, <1>4, <1>5, <1>6, <1>7, <1>8, <1>9, <1>10, <1>11, <1>12,
     <1>13, <1>14, <1>15, <1>16, <1>17 DEF Redis!Next, Redis!ClientStep,
     Redis!SweepStep

LEMMA RedisLists ==
  ASSUME HubTypes, RedisTypes, ListInv, cacheType = 1, Redis!Next, UNCHANGED <<cacheType, dict>>
  PROVE  ListInv'
<1>1. ASSUME NEW c \in Clients, Redis!Connect(c)
      PROVE  ListInv'
  BY <1>1, Times, TerminalOfAssumption DEF Redis!Connect, Redis!StartTimer,
     Redis!Become, Redis!cacheVars, Redis!sweepVars, HubTypes, RedisTypes, ListInv,
     Life, Expiring, Covers, InReach, SweepInv
<1>2. ASSUME NEW c \in Clients, Redis!ConnectSet(c)
      PROVE  ListInv'
  BY <1>2, Times, TerminalOfAssumption DEF Redis!ConnectSet, Redis!List, Redis!Become,
     Redis!timerVars, Redis!sweepVars, HubTypes, RedisTypes, ListInv, Life, Expiring,
     Covers, InReach, SweepInv
<1>3. ASSUME NEW c \in Clients, Redis!Joined(c)
      PROVE  ListInv'
  BY <1>3, Times, TerminalOfAssumption DEF Redis!Joined, Redis!Become,
     Redis!cacheVars, Redis!timerVars, Redis!sweepVars, HubTypes, RedisTypes, ListInv,
     Life, Expiring, Covers, InReach, SweepInv
<1>4. ASSUME NEW c \in Clients, Redis!JoinFails(c)
      PROVE  ListInv'
  BY <1>4, Times, TerminalOfAssumption DEF Redis!JoinFails, Redis!Become,
     Redis!cacheVars, Redis!timerVars, Redis!sweepVars, HubTypes, RedisTypes, ListInv,
     Life, Expiring, Covers, InReach, SweepInv
<1>5. ASSUME NEW c \in Clients, Redis!RefreshGet(c)
      PROVE  ListInv'
  BY <1>5, Times, TerminalOfAssumption DEF Redis!RefreshGet, Redis!MayRefresh,
     Redis!cacheVars, Redis!timerVars, Redis!sweepVars, HubTypes, RedisTypes, ListInv,
     Life, Expiring, Covers, InReach, SweepInv
<1>6. ASSUME NEW c \in Clients, Redis!RefreshSet(c)
      PROVE  ListInv'
  BY <1>6, Times, TerminalOfAssumption DEF Redis!RefreshSet, Redis!List,
     Redis!timerVars, Redis!sweepVars, HubTypes, RedisTypes, ListInv, Life, Expiring,
     Covers, InReach, SweepInv
<1>7. ASSUME NEW c \in Clients, Redis!Disconnect(c)
      PROVE  ListInv'
  BY <1>7, Times, TerminalOfAssumption DEF Redis!Disconnect, Redis!Become,
     Redis!Notify, Redis!cacheVars, Redis!timerVars, Redis!sweepVars, HubTypes,
     RedisTypes, ListInv, Life, Expiring, Covers, InReach, SweepInv
<1>8. ASSUME NEW c \in Clients, Redis!DisconnectEnd(c)
      PROVE  ListInv'
  BY <1>8, Times, TerminalOfAssumption DEF Redis!DisconnectEnd, Redis!Become,
     Redis!Delist, Redis!timerVars, Redis!sweepVars, HubTypes, RedisTypes, ListInv,
     Life, Expiring, Covers, InReach, SweepInv
<1>9. ASSUME NEW s \in Sweeps, Redis!TimerFires(s)
      PROVE  ListInv'
  <2>1. /\ stage[s] = "off" /\ stage' = [stage EXCEPT ![s] = "keys"] /\ timer' = 0
        /\ stage'[s] = "keys"
        /\ \A r \in Sweeps : r # s => left'[r] = left[r] /\ stage'[r] = stage[r]
        /\ UNCHANGED <<cacheType, up, writing, keys, conn, entry, age, listening,
                       since, picked, fields>>
    BY <1>9 DEF Redis!TimerFires, Redis!SetStage, Redis!cacheVars, Redis!hubVars,
       HubTypes, RedisTypes
  <2>2. \A c \in entry : cacheType = 1 => TerminalOf[c] \in left'[s]
    BY <1>9, TerminalOfAssumption DEF Redis!TimerFires, ListInv, Life, HubTypes,
       RedisTypes
  <2>3. up => Expiring'
    BY <2>1, <2>2, FiringKeepsExpiring DEF ListInv, SweepInv
  <2>4. up => SweepInv'
    BY <2>1 DEF ListInv, SweepInv, RedisTypes
  <2>5. \A c \in Clients : Life(c)'
    BY <2>1 DEF ListInv, Life
  <2>6. QED
    BY <2>1, <2>3, <2>4, <2>5 DEF ListInv
<1>10. ASSUME NEW s \in Sweeps, Redis!NextKey(s)
      PROVE  ListInv'
  BY <1>10, Times, TerminalOfAssumption DEF Redis!NextKey, Redis!SetStage,
     Redis!cacheVars, Redis!timerVars, Redis!hubVars, HubTypes, RedisTypes, ListInv,
     Life, Expiring, Covers, InReach, SweepInv
<1>11. ASSUME NEW s \in Sweeps, Redis!EndSweep(s)
      PROVE  ListInv'
  BY <1>11, Times, TerminalOfAssumption DEF Redis!EndSweep, Redis!SetStage,
     Redis!cacheVars, Redis!timerVars, Redis!hubVars, HubTypes, RedisTypes, ListInv,
     Life, Expiring, Covers, InReach, SweepInv
<1>12. ASSUME NEW s \in Sweeps, Redis!LoopThrows(s)
      PROVE  ListInv'
  BY <1>12, Times, TerminalOfAssumption DEF Redis!LoopThrows, Redis!cacheVars,
     Redis!timerVars, Redis!sweepVars, HubTypes, RedisTypes, ListInv, Life, Expiring,
     Covers, InReach, SweepInv
<1>13. ASSUME NEW s \in Sweeps, NEW c \in Clients, Redis!Look(s, c)
      PROVE  ListInv'
  BY <1>13, Times, TerminalOfAssumption DEF Redis!Look, Redis!SetStage,
     Redis!OverTime, Redis!Expired, Redis!cacheVars, Redis!timerVars, Redis!hubVars,
     HubTypes, RedisTypes, ListInv, Life, Expiring, Covers, InReach, SweepInv
<1>14. ASSUME NEW s \in Sweeps, Redis!Delete(s)
      PROVE  ListInv'
  BY <1>14, Times, TerminalOfAssumption DEF Redis!Delete, Redis!Delist, Redis!Notify,
     Redis!SetStage, Redis!timerVars, Redis!hubVars, HubTypes, RedisTypes, ListInv,
     Life, Expiring, Covers, InReach, SweepInv
<1>15. ASSUME NEW s \in Sweeps, Redis!NoticesReturn(s)
      PROVE  ListInv'
  BY <1>15, Times, TerminalOfAssumption DEF Redis!NoticesReturn, Redis!SetStage,
     Redis!cacheVars, Redis!timerVars, Redis!hubVars, HubTypes, RedisTypes, ListInv,
     Life, Expiring, Covers, InReach, SweepInv
<1>16. ASSUME NEW s \in Sweeps, Redis!EndFields(s)
      PROVE  ListInv'
  BY <1>16, Times, TerminalOfAssumption DEF Redis!EndFields, Redis!SetStage,
     Redis!cacheVars, Redis!timerVars, Redis!hubVars, HubTypes, RedisTypes, ListInv,
     Life, Expiring, Covers, InReach, SweepInv
<1>17. ASSUME Redis!Tick
      PROVE  ListInv'
  <2>1. /\ Pass(up)
        /\ UNCHANGED <<cacheType, up, writing, keys, left, fields, conn, entry,
                       listening, stage, picked>>
    BY <1>17 DEF Redis!Tick, Redis!Pass, Redis!Older, Redis!MaxAge, Redis!OldestEntry,
       Redis!Beating, Pass, Older, MaxAge, OldestEntry, Beating
  <2>2. ASSUME up
        PROVE  Expiring'
    <3>1. Expiring /\ \A c \in entry : listening
      BY <2>2 DEF ListInv, Life, HubTypes
    <3>2. Pass(TRUE)
      BY <2>1, <2>2 DEF Pass
    <3>3. QED
      BY <2>1, <3>1, <3>2, PassKeepsExpiring
  <2>3. up => SweepInv'
    BY <2>1 DEF ListInv, SweepInv, RedisTypes, Pass
  <2>4. \A c \in Clients : Life(c)'
    BY <2>1 DEF ListInv, Life
  <2>5. QED
    BY <2>1, <2>2, <2>3, <2>4 DEF ListInv
<1>18. QED
  BY <1>1, <1>2, <1>3, <1>4, <1>5, <1>6, <1>7, <1>8, <1>9, <1>10, <1>11, <1>12,
     <1>13, <1>14, <1>15, <1>16, <1>17 DEF Redis!Next, Redis!ClientStep,
     Redis!SweepStep

LEMMA RedisPresent ==
  ASSUME HubTypes, RedisTypes, ListInv, PresenceInv,
         HeartbeatsInTime, FirstClientsApart, cacheType = 1, Redis!Next, UNCHANGED <<cacheType, dict>>
  PROVE  PresenceInv'
<1>1. ASSUME NEW c \in Clients, Redis!Connect(c)
      PROVE  PresenceInv'
  BY <1>1, Times, TerminalOfAssumption DEF Redis!Connect, Redis!StartTimer,
     Redis!Become, Redis!cacheVars, Redis!sweepVars, HubTypes, RedisTypes, ListInv,
     Life, PresenceInv, Told, Gone, Fresh, Victims, OneFirst, HeartbeatsInTime,
     FirstClientsApart
<1>2. ASSUME NEW c \in Clients, Redis!ConnectSet(c)
      PROVE  PresenceInv'
  BY <1>2, Times, TerminalOfAssumption DEF Redis!ConnectSet, Redis!List, Redis!Become,
     Redis!timerVars, Redis!sweepVars, HubTypes, RedisTypes, ListInv, Life,
     PresenceInv, Told, Gone, Fresh, Victims, OneFirst, HeartbeatsInTime,
     FirstClientsApart
<1>3. ASSUME NEW c \in Clients, Redis!Joined(c)
      PROVE  PresenceInv'
  BY <1>3, Times, TerminalOfAssumption DEF Redis!Joined, Redis!Become,
     Redis!cacheVars, Redis!timerVars, Redis!sweepVars, HubTypes, RedisTypes, ListInv,
     Life, PresenceInv, Told, Gone, Fresh, Victims, OneFirst, HeartbeatsInTime,
     FirstClientsApart
<1>4. ASSUME NEW c \in Clients, Redis!JoinFails(c)
      PROVE  PresenceInv'
  BY <1>4, Times, TerminalOfAssumption DEF Redis!JoinFails, Redis!Become,
     Redis!cacheVars, Redis!timerVars, Redis!sweepVars, HubTypes, RedisTypes, ListInv,
     Life, PresenceInv, Told, Gone, Fresh, Victims, OneFirst, HeartbeatsInTime,
     FirstClientsApart
<1>5. ASSUME NEW c \in Clients, Redis!RefreshGet(c)
      PROVE  PresenceInv'
  BY <1>5, Times, TerminalOfAssumption DEF Redis!RefreshGet, Redis!MayRefresh,
     Redis!cacheVars, Redis!timerVars, Redis!sweepVars, HubTypes, RedisTypes, ListInv,
     Life, PresenceInv, Told, Gone, Fresh, Victims, OneFirst, HeartbeatsInTime,
     FirstClientsApart
<1>6. ASSUME NEW c \in Clients, Redis!RefreshSet(c)
      PROVE  PresenceInv'
  BY <1>6, Times, TerminalOfAssumption DEF Redis!RefreshSet, Redis!List,
     Redis!timerVars, Redis!sweepVars, HubTypes, RedisTypes, ListInv, Life,
     PresenceInv, Told, Gone, Fresh, Victims, OneFirst, HeartbeatsInTime,
     FirstClientsApart
<1>7. ASSUME NEW c \in Clients, Redis!Disconnect(c)
      PROVE  PresenceInv'
  BY <1>7, Times, TerminalOfAssumption DEF Redis!Disconnect, Redis!Become,
     Redis!Notify, Redis!cacheVars, Redis!timerVars, Redis!sweepVars, HubTypes,
     RedisTypes, ListInv, Life, PresenceInv, Told, Gone, Fresh, Victims, OneFirst,
     HeartbeatsInTime, FirstClientsApart
<1>8. ASSUME NEW c \in Clients, Redis!DisconnectEnd(c)
      PROVE  PresenceInv'
  BY <1>8, Times, TerminalOfAssumption DEF Redis!DisconnectEnd, Redis!Become,
     Redis!Delist, Redis!timerVars, Redis!sweepVars, HubTypes, RedisTypes, ListInv,
     Life, PresenceInv, Told, Gone, Fresh, Victims, OneFirst, HeartbeatsInTime,
     FirstClientsApart
<1>9. ASSUME NEW s \in Sweeps, Redis!TimerFires(s)
      PROVE  PresenceInv'
  BY <1>9, Times, TerminalOfAssumption DEF Redis!TimerFires, Redis!SetStage,
     Redis!cacheVars, Redis!hubVars, HubTypes, RedisTypes, ListInv, Life, PresenceInv,
     Told, Gone, Fresh, Victims, OneFirst, HeartbeatsInTime, FirstClientsApart
<1>10. ASSUME NEW s \in Sweeps, Redis!NextKey(s)
      PROVE  PresenceInv'
  BY <1>10, Times, TerminalOfAssumption DEF Redis!NextKey, Redis!SetStage,
     Redis!cacheVars, Redis!timerVars, Redis!hubVars, HubTypes, RedisTypes, ListInv,
     Life, PresenceInv, Told, Gone, Fresh, Victims, OneFirst, HeartbeatsInTime,
     FirstClientsApart
<1>11. ASSUME NEW s \in Sweeps, Redis!EndSweep(s)
      PROVE  PresenceInv'
  BY <1>11, Times, TerminalOfAssumption DEF Redis!EndSweep, Redis!SetStage,
     Redis!cacheVars, Redis!timerVars, Redis!hubVars, HubTypes, RedisTypes, ListInv,
     Life, PresenceInv, Told, Gone, Fresh, Victims, OneFirst, HeartbeatsInTime,
     FirstClientsApart
<1>12. ASSUME NEW s \in Sweeps, Redis!LoopThrows(s)
      PROVE  PresenceInv'
  BY <1>12, Times, TerminalOfAssumption DEF Redis!LoopThrows, Redis!cacheVars,
     Redis!timerVars, Redis!sweepVars, HubTypes, RedisTypes, ListInv, Life,
     PresenceInv, Told, Gone, Fresh, Victims, OneFirst, HeartbeatsInTime,
     FirstClientsApart
<1>13. ASSUME NEW s \in Sweeps, NEW c \in Clients, Redis!Look(s, c)
      PROVE  PresenceInv'
  BY <1>13, Times, TerminalOfAssumption DEF Redis!Look, Redis!SetStage,
     Redis!OverTime, Redis!Expired, Redis!cacheVars, Redis!timerVars, Redis!hubVars,
     HubTypes, RedisTypes, ListInv, Life, PresenceInv, Told, Gone, Fresh, Victims,
     OneFirst, HeartbeatsInTime, FirstClientsApart
<1>14. ASSUME NEW s \in Sweeps, Redis!Delete(s)
      PROVE  PresenceInv'
  BY <1>14, Times, TerminalOfAssumption DEF Redis!Delete, Redis!Delist, Redis!Notify,
     Redis!SetStage, Redis!timerVars, Redis!hubVars, HubTypes, RedisTypes, ListInv,
     Life, PresenceInv, Told, Gone, Fresh, Victims, OneFirst, HeartbeatsInTime,
     FirstClientsApart
<1>15. ASSUME NEW s \in Sweeps, Redis!NoticesReturn(s)
      PROVE  PresenceInv'
  BY <1>15, Times, TerminalOfAssumption DEF Redis!NoticesReturn, Redis!SetStage,
     Redis!cacheVars, Redis!timerVars, Redis!hubVars, HubTypes, RedisTypes, ListInv,
     Life, PresenceInv, Told, Gone, Fresh, Victims, OneFirst, HeartbeatsInTime,
     FirstClientsApart
<1>16. ASSUME NEW s \in Sweeps, Redis!EndFields(s)
      PROVE  PresenceInv'
  BY <1>16, Times, TerminalOfAssumption DEF Redis!EndFields, Redis!SetStage,
     Redis!cacheVars, Redis!timerVars, Redis!hubVars, HubTypes, RedisTypes, ListInv,
     Life, PresenceInv, Told, Gone, Fresh, Victims, OneFirst, HeartbeatsInTime,
     FirstClientsApart
<1>17. ASSUME Redis!Tick
      PROVE  PresenceInv'
  BY <1>17, Times, TerminalOfAssumption DEF Redis!Tick, Redis!HubOnTime, Redis!Pass,
     Redis!Older, Redis!MaxAge, Redis!OldestEntry, Redis!Beating, HubTypes,
     RedisTypes, ListInv, Life, PresenceInv, Told, Gone, Fresh, Victims, OneFirst,
     HeartbeatsInTime, FirstClientsApart
<1>18. QED
  BY <1>1, <1>2, <1>3, <1>4, <1>5, <1>6, <1>7, <1>8, <1>9, <1>10, <1>11, <1>12,
     <1>13, <1>14, <1>15, <1>16, <1>17 DEF Redis!Next, Redis!ClientStep,
     Redis!SweepStep

-----------------------------------------------------------------------------
(* The theorems                                                            *)

LEMMA InitPresence == Init => TypeOK /\ ListInv /\ PresenceInv
<1> SUFFICES ASSUME Init
             PROVE  TypeOK /\ ListInv /\ PresenceInv
  OBVIOUS
<1>1. HubTypes
  <2>1. /\ 0 \in 0 .. RefreshEvery + Slack /\ 0 \in 0 .. MaxAge /\ 0 \in 0 .. 2
        /\ 0 \in 0 .. SweepEvery + Slack /\ 0 \in 0 .. MaxPass
    BY Times
  <2>2. QED
    BY <2>1 DEF Init, Redis!Init, Redis!InitHub, HubTypes
<1>2. MemoryTypes /\ RedisTypes
  BY DEF Init, Memory!Init, Redis!Init, Redis!InitHub, MemoryTypes, RedisTypes
<1>3. ListInv
  BY DEF Init, Redis!Init, Redis!InitHub, ListInv, Life, Expiring, SweepInv
<1>4. PresenceInv
  BY DEF Init, Redis!Init, Redis!InitHub, PresenceInv, Told, Gone, Fresh, Victims,
     OneFirst
<1>5. QED
  BY <1>1, <1>2, <1>3, <1>4, TypesUnfold

LEMMA StepTyped == TypeOK /\ [Next]_vars => TypeOK'
<1> SUFFICES ASSUME HubTypes, IF cacheType = 0 THEN MemoryTypes ELSE RedisTypes, [Next]_vars
             PROVE  HubTypes' /\ (IF cacheType = 0 THEN MemoryTypes ELSE RedisTypes)'
  BY TypesUnfold
<1>1. CASE InMemory(Memory!Next)
  BY <1>1, MemoryTyped DEF InMemory
<1>2. CASE InRedis(Redis!Next)
  BY <1>2, RedisTyped DEF InRedis
<1>3. CASE UNCHANGED vars
  BY <1>3 DEF vars, redisVars, HubTypes, MemoryTypes, RedisTypes
<1>4. QED
  BY <1>1, <1>2, <1>3 DEF Next

LEMMA StepLists == TypeOK /\ ListInv /\ [Next]_vars => ListInv'
<1> SUFFICES ASSUME HubTypes, IF cacheType = 0 THEN MemoryTypes ELSE RedisTypes,
                    ListInv, [Next]_vars
             PROVE  ListInv'
  BY TypesUnfold
<1>1. CASE InMemory(Memory!Next)
  BY <1>1, MemoryLists DEF InMemory
<1>2. CASE InRedis(Redis!Next)
  BY <1>2, RedisLists DEF InRedis
<1>3. CASE UNCHANGED vars
  BY <1>3 DEF vars, redisVars, ListInv, Life, Expiring, Covers, InReach, SweepInv
<1>4. QED
  BY <1>1, <1>2, <1>3 DEF Next

LEMMA StepPresent ==
  ASSUME HeartbeatsInTime, FirstClientsApart
  PROVE  TypeOK /\ ListInv /\ PresenceInv /\ [Next]_vars => PresenceInv'
<1> SUFFICES ASSUME HubTypes, IF cacheType = 0 THEN MemoryTypes ELSE RedisTypes,
                    ListInv, PresenceInv, [Next]_vars
             PROVE  PresenceInv'
  BY TypesUnfold
<1>1. CASE InMemory(Memory!Next)
  BY <1>1, MemoryPresent DEF InMemory
<1>2. CASE InRedis(Redis!Next)
  BY <1>2, RedisPresent DEF InRedis
<1>3. CASE UNCHANGED vars
  BY <1>3 DEF vars, redisVars, PresenceInv, Told, Gone, Fresh, Victims, OneFirst
<1>4. QED
  BY <1>1, <1>2, <1>3 DEF Next

\* Every reachable state of the cache, the connections and the timer is well typed:
\* no heartbeat, timer or callback is later than its bound, no age beyond MaxAge.
THEOREM PresenceTypeCorrect == Spec => []TypeOK
<1>1. Init => TypeOK
  BY InitPresence
<1>2. TypeOK /\ [Next]_vars => TypeOK'
  BY StepTyped
<1>3. QED
  BY <1>1, <1>2, PTL DEF Spec

\* A sweep of a running process drops every entry without heartbeats before it is older
\* than OldestEntry, however many callbacks overlap, and in memory no late heartbeat
\* lists a client whose OnDisconnectedAsync has returned.
THEOREM EntriesAreDropped == Spec => []GoneAreForgotten
<1>1. Init => TypeOK /\ ListInv
  BY InitPresence
<1>2. TypeOK /\ ListInv /\ [Next]_vars => TypeOK' /\ ListInv'
  BY StepTyped, StepLists
<1>3. TypeOK /\ ListInv => GoneAreForgotten
  <2> SUFFICES ASSUME HubTypes, ListInv
               PROVE  GoneAreForgotten
    BY TypesUnfold
  <2>1. up => EntriesExpire
    BY OldestInTime DEF ListInv, EntriesExpire
  <2>2. cacheType = 0 => ClosedIsOffline
    BY DEF ListInv, Life, ClosedIsOffline
  <2>3. QED
    BY <2>1, <2>2 DEF GoneAreForgotten
<1>4. QED
  BY <1>1, <1>2, <1>3, PTL DEF Spec

\* A connected client stays online in either cache, if heartbeats are not later than
\* the limit of the listener and the first clients of a terminal do not race.
THEOREM ConnectedStayOnline ==
  ASSUME HeartbeatsInTime, FirstClientsApart
  PROVE  Spec => []ConnectedAreOnline
<1>1. Init => TypeOK /\ ListInv /\ PresenceInv
  BY InitPresence
<1>2. TypeOK /\ ListInv /\ PresenceInv /\ [Next]_vars => TypeOK' /\ ListInv' /\ PresenceInv'
  BY StepTyped, StepLists, StepPresent
<1>3. TypeOK /\ PresenceInv => ConnectedAreOnline
  <2> SUFFICES ASSUME HubTypes, PresenceInv, up, NEW c \in Clients, conn[c] = "open"
               PROVE  c \in entry /\ age[c] <= DisLine
    BY TypesUnfold DEF ConnectedAreOnline, OnlineWhileConnected, Online
  <2>1. c \in entry /\ age[c] <= RefreshEvery + Slack /\ age[c] \in Nat
    BY Times DEF PresenceInv, Fresh, HubTypes
  <2>2. QED
    BY <2>1, Times DEF HeartbeatsInTime
<1>4. QED
  BY <1>1, <1>2, <1>3, PTL DEF Spec

\* Under the same conditions the application is told of every client that went away,
\* or the client is still listed, and it is told of no connected one.
THEOREM ApplicationIsTold ==
  ASSUME HeartbeatsInTime, FirstClientsApart
  PROVE  Spec => []GoneAreNoticed
<1>1. Init => TypeOK /\ ListInv /\ PresenceInv
  BY InitPresence
<1>2. TypeOK /\ ListInv /\ PresenceInv /\ [Next]_vars => TypeOK' /\ ListInv' /\ PresenceInv'
  BY StepTyped, StepLists, StepPresent
<1>3. PresenceInv => GoneAreNoticed
  BY DEF PresenceInv, Told, Gone, GoneAreNoticed, NoNoticeWhileConnected
<1>4. QED
  BY <1>1, <1>2, <1>3, PTL DEF Spec

=============================================================================

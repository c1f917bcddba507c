--------------------------- MODULE RedisHubCache ----------------------------
(***************************************************************************)
(* Presence of SignalR clients kept in Redis: RedisHubCacheManager (a hash *)
(* of clients per terminal) and RedisHubHeartOverTimeListener, under the   *)
(* same hub calls and heartbeats as MemoryHubCache.  Every Redis command   *)
(* is an await of its own, so calls interleave between a read and a write. *)
(*                                                                         *)
(* Time is counted in steps of five seconds; a Redis command takes none.   *)
(***************************************************************************)
EXTENDS BaseHub

VARIABLES
  up,        \* is the process running
  writing,   \* connections whose Refresh has read the entry and awaits HSet
  keys,      \* terminals the listener knows (_keys)
  looped,    \* _keys when the loop of a timer callback began
  left,      \* terminals that loop has still to visit
  fields     \* clients of the visited hash it has still to look at

hubVars == <<up, conn, writing, beat>>
cacheVars == <<entry, age>>
timerVars == <<keys, listening, timer>>
sweepVars == <<stage, since, looped, left, fields, picked>>
vars == <<up, conn, writing, entry, age, beat, notices, keys, listening, timer,
          stage, since, looped, left, fields, picked>>

Init ==
  /\ InitHub
  /\ up = TRUE
  /\ writing = {} /\ keys = {}
  /\ looped = [s \in Sweeps |-> {}]
  /\ left = [s \in Sweeps |-> {}]
  /\ fields = [s \in Sweeps |-> {}]

-----------------------------------------------------------------------------
(* BaseHub.OnConnectedAsync, ClientOnConnection                             *)

\* CheckIfOverTime, then HGetAsync finds no entry for a new connection id.
Connect(c) ==
  /\ up /\ conn[c] = "new"
  /\ keys' = keys \cup {TerminalOf[c]}
  /\ StartTimer
  /\ Become(c, "connecting")
  /\ UNCHANGED <<up, writing, beat, cacheVars, notices, sweepVars>>

ConnectSet(c) ==
  /\ up /\ conn[c] = "connecting"
  /\ List(c)
  /\ Become(c, "joining")
  /\ UNCHANGED <<up, writing, beat, notices, timerVars, sweepVars>>

Joined(c) ==
  /\ up /\ conn[c] = "joining"
  /\ Become(c, "open")
  /\ UNCHANGED <<up, writing, beat, cacheVars, notices, timerVars, sweepVars>>

\* OnConnectedAsync throws: SignalR closes the connection and does not call
\* OnDisconnectedAsync.
JoinFails(c) ==
  /\ up /\ conn[c] = "joining"
  /\ Become(c, "vanished")
  /\ UNCHANGED <<up, writing, beat, cacheVars, notices, timerVars, sweepVars>>

-----------------------------------------------------------------------------
(* The heartbeat of a connection: Refresh                                   *)

\* HGetAsync: without an entry there is nothing to update.
RefreshGet(c) ==
  /\ up /\ c \in MayRefresh \ writing
  /\ beat' = [beat EXCEPT ![c] = 0]
  /\ writing' = IF c \in entry THEN writing \cup {c} ELSE writing
  /\ UNCHANGED <<up, conn, cacheVars, notices, timerVars, sweepVars>>

RefreshSetStale(c) ==   \* mutant: writes back the HeartTime it read
  /\ up /\ c \in writing
  /\ writing' = writing \ {c}
  /\ UNCHANGED <<up, conn, beat, cacheVars, notices, timerVars, sweepVars>>

RefreshSet(c) ==
  /\ up /\ c \in writing
  /\ writing' = writing \ {c}
  /\ List(c)
  /\ UNCHANGED <<up, conn, beat, notices, timerVars, sweepVars>>

-----------------------------------------------------------------------------
(* BaseHub.OnDisconnectedAsync                                              *)

Disconnect(c) ==
  /\ up /\ conn[c] = "open"
  /\ Become(c, "leaving")
  /\ Notify(c)
  /\ UNCHANGED <<up, writing, beat, cacheVars, timerVars, sweepVars>>

DisconnectEnd(c) ==
  /\ up /\ conn[c] = "leaving"
  /\ Become(c, "closed")
  /\ Delist(c)
  /\ UNCHANGED <<up, writing, beat, notices, timerVars, sweepVars>>

-----------------------------------------------------------------------------
(* RedisHubHeartOverTimeListener.Executing                                  *)

TimerFires(s) ==
  /\ up /\ listening /\ timer >= SweepEvery /\ stage[s] = "off"
  /\ timer' = 0
  /\ SetStage(s, "keys")
  /\ looped' = [looped EXCEPT ![s] = keys]
  /\ left' = [left EXCEPT ![s] = keys]
  /\ UNCHANGED <<hubVars, cacheVars, notices, keys, listening, since, fields, picked>>

\* The next terminal of the loop: HKeysAsync.
NextKey(s) ==
  /\ up /\ stage[s] = "keys" /\ keys = looped[s]
  /\ \E t \in left[s] :
       /\ left' = [left EXCEPT ![s] = left[s] \ {t}]
       /\ fields' = [fields EXCEPT ![s] = {c \in entry : TerminalOf[c] = t}]
  /\ SetStage(s, "fields")
  /\ UNCHANGED <<hubVars, cacheVars, notices, timerVars, since, looped, picked>>

EndSweep(s) ==
  /\ up /\ stage[s] = "keys" /\ keys = looped[s] /\ left[s] = {}
  /\ SetStage(s, "off")
  /\ since' = [since EXCEPT ![s] = 0]
  /\ looped' = [looped EXCEPT ![s] = {}]
  /\ UNCHANGED <<hubVars, cacheVars, notices, timerVars, left, fields, picked>>

\* The HashSet was changed during the loop: its enumerator throws out of an
\* async void method, which ends the process.
LoopThrows(s) ==
  /\ up /\ stage[s] = "keys" /\ keys # looped[s]
  /\ up' = FALSE
  /\ UNCHANGED <<conn, writing, beat, cacheVars, notices, timerVars, sweepVars>>

OverTime == Expired(DisLine)

\* HGetAsync of one field, and the test of its HeartTime.
Look(s, c) ==
  /\ up /\ stage[s] = "fields" /\ c \in fields[s]
  /\ IF c \in OverTime
     THEN SetStage(s, "delete") /\ picked' = [picked EXCEPT ![s] = c]
     ELSE UNCHANGED <<stage, picked>>
  /\ fields' = [fields EXCEPT ![s] = fields[s] \ {c}]
  /\ UNCHANGED <<hubVars, cacheVars, notices, timerVars, since, looped, left>>

\* HDelAsync, then the await of the notices.
Delete(s) ==
  /\ up /\ stage[s] = "delete"
  /\ Delist(picked[s])
  /\ Notify(picked[s])
  /\ SetStage(s, "notice")
  /\ UNCHANGED <<hubVars, timerVars, since, looped, left, fields, picked>>

NoticesReturn(s) ==
  /\ up /\ stage[s] = "notice"
  /\ SetStage(s, "fields")
  /\ picked' = [picked EXCEPT ![s] = NoClient]
  /\ UNCHANGED <<hubVars, cacheVars, notices, timerVars, since, looped, left, fields>>

EndFields(s) ==
  /\ up /\ stage[s] = "fields" /\ fields[s] = {}
  /\ SetStage(s, "keys")
  /\ UNCHANGED <<hubVars, cacheVars, notices, timerVars, since, looped, left, fields, picked>>

-----------------------------------------------------------------------------
\* Time passes; Redis commands take none.
Tick ==
  /\ up => /\ HubOnTime
           /\ writing = {} /\ \A c \in Clients : conn[c] # "connecting"
           /\ \A s \in Sweeps : stage[s] \in {"off", "notice"}
  /\ Pass(up)
  /\ UNCHANGED <<up, conn, writing, entry, notices, keys, listening,
                 stage, looped, left, fields, picked>>

ClientStep(c) ==
  \/ Connect(c) \/ ConnectSet(c) \/ Joined(c) \/ JoinFails(c)
  \/ RefreshGet(c) \/ RefreshSet(c)
  \/ Disconnect(c) \/ DisconnectEnd(c)

SweepStep(s) ==
  \/ TimerFires(s) \/ NextKey(s) \/ EndSweep(s) \/ LoopThrows(s)
  \/ (\E c \in Clients : Look(s, c)) \/ Delete(s) \/ NoticesReturn(s) \/ EndFields(s)

Next == (\E c \in Clients : ClientStep(c)) \/ (\E s \in Sweeps : SweepStep(s)) \/ Tick

Spec == Init /\ [][Next]_vars

TypeOK ==
  /\ TypeHub
  /\ up \in BOOLEAN
  /\ writing \subseteq Clients /\ keys \subseteq Terminals
  /\ stage \in [Sweeps -> {"off", "keys", "fields", "delete", "notice"}]
  /\ looped \in [Sweeps -> SUBSET Terminals]
  /\ left \in [Sweeps -> SUBSET Terminals]
  /\ fields \in [Sweeps -> SUBSET Clients]

=============================================================================

--------------------------- MODULE MemoryHubCache ---------------------------
(***************************************************************************)
(* MemoryHubCacheManager, a dictionary of clients per terminal, and        *)
(* MemoryHubHeartOverTimeListener.  They do not await between looking at   *)
(* the dictionaries and changing them, but they run on several threads.    *)
(***************************************************************************)
EXTENDS BaseHub

CONSTANT Serial   \* does the host start the first clients of a terminal one at a time

VARIABLE dict     \* terminals that have a dictionary in _memoryCache

cacheVars == <<dict, entry, age>>
timerVars == <<listening, timer>>
sweepVars == <<stage, since, picked>>
vars == <<conn, beat, dict, entry, age, notices, listening, timer, stage, since, picked>>

Init == InitHub /\ dict = {}

-----------------------------------------------------------------------------
(* ClientOnConnection                                                       *)

\* The terminal has a dictionary: the client is added to it.
Connect(c) ==
  /\ conn[c] = "new" /\ TerminalOf[c] \in dict
  /\ StartTimer /\ List(c) /\ Become(c, "joining")
  /\ UNCHANGED <<dict, beat, notices, sweepVars>>

\* It has none: the client prepares one of its own.
ConnectFirst(c) ==
  /\ conn[c] = "new" /\ TerminalOf[c] \notin dict
  /\ Serial => \A d \in Clients : conn[d] # "connecting"
  /\ StartTimer /\ Become(c, "connecting")
  /\ UNCHANGED <<cacheVars, beat, notices, sweepVars>>

ConnectAddMisnamed(c) ==   \* mutant: the dictionary is filed under the connection id
  /\ conn[c] = "connecting"
  /\ dict' = dict \cup {c} /\ List(c) /\ Become(c, "joining")
  /\ UNCHANGED <<beat, notices, timerVars, sweepVars>>

\* TryAdd of that dictionary does nothing if another client has added one.
ConnectAddDictionary(c) ==
  /\ conn[c] = "connecting"
  /\ IF TerminalOf[c] \in dict
     THEN UNCHANGED cacheVars
     ELSE dict' = dict \cup {TerminalOf[c]} /\ List(c)
  /\ Become(c, "joining")
  /\ UNCHANGED <<beat, notices, timerVars, sweepVars>>

-----------------------------------------------------------------------------
(* The rest of OnConnectedAsync, and OnDisconnectedAsync                    *)

Joined(c) ==
  /\ conn[c] = "joining" /\ Become(c, "open")
  /\ UNCHANGED <<cacheVars, beat, notices, timerVars, sweepVars>>

\* OnConnectedAsync throws: SignalR closes the connection and does not call
\* OnDisconnectedAsync.
JoinFails(c) ==
  /\ conn[c] = "joining" /\ Become(c, "vanished")
  /\ UNCHANGED <<cacheVars, beat, notices, timerVars, sweepVars>>

Disconnect(c) ==
  /\ conn[c] = "open" /\ Become(c, "leaving")
  /\ Notify(c)
  /\ UNCHANGED <<cacheVars, beat, timerVars, sweepVars>>

\* The notices returned or threw; ClientDisConnection clears the entry.
DisconnectEnd(c) ==
  /\ conn[c] = "leaving" /\ Become(c, "closed")
  /\ Delist(c)
  /\ UNCHANGED <<dict, beat, notices, timerVars, sweepVars>>

-----------------------------------------------------------------------------
(* Refresh                                                                  *)

RefreshAdds(c) ==   \* mutant: lists a client that has no entry again
  /\ c \in MayRefresh
  /\ beat' = [beat EXCEPT ![c] = 0]
  /\ List(c)
  /\ UNCHANGED <<conn, dict, notices, timerVars, sweepVars>>

Refresh(c) ==
  /\ c \in MayRefresh
  /\ beat' = [beat EXCEPT ![c] = 0]
  /\ IF c \in entry THEN List(c) ELSE UNCHANGED <<entry, age>>
  /\ UNCHANGED <<conn, dict, notices, timerVars, sweepVars>>

-----------------------------------------------------------------------------
(* MemoryHubHeartOverTimeListener.Executing                                 *)

TimerFires(s) ==
  /\ listening /\ timer >= SweepEvery /\ stage[s] = "off"
  /\ timer' = 0
  /\ SetStage(s, "scan")
  /\ UNCHANGED <<conn, beat, cacheVars, notices, listening, since, picked>>

\* Clients whose HeartTime is older than the limit by the time the callback read
\* when it began.
OverTime(s) == Expired(DisLine + since[s])

Pick(s) ==
  /\ stage[s] = "scan"
  /\ \E c \in OverTime(s) : picked' = [picked EXCEPT ![s] = c]
  /\ SetStage(s, "remove")
  /\ UNCHANGED <<conn, beat, cacheVars, notices, timerVars, since>>

RemoveSilently(s) ==   \* mutant: goes on with the next client without a notice
  /\ stage[s] = "remove"
  /\ Delist(picked[s]) /\ SetStage(s, "scan")
  /\ UNCHANGED <<conn, beat, dict, notices, timerVars, since, picked>>

\* TryRemove, then the await of the notices.
Remove(s) ==
  /\ stage[s] = "remove"
  /\ Delist(picked[s]) /\ Notify(picked[s]) /\ SetStage(s, "notice")
  /\ UNCHANGED <<conn, beat, dict, timerVars, since, picked>>

NoticesReturn(s) ==
  /\ stage[s] = "notice"
  /\ SetStage(s, "scan")
  /\ picked' = [picked EXCEPT ![s] = NoClient]
  /\ UNCHANGED <<conn, beat, cacheVars, notices, timerVars, since>>

EndSweep(s) ==
  /\ stage[s] = "scan" /\ OverTime(s) = {}
  /\ SetStage(s, "off")
  /\ since' = [since EXCEPT ![s] = 0]
  /\ UNCHANGED <<conn, beat, cacheVars, notices, timerVars, picked>>

-----------------------------------------------------------------------------
\* Time passes; code that does not await takes none.
Tick ==
  /\ HubOnTime
  /\ \A c \in Clients : conn[c] # "connecting"
  /\ \A s \in Sweeps : stage[s] # "remove"
  /\ Pass(TRUE)
  /\ UNCHANGED <<conn, dict, entry, notices, listening, stage, picked>>

ClientStep(c) ==
  \/ Connect(c) \/ ConnectFirst(c) \/ ConnectAddDictionary(c)
  \/ Joined(c) \/ JoinFails(c) \/ Refresh(c)
  \/ Disconnect(c) \/ DisconnectEnd(c)

SweepStep(s) == TimerFires(s) \/ Pick(s) \/ Remove(s) \/ NoticesReturn(s) \/ EndSweep(s)

Next == (\E c \in Clients : ClientStep(c)) \/ (\E s \in Sweeps : SweepStep(s)) \/ Tick

Spec == Init /\ [][Next]_vars

TypeOK ==
  /\ TypeHub
  /\ dict \subseteq Terminals
  /\ stage \in [Sweeps -> {"off", "scan", "remove", "notice"}]

=============================================================================

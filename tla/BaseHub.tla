------------------------------ MODULE BaseHub -------------------------------
(***************************************************************************)
(* What MemoryHubCache and RedisHubCache have in common: the life of a     *)
(* SignalR connection in BaseHub (OnConnectedAsync, its heartbeat,         *)
(* OnDisconnectedAsync), the entries of IHubCacheManager and the timer of  *)
(* the listeners that drop clients without a heartbeat.                    *)
(*                                                                         *)
(* Hub calls, heartbeats and timer callbacks run on pool threads.  Time is *)
(* counted in steps of five seconds: ages are measured, clocks are not.    *)
(***************************************************************************)
EXTENDS Naturals, FiniteSets

CONSTANTS
  Clients,      \* SignalR connections; a connection id is never reused
  Terminals,    \* "web", "android": one hub class each
  TerminalOf,   \* the hub of each connection
  Sweeps,       \* timer callbacks that may be running at once
  NoClient,
  RefreshEvery, \* HeartBeatIntervalSeconds
  DisLine,      \* disLineSecond
  SweepEvery,   \* period of the listener's timer
  Slack,        \* how late the server may run a heartbeat or the timer
  MaxPass       \* how long a timer callback lasts, its notices included

ASSUME TerminalOfAssumption == TerminalOf \in [Clients -> Terminals]
ASSUME NoClientAssumption == NoClient \notin Clients
ASSUME TimesAssumption ==
  {RefreshEvery, DisLine, SweepEvery, Slack, MaxPass} \subseteq Nat

\* No entry gets older than this before a sweep has dropped it (EntriesExpire).
OldestEntry == DisLine + SweepEvery + Slack + MaxPass
MaxAge == OldestEntry + 1     \* bound: ages are not counted further

ConnState == {"new", "connecting", "joining", "open", "leaving", "closed", "vanished"}

VARIABLES
  conn,      \* each connection: "connecting" is inside ClientOnConnection, "joining"
             \* awaits AddToGroupAsync, "leaving" awaits the disconnection notices
  beat,      \* time since its last Refresh
  entry,     \* clients the cache lists
  age,       \* time since HeartTime of an entry
  notices,   \* calls of ClientDisConnectionNoticeAysnc (bound: 2 means 2 or more)
  listening, \* was the timer started
  timer,     \* time since it fired
  stage,     \* what each timer callback does
  since,     \* time since it began
  picked     \* the client it is dropping

InitHub ==
  /\ conn = [c \in Clients |-> "new"]
  /\ beat = [c \in Clients |-> 0]
  /\ entry = {}
  /\ age = [c \in Clients |-> 0]
  /\ notices = [c \in Clients |-> 0]
  /\ listening = FALSE /\ timer = 0
  /\ stage = [s \in Sweeps |-> "off"]
  /\ since = [s \in Sweeps |-> 0]
  /\ picked = [s \in Sweeps |-> NoClient]

TypeHub ==
  /\ conn \in [Clients -> ConnState]
  /\ beat \in [Clients -> 0 .. RefreshEvery + Slack]
  /\ entry \subseteq Clients
  /\ age \in [Clients -> 0 .. MaxAge]
  /\ notices \in [Clients -> 0 .. 2]
  /\ listening \in BOOLEAN
  /\ timer \in 0 .. SweepEvery + Slack
  /\ since \in [Sweeps -> 0 .. MaxPass]
  /\ picked \in [Sweeps -> Clients \cup {NoClient}]

-----------------------------------------------------------------------------
Become(c, state) == conn' = [conn EXCEPT ![c] = state]

SetStage(s, g) == stage' = [stage EXCEPT ![s] = g]

\* The cache lists a client, or renews its HeartTime; and drops it.
List(c) ==
  /\ entry' = entry \cup {c}
  /\ age' = [age EXCEPT ![c] = 0]

Delist(c) ==
  /\ entry' = entry \ {c}
  /\ age' = [age EXCEPT ![c] = 0]

\* The hub's IHubDisconnection services are told that a client went offline.
Notify(c) == notices' = [notices EXCEPT ![c] = IF @ = 2 THEN 2 ELSE @ + 1]

\* CheckIfOverTime: the first client of the process starts the timer.
StartTimer ==
  /\ listening' = TRUE
  /\ timer' = IF listening THEN timer ELSE 0

\* Connections that have a heartbeat; the last callback of one may be late.
Beating == {c \in Clients : conn[c] \in {"connecting", "joining", "open"}}
MayRefresh == {c \in Clients : /\ conn[c] # "new" /\ beat[c] >= RefreshEvery}

Expired(limit) == {c \in entry : age[c] > limit}

\* Heartbeats, the timer and its callbacks are not later than Slack and MaxPass say.
HubOnTime ==
  /\ \A c \in Beating : beat[c] < RefreshEvery + Slack
  /\ listening => timer < SweepEvery + Slack
  /\ \A s \in Sweeps : stage[s] # "off" => since[s] < MaxPass

Older(n) == IF n < MaxAge THEN n + 1 ELSE n

Pass(running) ==
  /\ age' = [c \in Clients |-> IF c \in entry THEN Older(age[c]) ELSE age[c]]
  /\ beat' = [c \in Clients |-> IF running /\ c \in Beating THEN beat[c] + 1 ELSE beat[c]]
  /\ timer' = IF running /\ listening THEN timer + 1 ELSE timer
  /\ since' = [s \in Sweeps |-> IF running /\ stage[s] # "off" THEN since[s] + 1 ELSE since[s]]

-----------------------------------------------------------------------------
(* Properties                                                              *)

Online(c) == c \in entry /\ age[c] <= DisLine      \* ClientIsOnline

\* A connected client is online, so messages to it are sent: sweeps, clients that
\* come and go, and late heartbeats do not delist it.
OnlineWhileConnected == \A c \in Clients : conn[c] = "open" => Online(c)

\* "The client goes offline: clear the cache" (IHubCacheManager): once
\* OnDisconnectedAsync has returned the client has no entry, and no late
\* heartbeat lists it again.
ClosedIsOffline == \A c \in Clients : conn[c] = "closed" => c \notin entry

\* "Poll for expired entries" (CheckIfOverTime): the cache does not fill with
\* clients that went away, an entry is dropped in bounded time.
EntriesExpire == \A c \in entry : age[c] <= OldestEntry

\* The application is not told that a client went offline while it is connected.
NoNoticeWhileConnected ==
  \A c \in Clients : conn[c] \in {"joining", "open"} => notices[c] = 0

=============================================================================

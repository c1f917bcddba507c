---------------------------- MODULE HubConnection ----------------------------
(***************************************************************************)
(* HubConnection of the SignalR client in the page (signalr.js): starting, *)
(* stopping, the handshake, the timers and automatic reconnects.  What it  *)
(* asks of the connection below it is what HttpConnection does.            *)
(*                                                                         *)
(* One thread runs the script.  An action is what runs without a pause:    *)
(* the call of the application, timer or network event, and the functions  *)
(* it calls, which are operators from a state of the client to the next.   *)
(* What waits behind an await is a task; a task that may go on (a          *)
(* microtask) does so before the next event.                               *)
(***************************************************************************)
EXTENDS Integers, FiniteSets

CONSTANTS
  MaxTasks,    \* bound: calls of start() and reconnect loops of a behaviour
  MaxStops,    \* bound: calls of stop()
  Retries,     \* how many delays the reconnect policy gives before null
  Setups       \* how the application behaves, over which transports, and whether
               \* a post may outlive the connection or the keep-alive interval

\* "page" starts again inside onclose and never stops, as Pages/Index.cshtml;
\* "caller" stops, and starts again later; "both" does all of it, and may call
\* start() while it is starting, which is refused but replaces _startPromise.
App == {"page", "caller", "both"}
Transport == {"WebSockets", "ServerSentEvents", "LongPolling"}

ASSUME MaxTasksAssumption == MaxTasks \in Nat
ASSUME MaxStopsAssumption == MaxStops \in Nat
ASSUME RetriesAssumption == Retries \in Nat
ASSUME SetupsAssumption == Setups \subseteq 
  [app : App, transports : SUBSET Transport, slowPosts : BOOLEAN]

Task == 1 .. MaxTasks
Stops == 1 .. MaxStops
NoTask == 0                      \* undefined

HubConnectionState ==
  {"Disconnected", "Connecting", "Connected", "Disconnecting", "Reconnecting"}

\* Where a task waits: for connection.start, the handshake request, the response,
\* the first ping, connection.stop in the catch block, or the retry delay; or is
\* about to throw.
Waiting == {"opening", "requesting", "awaiting", "pinging", "closing", "delay"}
Ended == {"done", "failed", "gone"}
PC == {"new", "failing"} \cup Waiting \cup Ended

VARIABLES
  hub,   \* the fields of HubConnection
  task,  \* its async functions: start and reconnect
  link,  \* the connection below
  call,  \* the calls of stop()
  setup  \* the application and its transports, fixed

vars == <<hub, task, link, call, setup>>

NewTask == [kind |-> "none", pc |-> "new", tries |-> 0, handshake |-> "none"]

Init ==
  /\ hub = [state |-> "Disconnected",
            started |-> FALSE,          \* _connectionStarted
            stopError |-> FALSE,        \* _stopDuringStartError
            answered |-> FALSE,         \* _receivedHandshakeResponse
            resolver |-> NoTask,        \* whose handshake _handshakeResolver settles
            startPromise |-> NoTask,
            stopPending |-> FALSE,      \* _stopPromise is not settled
            delayed |-> NoTask,         \* _reconnectDelayHandle
            timeout |-> FALSE,          \* _timeoutHandle runs
            ping |-> "none",            \* _pingServerHandle, which outlives its timer
            tasks |-> 0,
            closes |-> 0]               \* calls of the onclose callbacks
  /\ task = [t \in Task |-> NewTask]
  /\ link = [state |-> "off", stopping |-> FALSE, transport |-> "none",
             inherentKeepAlive |-> FALSE]
  /\ call = [s \in Stops |-> [pc |-> "none", awaits |-> NoTask, after |-> 0, inside |-> FALSE]]
  /\ setup \in Setups

TypeOK ==
  /\ hub \in [state : HubConnectionState, started : BOOLEAN, stopError : BOOLEAN,
              answered : BOOLEAN, resolver : 0 .. MaxTasks, startPromise : 0 .. MaxTasks,
              stopPending : BOOLEAN, delayed : 0 .. MaxTasks, timeout : BOOLEAN,
              ping : {"none", "set", "fired"}, tasks : 0 .. MaxTasks, closes : Nat]
  /\ task \in [Task -> [kind : {"none", "start", "reconnect"}, pc : PC, tries : 0 .. Retries,
                        handshake : {"none", "pending", "resolved", "rejected"}]]
  /\ link \in [state : {"off", "opening", "up"}, stopping : BOOLEAN,
               transport : Transport \cup {"none"}, inherentKeepAlive : BOOLEAN]
  /\ call \in [Stops -> [pc : {"none", "stopping", "starting", "done"},
                         awaits : 0 .. MaxTasks, after : 0 .. MaxTasks, inside : BOOLEAN]]
  /\ setup \in Setups

-----------------------------------------------------------------------------
(* The functions of HubConnection.  c is the client: its hub, task and link. *)

Client == [hub |-> hub, task |-> task, link |-> link]

Becomes(c) == hub' = c.hub /\ task' = c.task /\ link' = c.link

Goto(c, t, pc) == [c EXCEPT !.task[t].pc = pc]

CleanupPingTimer(c) == [c EXCEPT !.hub.ping = "none"]

Cleanup(c) == CleanupPingTimer([c EXCEPT !.hub.timeout = FALSE])

ResetTimeoutPeriod(c) ==
  IF c.link.inherentKeepAlive THEN c
  ELSE [c EXCEPT !.hub.timeout = TRUE,
                 !.hub.ping = IF c.hub.ping = "none" THEN "set" ELSE c.hub.ping]

ResetKeepAliveInterval(c) == IF c.link.inherentKeepAlive THEN c ELSE CleanupPingTimer(c)

\* A WebSocket takes data, or refuses it, at once; the other transports post it.
SendsAtOnce(c) == c.link.transport = "WebSockets"
MaySend(c) == c.link.state = "up" /\ ~c.link.stopping

\* connection.stop: nothing to do when it is disconnected.
StopLink(c) == IF c.link.state = "off" THEN c ELSE [c EXCEPT !.link.stopping = TRUE]

\* connection.start refuses unless it is disconnected.
StartInternal(c, t) ==
  LET fresh == [c EXCEPT !.hub.stopError = FALSE, !.hub.answered = FALSE,
                         !.hub.resolver = t, !.task[t].handshake = "pending"]
  IN IF c.link.state = "off" THEN Goto([fresh EXCEPT !.link.state = "opening"], t, "opening")
     ELSE Goto(fresh, t, "failing")

\* The catch block of _startInternal.
CatchStart(c, t) ==
  LET stopped == StopLink(Cleanup(c))
  IN Goto(stopped, t, IF stopped.link.state = "off" THEN "failing" ELSE "closing")

HasTask(c) == c.hub.tasks < MaxTasks

Run(c, kind) ==
  [c EXCEPT !.hub.tasks = @ + 1,
            !.task[c.hub.tasks + 1].kind = kind]

\* start()
StartCall(c) ==
  IF c.hub.state # "Disconnected" THEN [c EXCEPT !.hub.startPromise = NoTask]
  ELSE LET run == Run(c, "start")
           t == run.hub.tasks
       IN StartInternal([run EXCEPT !.hub.state = "Connecting", !.hub.startPromise = t], t)

RestartsInside == setup.app \in {"page", "both"}

CompleteCloseStaysStarted(c) ==   \* mutant: _connectionStarted is not reset
  IF ~c.hub.started THEN c
  ELSE LET closed == [c EXCEPT !.hub.state = "Disconnected", !.hub.closes = @ + 1]
       IN IF RestartsInside /\ HasTask(closed) THEN StartCall(closed) ELSE closed

CompleteClose(c) ==
  IF ~c.hub.started THEN c
  ELSE LET closed == [c EXCEPT !.hub.state = "Disconnected", !.hub.started = FALSE,
                               !.hub.closes = @ + 1]
       IN IF RestartsInside /\ HasTask(closed) THEN StartCall(closed) ELSE closed

StopForgetsDelay(c) ==   \* mutant: the retry delay runs on
  IF c.hub.state \in {"Disconnected", "Disconnecting"} THEN c
  ELSE LET leaving == [c EXCEPT !.hub.state = "Disconnecting"]
       IN IF c.hub.delayed # NoTask THEN CompleteClose([leaving EXCEPT !.hub.stopPending = FALSE])
          ELSE StopLink([Cleanup(leaving) EXCEPT !.hub.stopError = TRUE,
                                                 !.hub.stopPending = c.link.state # "off"])

StopDoesNotWait(c) ==   \* mutant: stop() does not wait for connection.stop
  IF c.hub.state \in {"Disconnected", "Disconnecting"} THEN c
  ELSE LET leaving == [c EXCEPT !.hub.state = "Disconnecting"]
       IN IF c.hub.delayed # NoTask
          THEN CompleteClose([Goto(leaving, c.hub.delayed, "gone") EXCEPT !.hub.delayed = NoTask])
          ELSE StopLink([Cleanup(leaving) EXCEPT !.hub.stopError = TRUE])

StopInternal(c) ==
  IF c.hub.state \in {"Disconnected", "Disconnecting"} THEN c
  ELSE LET leaving == [c EXCEPT !.hub.state = "Disconnecting"]
       IN IF c.hub.delayed # NoTask
          THEN CompleteClose([Goto(leaving, c.hub.delayed, "gone") EXCEPT
                                !.hub.delayed = NoTask, !.hub.stopPending = FALSE])
          ELSE StopLink([Cleanup(leaving) EXCEPT !.hub.stopError = TRUE,
                                                 !.hub.stopPending = c.link.state # "off"])

NextDelayOnceMore(c, t) ==   \* mutant: a delay after the policy gave null
  IF c.task[t].tries > Retries THEN CompleteClose(Goto(c, t, "done"))
  ELSE Goto([c EXCEPT !.task[t].tries = @ + 1, !.hub.delayed = t], t, "delay")

\* The loop of _reconnect asks the policy for the next delay.
NextDelay(c, t) ==
  IF c.task[t].tries = Retries THEN CompleteClose(Goto(c, t, "done"))
  ELSE Goto([c EXCEPT !.task[t].tries = @ + 1, !.hub.delayed = t], t, "delay")

\* inside: the application calls stop() in onreconnecting
Reconnect(c, inside) ==
  IF Retries = 0 THEN CompleteClose(c)
  ELSE LET run == Run(c, "reconnect")
           t == run.hub.tasks
           told == [run EXCEPT !.hub.state = "Reconnecting"]
       IN IF inside THEN Goto(StopInternal(told), t, "done") ELSE NextDelay(told, t)

\* Which of them follows depends on the state before.
Branches(c, clean, inside) ==
  CASE c.hub.state = "Disconnecting" -> CompleteClose(clean)
    [] c.hub.state = "Connected" -> Reconnect(clean, inside)
    [] OTHER -> clean

ClosedUnnoticed(c, inside) ==   \* mutant: a start in progress is not told
  LET waiting == c.hub.resolver # NoTask /\ c.task[c.hub.resolver].handshake = "pending"
  IN Branches(c, Cleanup(IF waiting THEN [c EXCEPT !.task[c.hub.resolver].handshake = "resolved"]
                         ELSE c), inside)

ConnectionClosed(c, inside) ==
  LET waiting == c.hub.resolver # NoTask /\ c.task[c.hub.resolver].handshake = "pending"
      told == IF waiting THEN [c EXCEPT !.task[c.hub.resolver].handshake = "resolved"] ELSE c
      clean == Cleanup([told EXCEPT !.hub.stopError = TRUE])
  IN Branches(c, clean, inside)

LinkOffStopWaits(c) ==   \* mutant: who waits in stop() is not told
  [c EXCEPT !.link.state = "off", !.link.stopping = FALSE, !.link.transport = "none",
            !.task = [t \in Task |-> IF c.task[t].pc = "closing"
                                     THEN [c.task[t] EXCEPT !.pc = "failing"] ELSE c.task[t]]]

\* The connection is disconnected: whoever waits for connection.stop goes on, after
\* onclose has run.
LinkOff(c) ==
  [c EXCEPT !.link.state = "off", !.link.stopping = FALSE, !.link.transport = "none",
            !.hub.stopPending = FALSE,
            !.task = [t \in Task |-> IF c.task[t].pc = "closing"
                                     THEN [c.task[t] EXCEPT !.pc = "failing"] ELSE c.task[t]]]

Closes(c, inside) == ConnectionClosed(LinkOff(c), inside)

Succeeds(c, t) ==
  Goto([c EXCEPT !.hub.state = "Connected",
                 !.hub.started = @ \/ c.task[t].kind = "start"], t, "done")

\* What follows _startInternal when it throws.
Fails(c, t) ==
  LET failed == Goto(c, t, "failed")
  IN CASE c.task[t].kind = "start" -> [failed EXCEPT !.hub.state = "Disconnected"]
       [] c.task[t].kind = "reconnect" /\ c.hub.state = "Reconnecting" -> NextDelay(c, t)
       [] c.task[t].kind = "reconnect" /\ c.hub.state = "Disconnecting" -> CompleteClose(failed)
       [] OTHER -> failed

\* A message after the handshake.  Close stops the hub unless it allows a reconnect.
ProcessMessage(c, m) ==
  CASE m = "close" -> StopInternal(c)
    [] m = "closeAllowReconnect" -> StopLink(c)
    [] OTHER -> c

Message == {"ping", "close", "closeAllowReconnect"}

-----------------------------------------------------------------------------
(* Tasks that go on, before any event.                                     *)

CanGoOn(t) ==
  \/ task[t].pc = "failing"
  \/ task[t].pc = "awaiting" /\ task[t].handshake # "pending"

\* stop() has waited for _stopPromise and then for the start it saw.
Unsettled == {t \in Task : task[t].pc \notin Ended}

CanReturn(s) ==
  \/ call[s].pc = "stopping" /\ ~hub.stopPending
  \/ call[s].pc = "starting" /\ call[s].awaits \notin Unsettled

Idle == (\A t \in Task : ~CanGoOn(t)) /\ (\A s \in Stops : ~CanReturn(s))

Throws(t) ==
  /\ task[t].pc = "failing"
  /\ Becomes(Fails(Client, t))
  /\ UNCHANGED <<call, setup>>

\* After the handshake promise: stopError, then the first ping.
AfterHandshake(t) ==
  /\ task[t].pc = "awaiting" /\ task[t].handshake # "pending"
  /\ LET sending == ResetKeepAliveInterval(Client)
     IN \/ /\ hub.stopError \/ task[t].handshake = "rejected"
           /\ Becomes(CatchStart(Client, t))
        \/ /\ ~hub.stopError /\ task[t].handshake = "resolved"
           /\ \/ link.inherentKeepAlive /\ Becomes(Succeeds(Client, t))
              \/ /\ ~link.inherentKeepAlive
                 /\ \/ MaySend(Client) /\ SendsAtOnce(Client) /\ Becomes(Succeeds(sending, t))
                    \/ MaySend(Client) /\ ~SendsAtOnce(Client) /\ Becomes(Goto(sending, t, "pinging"))
                    \/ ~MaySend(Client) /\ Becomes(CatchStart(sending, t))
  /\ UNCHANGED <<call, setup>>

StopGoesOn(s) ==
  /\ \A t \in Task : ~CanGoOn(t)
  /\ CanReturn(s)
  /\ call' = [call EXCEPT ![s].pc = IF @ = "stopping" THEN "starting" ELSE "done"]
  /\ UNCHANGED <<hub, task, link, setup>>

-----------------------------------------------------------------------------
(* The application.                                                        *)

Start ==
  /\ Idle
  /\ IF hub.state = "Disconnected" THEN HasTask(Client)
     ELSE hub.startPromise # NoTask /\ (setup.app = "both" \/ hub.startPromise \notin Unsettled)
  /\ Becomes(StartCall(Client))
  /\ UNCHANGED <<call, setup>>

Calls(s, inside) ==
  /\ setup.app # "page" /\ call[s].pc = "none"
  /\ \A r \in 1 .. s - 1 : call[r].pc # "none"
  /\ call' = [call EXCEPT ![s] = [pc |-> "stopping", awaits |-> hub.startPromise,
                                  after |-> hub.tasks', inside |-> inside]]

\* Unless posts are slow, the first ping has been sent before anything else ends the
\* connection or the ping timer fires.
PingIsSent == setup.slowPosts \/ \A t \in Task : task[t].pc # "pinging"

Stop(s) ==
  /\ Idle /\ PingIsSent
  /\ Becomes(StopInternal(Client))
  /\ Calls(s, FALSE)
  /\ UNCHANGED setup

-----------------------------------------------------------------------------
(* The connection.                                                         *)

\* The bound on tasks leaves room for the reconnect loop.
MayClose ==
  /\ Idle
  /\ hub.state = "Connected" => HasTask(Client)
  /\ PingIsSent /\ (setup.slowPosts \/ \A t \in Task : task[t].pc # "requesting")

\* connection.start resolves: the handshake request is sent.
Opens(t, transport) ==
  /\ Idle /\ task[t].pc = "opening" /\ ~link.stopping
  /\ LET up == [Client EXCEPT !.link.state = "up", !.link.transport = transport,
                              !.link.inherentKeepAlive = @ \/ transport = "LongPolling"]
         sent == ResetKeepAliveInterval(up)
     IN IF SendsAtOnce(up)
        THEN \/ Becomes(Goto(ResetKeepAliveInterval(ResetTimeoutPeriod(sent)), t, "awaiting"))
             \/ Becomes(CatchStart(sent, t))
        ELSE Becomes(Goto(sent, t, "requesting"))
  /\ UNCHANGED <<call, setup>>

\* connection.start rejects: it failed, or stop() came first.
OpenFails(t) ==
  /\ Idle /\ task[t].pc = "opening"
  /\ Becomes(Goto(LinkOff(Client), t, "failing"))
  /\ UNCHANGED <<call, setup>>

\* The handshake request was posted, or not; _cleanupTimeout and the two resets.
Requested(t, ok) ==
  /\ Idle /\ task[t].pc = "requesting"
  /\ Becomes(IF ok THEN Goto(ResetKeepAliveInterval(ResetTimeoutPeriod(Client)), t, "awaiting")
             ELSE CatchStart(Client, t))
  /\ UNCHANGED <<call, setup>>

Pinged(t, ok) ==
  /\ Idle /\ task[t].pc = "pinging"
  /\ Becomes(IF ok THEN Succeeds(Client, t) ELSE CatchStart(Client, t))
  /\ UNCHANGED <<call, setup>>

\* The response to the handshake, and what came with it.  A bad one throws, which
\* closes the transport.
Handshake(t, m) ==
  /\ Idle /\ t = hub.resolver /\ ~hub.answered /\ task[t].pc \in {"requesting", "awaiting"}
  /\ MaySend(Client)
  /\ LET heard == [Client EXCEPT !.hub.timeout = FALSE, !.hub.answered = TRUE,
                                 !.task[t].handshake = "resolved"]
     IN Becomes(ResetTimeoutPeriod(ProcessMessage(heard, m)))
  /\ UNCHANGED <<call, setup>>

BadHandshake(t) ==
  /\ MayClose /\ t = hub.resolver /\ ~hub.answered /\ task[t].pc \in {"requesting", "awaiting"}
  /\ MaySend(Client)
  /\ Becomes(Closes([Client EXCEPT !.task[t].handshake = "rejected"], FALSE))
  /\ UNCHANGED <<call, setup>>

Receive(m) ==
  /\ Idle /\ MaySend(Client) /\ hub.answered
  /\ m = "ping" \/ PingIsSent
  /\ Becomes(ResetTimeoutPeriod(ProcessMessage([Client EXCEPT !.hub.timeout = FALSE], m)))
  /\ UNCHANGED <<call, setup>>

\* The connection closes: it was stopped, the network failed, the server ended it,
\* or a message could not be parsed.
LinkCloses ==
  /\ MayClose /\ link.state = "up"
  /\ Becomes(Closes(Client, FALSE))
  /\ UNCHANGED <<call, setup>>

\* The same, and the application calls stop() in onreconnecting.
LinkClosesAndStops(s) ==
  /\ MayClose /\ link.state = "up" /\ hub.state = "Connected" /\ Retries > 0
  /\ Becomes(Closes(Client, TRUE))
  /\ Calls(s, TRUE)
  /\ UNCHANGED setup

-----------------------------------------------------------------------------
(* Timers.                                                                 *)

ServerTimeout ==
  /\ Idle /\ hub.timeout
  /\ Becomes(StopLink([Client EXCEPT !.hub.timeout = FALSE]))
  /\ UNCHANGED <<call, setup>>

\* A ping that is sent clears the handle, a timer that fires while the hub is not
\* connected leaves it.
PingTimer ==
  /\ Idle /\ PingIsSent /\ hub.ping = "set"
  /\ Becomes(IF hub.state = "Connected" THEN CleanupPingTimer(Client)
             ELSE [Client EXCEPT !.hub.ping = "fired"])
  /\ UNCHANGED <<call, setup>>

\* The retry delay is over.
Retry(t) ==
  /\ Idle /\ hub.delayed = t
  /\ LET awake == [Client EXCEPT !.hub.delayed = NoTask]
     IN Becomes(IF hub.state # "Reconnecting" THEN Goto(awake, t, "done")
                ELSE StartInternal(awake, t))
  /\ UNCHANGED <<call, setup>>

-----------------------------------------------------------------------------
GoesOn(t) == Throws(t) \/ AfterHandshake(t)

Answered(t) == BadHandshake(t) \/ \E m \in Message : Handshake(t, m)

Next ==
  \/ \E t \in Task : GoesOn(t)
  \/ \E s \in Stops : StopGoesOn(s)
  \/ Start \/ \E s \in Stops : Stop(s)
  \/ \E t \in Task : OpenFails(t) \/ \E transport \in setup.transports : Opens(t, transport)
  \/ \E t \in Task, ok \in BOOLEAN : Requested(t, ok) \/ Pinged(t, ok)
  \/ \E t \in Task : Answered(t)
  \/ \E m \in Message : Receive(m)
  \/ LinkCloses \/ \E s \in Stops : LinkClosesAndStops(s)
  \/ ServerTimeout \/ PingTimer
  \/ \E t \in Task : Retry(t)

Spec == Init /\ [][Next]_vars

\* The browser runs what is ready, and timers that no message resets.  A request of
\* the connection ends, a connection that is stopped closes, and over long polling,
\* where no timer guards the handshake, the server answers it or closes.
FairSpec ==
  /\ Spec
  /\ WF_vars(\E t \in Task : GoesOn(t))
  /\ WF_vars(\E s \in Stops : StopGoesOn(s))
  /\ WF_vars(\E t \in Task : OpenFails(t) \/ \E transport \in setup.transports : Opens(t, transport))
  /\ WF_vars(\E t \in Task, ok \in BOOLEAN : Requested(t, ok) \/ Pinged(t, ok))
  /\ WF_vars(\E t \in Task : Retry(t))
  /\ WF_vars(link.stopping /\ LinkCloses)
  /\ WF_vars(~hub.answered /\ ServerTimeout)
  /\ WF_vars(link.inherentKeepAlive /\ (LinkCloses \/ \E t \in Task : Answered(t)))

-----------------------------------------------------------------------------
(* Properties.                                                             *)

\* A hub that shows "Connected" has a connection: one that closed in the middle of
\* start() or of a reconnect attempt is noticed, whatever the order of events.  A dead
\* server will be noticed too: the server timeout runs, and the next ping is set or to
\* be set by the next message, unless the transport polls.
ConnectedIsWatched ==
  Idle /\ hub.state = "Connected" =>
    /\ link.state = "up"
    /\ link.stopping \/ link.inherentKeepAlive
         \/ (hub.timeout /\ hub.ping \in {"none", "set"})

\* A hub that shows "Disconnected" can be started: no connection, no timer and no
\* task of an earlier life is left to disturb the next start; and a retry that stop()
\* has overtaken does not go on beside the start that follows it.
NothingLeftOver ==
  Idle =>
    /\ Cardinality({t \in Task : task[t].pc \in Waiting}) <= 1
    /\ hub.state = "Disconnected" =>
         /\ link.state = "off" /\ ~hub.timeout /\ hub.ping = "none" /\ hub.delayed = NoTask
         /\ \A t \in Task : task[t].pc \in Ended \cup {"new"}

\* "A Promise that resolves when the connection has been successfully terminated"
\* (stop()): the hub is disconnected then, or was started again.  An application that
\* stops inside onreconnecting breaks this: no connection is left whose end would
\* complete the stop, and the hub stays "Disconnecting".
Terminated(s) == hub.state = "Disconnected" \/ hub.tasks > call[s].after

StopDisconnects ==
  [][\A s \in Stops : call[s].pc = "starting" /\ call'[s].pc = "done" =>
       Terminated(s) \/ \E r \in Stops : call[r].inside]_vars

\* What the application sees follows HubLifecycle: after stop() only a new start
\* connects, and onclose comes once for each connection that was established.
Lifecycle == INSTANCE HubLifecycle
  WITH state <- hub.state, established <- hub.started, closes <- hub.closes

ImplementsLifecycle == Lifecycle!Spec

StartSettles ==
  \A t \in Task : task[t].kind = "start" ~> task[t].pc \in Ended

StopReturns == \A s \in Stops : call[s].pc = "stopping" ~> call[s].pc = "done"

ReconnectingEnds == hub.state = "Reconnecting" ~> hub.state # "Reconnecting"

\* Nothing hangs: a start settles, a stop returns, and reconnecting ends, also when the
\* connection closes in between or the server never answers the handshake.
EverythingEnds == StartSettles /\ StopReturns /\ ReconnectingEnds

=============================================================================

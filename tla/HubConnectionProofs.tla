------------------------- MODULE HubConnectionProofs -------------------------
(***************************************************************************)
(* Proofs about HubConnection, for any number of tasks, calls of stop(),   *)
(* retry delays and set-ups of the kind the pages of the samples have.     *)
(*                                                                         *)
(* HubInv says how the state the hub shows, its one current task, the      *)
(* connection below and the timers agree.  The functions of HubConnection  *)
(* are operators from a client to a client, so most lemmas are about two   *)
(* clients c and d and no step: what a function returns (...Facts), and    *)
(* that it takes a client of the invariant to one that follows it, where   *)
(* the application sees a step of HubLifecycle (...Good).                  *)
(***************************************************************************)
EXTENDS HubConnection, FiniteSetTheorems, TLAPS

\* start() is not called again while it runs, and a post ends before the connection
\* it was made over and before the keep-alive interval.  Otherwise the hub may show
\* "Connected" over a connection that is dead.
OrdinarySetups == \A s \in Setups : s.app # "both" /\ ~s.slowPosts

-----------------------------------------------------------------------------
(* The invariant.                                                          *)

HubType == [state : HubConnectionState, started : BOOLEAN, stopError : BOOLEAN,
            answered : BOOLEAN, resolver : 0 .. MaxTasks, startPromise : 0 .. MaxTasks,
            stopPending : BOOLEAN, delayed : 0 .. MaxTasks, timeout : BOOLEAN,
            ping : {"none", "set", "fired"}, tasks : 0 .. MaxTasks, closes : Nat]
TaskType == [kind : {"none", "start", "reconnect"}, pc : PC, tries : 0 .. Retries,
             handshake : {"none", "pending", "resolved", "rejected"}]
LinkType == [state : {"off", "opening", "up"}, stopping : BOOLEAN,
             transport : Transport \cup {"none"}, inherentKeepAlive : BOOLEAN]
ClientType == [hub : HubType, task : [Task -> TaskType], link : LinkType]

\* A task that has not ended; one whose handshake is not settled; one that may go on
\* before the next event.
Alive(c, t) == c.task[t].pc \notin Ended \cup {"new"}
Pending(c, t) == c.task[t].handshake = "pending"
Ready(c, t) == c.task[t].pc = "failing" \/ (c.task[t].pc = "awaiting" /\ ~Pending(c, t))

\* The end of the connection is certain to be noticed.
Watched(c) ==
  c.link.stopping \/ c.link.inherentKeepAlive \/ (c.hub.timeout /\ c.hub.ping # "fired")

\* A reconnect that onclose has overtaken: it only has to throw.  The others are current.
Left(c, t) ==
  Alive(c, t) /\ c.task[t].kind = "reconnect" /\ c.hub.state \in {"Disconnected", "Connecting"}
Current(c, t) == Alive(c, t) /\ ~Left(c, t)

\* At most one task is current, and at most one is left behind.
TaskInv(c) ==
  /\ \A t \in Task : IF t > c.hub.tasks THEN c.task[t] = NewTask
                     ELSE c.task[t].kind # "none" /\ c.task[t].pc # "new"
  /\ \A t, u \in Task : \/ Current(c, t) /\ Current(c, u)
                        \/ Left(c, t) /\ Left(c, u)
                        => t = u
  /\ \A t \in Task : Left(c, t) =>
       /\ c.task[t].pc = "failing" \/ (Ready(c, t) /\ c.hub.state = "Disconnected")
       /\ \A u \in Task : Current(c, u) => c.task[u].pc = "opening"

\* The state that the hub shows, and the task and the connection behind it.
StateInv(c) ==
  /\ c.hub.state = "Disconnected" => ~c.hub.started /\ c.link.state = "off"
  /\ c.hub.state = "Connected" => c.hub.started /\ c.link.state = "up" /\ Watched(c)
  /\ c.hub.state = "Connecting" => ~c.hub.started
  /\ c.hub.state = "Reconnecting" => c.hub.started
  /\ \/ c.hub.state \in {"Connecting", "Reconnecting"}
     \/ c.hub.state = "Disconnecting" /\ ~c.hub.started
     => \E t \in Task : Current(c, t)
  /\ \A t \in Task : Current(c, t) =>
       IF c.task[t].kind = "start"
       THEN ~c.hub.started /\ c.hub.state \in {"Connecting", "Disconnecting"}
       ELSE c.hub.started /\ c.hub.state \in {"Reconnecting", "Disconnecting"}
  /\ c.hub.state = "Disconnecting" /\ c.link.state # "off" => c.hub.stopPending

\* The page does not call stop(): a Close message stopped the hub, after the handshake.
PageStopped(c) == RestartsInside /\ c.hub.state = "Disconnecting"

\* Who waits has something to wait for: the handshake it awaits is its own, and the
\* connection is there, will be missed, or has ended and told.
WaitsWell(c, t) ==
  /\ c.task[t].pc = "delay" <=> c.hub.delayed = t
  /\ c.task[t].pc = "delay" => c.hub.state = "Reconnecting" /\ c.link.state = "off"
  /\ c.task[t].pc \in {"opening", "requesting", "awaiting"} =>
       /\ c.hub.resolver = t
       /\ Pending(c, t) => ~c.hub.answered
       /\ c.hub.state = "Disconnecting" => c.hub.stopError
       /\ PageStopped(c) => ~Pending(c, t)
  /\ c.task[t].pc = "opening" => c.link.state = "opening" /\ Pending(c, t)
  /\ c.task[t].pc = "requesting" => c.link.state = "up" /\ (~Pending(c, t) => c.hub.answered)
  /\ c.task[t].pc = "awaiting" =>
       /\ Pending(c, t) \/ ~c.hub.stopError => c.link.state = "up"
       /\ c.link.state # "opening"
       /\ c.link.state = "up" => c.link.stopping \/ c.link.inherentKeepAlive \/ c.hub.timeout
  /\ c.task[t].pc = "pinging" =>
       c.link.state = "up" /\ Watched(c) /\ c.hub.state # "Disconnecting"
  /\ c.task[t].pc = "closing" => c.link.state = "up" /\ c.link.stopping
  /\ c.task[t].pc = "failing" /\ Current(c, t) => c.link.state = "off"

WaitInv(c) == \A t \in Task : WaitsWell(c, t)

TimerInv(c) == c.link.state # "up" => ~c.hub.timeout /\ c.hub.ping = "none"

ClientInv(c) == TaskInv(c) /\ StateInv(c) /\ WaitInv(c) /\ TimerInv(c)

\* stop() waits for an end that no connection is left to reach.
Stuck(c) == c.hub.state = "Disconnecting" /\ c.link.state = "off" /\ \A t \in Task : ~Ready(c, t)

Inside == \E r \in Stops : call[r].inside

\* stop() has not returned before the hub was disconnected, unless it was called inside
\* onreconnecting.
CallWell(s) ==
  /\ call[s].pc = "none" => ~call[s].inside
  /\ call[s].pc # "none" => call[s].after <= hub.tasks
  /\ call[s].pc = "stopping" => Terminated(s) \/ hub.state = "Disconnecting" \/ Inside
  /\ call[s].pc = "starting" => Terminated(s) \/ Inside

CallInv == (Stuck(Client) => Inside) /\ \A s \in Stops : CallWell(s)

HubInv == TypeOK /\ ClientInv(Client) /\ CallInv

\* How the step from client c to client d looks to the application.
Follows(c, d) ==
  LET Same == d.hub.started = c.hub.started /\ d.hub.closes = c.hub.closes IN
  \/ Same /\ d.hub.state = c.hub.state
  \/ /\ Same /\ c.hub.state = "Disconnected" /\ d.hub.state = "Connecting"
     /\ d.hub.tasks > c.hub.tasks
  \/ /\ Same /\ c.hub.state \in {"Connecting", "Disconnecting"} /\ ~c.hub.started
     /\ d.hub.state = "Disconnected"
  \/ /\ c.hub.state = "Connecting" /\ ~c.hub.started /\ d.hub.state = "Connected"
     /\ d.hub.started /\ d.hub.closes = c.hub.closes
  \/ Same /\ c.hub.state = "Connected" /\ d.hub.state = "Reconnecting"
  \/ Same /\ c.hub.state = "Reconnecting" /\ d.hub.state = "Connected"
  \/ /\ Same /\ c.hub.state \in {"Connecting", "Connected", "Reconnecting"}
     /\ d.hub.state = "Disconnecting"
  \/ /\ c.hub.started /\ ~d.hub.started /\ d.hub.closes = c.hub.closes + 1
     /\ \/ d.hub.state = "Disconnected"
        \/ d.hub.state = "Connecting" /\ d.hub.tasks > c.hub.tasks

\* What most functions guarantee of the client d they make of c.
Good(c, d) ==
  /\ d \in ClientType /\ ClientInv(d) /\ Follows(c, d)
  /\ d.hub.tasks >= c.hub.tasks /\ (Stuck(d) => Stuck(c))

\* No task but t is alive.
OnlyAlive(c, t) == \A u \in Task \ {t} : ~Alive(c, u)

LEMMA Numbers == NoTask \notin Task /\ \A t \in Task : t \in Nat /\ t \in 0 .. MaxTasks
BY MaxTasksAssumption DEF NoTask, Task

LEMMA Fields ==
  ASSUME NEW c \in ClientType
  PROVE  /\ c.hub \in HubType /\ c.task \in [Task -> TaskType] /\ c.link \in LinkType
         /\ c = [hub |-> c.hub, task |-> c.task, link |-> c.link]
BY DEF ClientType

-----------------------------------------------------------------------------
(* What the functions do.                                                  *)

LEMMA GotoFacts ==
  ASSUME NEW c \in ClientType, NEW t \in Task, NEW pc \in PC
  PROVE  /\ Goto(c, t, pc) \in ClientType
         /\ Goto(c, t, pc).hub = c.hub /\ Goto(c, t, pc).link = c.link
         /\ Goto(c, t, pc).task = [c.task EXCEPT ![t] = [c.task[t] EXCEPT !.pc = pc]]
BY DEF ClientType, TaskType, Goto

LEMMA CleanupFacts ==
  ASSUME NEW c \in ClientType
  PROVE  /\ Cleanup(c) \in ClientType
         /\ Cleanup(c).hub = [c.hub EXCEPT !.timeout = FALSE, !.ping = "none"]
         /\ Cleanup(c).task = c.task /\ Cleanup(c).link = c.link
BY DEF ClientType, HubType, Cleanup, CleanupPingTimer

LEMMA ResetTimeoutFacts ==
  ASSUME NEW c \in ClientType
  PROVE  /\ ResetTimeoutPeriod(c) \in ClientType
         /\ ResetTimeoutPeriod(c).task = c.task /\ ResetTimeoutPeriod(c).link = c.link
         /\ ResetTimeoutPeriod(c).hub =
              IF c.link.inherentKeepAlive THEN c.hub
              ELSE [c.hub EXCEPT !.timeout = TRUE,
                                 !.ping = IF c.hub.ping = "none" THEN "set" ELSE c.hub.ping]
BY DEF ClientType, HubType, ResetTimeoutPeriod

LEMMA KeepAliveFacts ==
  ASSUME NEW c \in ClientType
  PROVE  /\ ResetKeepAliveInterval(c) \in ClientType
         /\ ResetKeepAliveInterval(c).task = c.task /\ ResetKeepAliveInterval(c).link = c.link
         /\ ResetKeepAliveInterval(c).hub =
              IF c.link.inherentKeepAlive THEN c.hub ELSE [c.hub EXCEPT !.ping = "none"]
BY DEF ClientType, HubType, ResetKeepAliveInterval, CleanupPingTimer

LEMMA StopLinkFacts ==
  ASSUME NEW c \in ClientType
  PROVE  /\ StopLink(c) \in ClientType
         /\ StopLink(c).hub = c.hub /\ StopLink(c).task = c.task
         /\ StopLink(c).link = IF c.link.state = "off" THEN c.link
                               ELSE [c.link EXCEPT !.stopping = TRUE]
BY DEF ClientType, LinkType, StopLink

LEMMA CatchStartFacts ==
  ASSUME NEW c \in ClientType, NEW t \in Task
  PROVE  /\ CatchStart(c, t) \in ClientType
         /\ CatchStart(c, t).hub = [c.hub EXCEPT !.timeout = FALSE, !.ping = "none"]
         /\ CatchStart(c, t).link = IF c.link.state = "off" THEN c.link
                                    ELSE [c.link EXCEPT !.stopping = TRUE]
         /\ CatchStart(c, t).task =
              [c.task EXCEPT ![t] = [c.task[t] EXCEPT
                 !.pc = IF c.link.state = "off" THEN "failing" ELSE "closing"]]
<1>1. PICK d \in ClientType : d = Cleanup(c)
  BY CleanupFacts
<1>2. PICK e \in ClientType : e = StopLink(d)
  BY StopLinkFacts
<1>3. /\ e.hub = [c.hub EXCEPT !.timeout = FALSE, !.ping = "none"] /\ e.task = c.task
      /\ e.link = IF c.link.state = "off" THEN c.link ELSE [c.link EXCEPT !.stopping = TRUE]
  <2>1. /\ d.hub = [c.hub EXCEPT !.timeout = FALSE, !.ping = "none"]
        /\ d.task = c.task /\ d.link = c.link
    BY <1>1, CleanupFacts
  <2>2. e.hub = d.hub /\ e.task = d.task
        /\ e.link = IF d.link.state = "off" THEN d.link ELSE [d.link EXCEPT !.stopping = TRUE]
    BY <1>2, StopLinkFacts
  <2>3. QED
    BY <2>1, <2>2
<1>4. e.link.state = c.link.state
  BY <1>3, Fields DEF LinkType
<1>5. CatchStart(c, t) = Goto(e, t, IF e.link.state = "off" THEN "failing" ELSE "closing")
  BY <1>1, <1>2 DEF CatchStart
<1>6. QED
  BY <1>3, <1>4, <1>5, GotoFacts DEF PC, Waiting

LEMMA StartInternalFacts ==
  ASSUME NEW c \in ClientType, NEW t \in Task, c.link.state = "off"
  PROVE  /\ StartInternal(c, t) \in ClientType
         /\ StartInternal(c, t).hub =
              [c.hub EXCEPT !.stopError = FALSE, !.answered = FALSE, !.resolver = t]
         /\ StartInternal(c, t).link = [c.link EXCEPT !.state = "opening"]
         /\ StartInternal(c, t).task =
              [c.task EXCEPT ![t] = [c.task[t] EXCEPT !.handshake = "pending", !.pc = "opening"]]
<1> DEFINE fresh == [c EXCEPT !.hub.stopError = FALSE, !.hub.answered = FALSE,
                              !.hub.resolver = t, !.task[t].handshake = "pending"]
           opening == [fresh EXCEPT !.link.state = "opening"]
<1>1. /\ fresh \in ClientType /\ fresh.link = c.link
      /\ fresh.hub = [c.hub EXCEPT !.stopError = FALSE, !.answered = FALSE, !.resolver = t]
      /\ fresh.task = [c.task EXCEPT ![t] = [c.task[t] EXCEPT !.handshake = "pending"]]
  <2>1. [c.hub EXCEPT !.stopError = FALSE, !.answered = FALSE, !.resolver = t] \in HubType
    BY Numbers, Fields DEF HubType
  <2>2. [c.task EXCEPT ![t] = [c.task[t] EXCEPT !.handshake = "pending"]] \in [Task -> TaskType]
    BY Fields DEF TaskType
  <2>3. /\ fresh.link = c.link
        /\ fresh.hub = [c.hub EXCEPT !.stopError = FALSE, !.answered = FALSE, !.resolver = t]
        /\ fresh.task = [c.task EXCEPT ![t] = [c.task[t] EXCEPT !.handshake = "pending"]]
    BY DEF ClientType
  <2>4. QED
    BY <2>1, <2>2, <2>3 DEF ClientType
<1>2. StartInternal(c, t) = Goto(opening, t, "opening")
  BY DEF StartInternal
<1> HIDE DEF fresh
<1>3. /\ opening \in ClientType /\ opening.hub = fresh.hub /\ opening.task = fresh.task
      /\ opening.link = [fresh.link EXCEPT !.state = "opening"]
  BY <1>1 DEF ClientType, LinkType
<1> HIDE DEF opening
<1>4. /\ Goto(opening, t, "opening") \in ClientType
      /\ Goto(opening, t, "opening").hub = opening.hub
      /\ Goto(opening, t, "opening").link = opening.link
      /\ Goto(opening, t, "opening").task =
           [opening.task EXCEPT ![t] = [opening.task[t] EXCEPT !.pc = "opening"]]
  BY <1>3, GotoFacts DEF PC, Waiting
<1>5. [opening.task EXCEPT ![t] = [opening.task[t] EXCEPT !.pc = "opening"]] =
        [c.task EXCEPT ![t] = [c.task[t] EXCEPT !.handshake = "pending", !.pc = "opening"]]
  BY <1>1, <1>3, Fields DEF TaskType
<1>6. QED
  BY <1>1, <1>2, <1>3, <1>4, <1>5

LEMMA RunFacts ==
  ASSUME NEW c \in ClientType, NEW kind \in {"start", "reconnect"}, HasTask(c)
  PROVE  /\ Run(c, kind) \in ClientType /\ c.hub.tasks + 1 \in Task
         /\ Run(c, kind).hub = [c.hub EXCEPT !.tasks = c.hub.tasks + 1]
         /\ Run(c, kind).link = c.link
         /\ Run(c, kind).task = [c.task EXCEPT ![c.hub.tasks + 1] =
                                   [c.task[c.hub.tasks + 1] EXCEPT !.kind = kind]]
<1>1. c.hub.tasks + 1 \in Task /\ c.hub.tasks + 1 \in 0 .. MaxTasks
  <2>1. c.hub.tasks \in 0 .. MaxTasks /\ c.hub.tasks < MaxTasks
    BY Fields DEF HasTask, HubType
  <2>2. QED
    BY <2>1, MaxTasksAssumption DEF Task
<1> DEFINE h == [c.hub EXCEPT !.tasks = c.hub.tasks + 1]
           k == [c.task EXCEPT ![c.hub.tasks + 1] = [c.task[c.hub.tasks + 1] EXCEPT !.kind = kind]]
<1>2. h \in HubType
  BY <1>1, Fields DEF HubType
<1>3. k \in [Task -> TaskType]
  BY <1>1, Fields DEF TaskType
<1>4. Run(c, kind).hub = h /\ Run(c, kind).task = k /\ Run(c, kind).link = c.link
  BY DEF Run, ClientType
<1>5. Run(c, kind) \in ClientType
  BY <1>2, <1>3, <1>4 DEF Run, ClientType
<1>6. QED
  BY <1>1, <1>4, <1>5

LEMMA LinkOffFacts ==
  ASSUME NEW c \in ClientType
  PROVE  /\ LinkOff(c) \in ClientType
         /\ LinkOff(c).hub = [c.hub EXCEPT !.stopPending = FALSE]
         /\ LinkOff(c).link = [c.link EXCEPT !.state = "off", !.stopping = FALSE,
                                            !.transport = "none"]
         /\ LinkOff(c).task = [t \in Task |-> IF c.task[t].pc = "closing"
                                              THEN [c.task[t] EXCEPT !.pc = "failing"]
                                              ELSE c.task[t]]
<1> DEFINE h == [c.hub EXCEPT !.stopPending = FALSE]
           l == [c.link EXCEPT !.state = "off", !.stopping = FALSE, !.transport = "none"]
           k == [t \in Task |-> IF c.task[t].pc = "closing" THEN [c.task[t] EXCEPT !.pc = "failing"]
                                ELSE c.task[t]]
<1>1. h \in HubType /\ l \in LinkType
  BY Fields DEF HubType, LinkType
<1>2. k \in [Task -> TaskType]
  BY Fields DEF TaskType, PC
<1>3. LinkOff(c).hub = h /\ LinkOff(c).task = k /\ LinkOff(c).link = l
  BY DEF LinkOff, ClientType
<1>4. LinkOff(c) \in ClientType
  BY <1>1, <1>2, <1>3 DEF LinkOff, ClientType
<1>5. QED
  BY <1>3, <1>4

LEMMA StartCallFacts ==
  ASSUME NEW c \in ClientType, c.hub.state = "Disconnected", c.link.state = "off", HasTask(c)
  PROVE  LET d == StartCall(c)
             t == c.hub.tasks + 1 IN
         /\ d \in ClientType
         /\ d.hub = [c.hub EXCEPT !.tasks = t, !.state = "Connecting", !.startPromise = t,
                                  !.stopError = FALSE, !.answered = FALSE, !.resolver = t]
         /\ d.link = [c.link EXCEPT !.state = "opening"]
         /\ d.task = [c.task EXCEPT ![t] = [c.task[t] EXCEPT !.kind = "start",
                                              !.handshake = "pending", !.pc = "opening"]]
<1>1. PICK t \in Task : t = c.hub.tasks + 1
  BY RunFacts
<1>2. PICK run \in ClientType : run = Run(c, "start")
  BY RunFacts
<1>3. /\ run.hub = [c.hub EXCEPT !.tasks = t] /\ run.link = c.link
      /\ run.task = [c.task EXCEPT ![t] = [c.task[t] EXCEPT !.kind = "start"]]
  BY <1>1, <1>2, RunFacts
<1>4. run.hub.tasks = t
  BY <1>3, Fields DEF HubType
<1> DEFINE go == [run EXCEPT !.hub.state = "Connecting", !.hub.startPromise = t]
<1>5. go.hub = [run.hub EXCEPT !.state = "Connecting", !.startPromise = t]
      /\ go.task = run.task /\ go.link = run.link
  BY DEF ClientType
<1>6. go \in ClientType
  <2>1. [run.hub EXCEPT !.state = "Connecting", !.startPromise = t] \in HubType
    BY Numbers, Fields DEF HubType, HubConnectionState
  <2>2. QED
    BY <1>5, <2>1 DEF ClientType
<1>7. StartCall(c) = StartInternal(go, t)
  BY <1>2, <1>4 DEF StartCall
<1> HIDE DEF go
<1>g. go.link.state = "off"
  BY <1>3, <1>5
<1>8. PICK d \in ClientType : d = StartInternal(go, t)
  BY <1>6, <1>g, StartInternalFacts
<1>9. /\ d.hub = [go.hub EXCEPT !.stopError = FALSE, !.answered = FALSE, !.resolver = t]
      /\ d.link = [go.link EXCEPT !.state = "opening"]
      /\ d.task = [go.task EXCEPT ![t] = [go.task[t] EXCEPT !.handshake = "pending",
                                                              !.pc = "opening"]]
  BY <1>6, <1>8, <1>g, StartInternalFacts
<1>10. d.hub = [c.hub EXCEPT !.tasks = t, !.state = "Connecting", !.startPromise = t,
                             !.stopError = FALSE, !.answered = FALSE, !.resolver = t]
  BY <1>3, <1>5, <1>9, Fields DEF HubType
<1>11. d.task = [c.task EXCEPT ![t] = [c.task[t] EXCEPT !.kind = "start", !.handshake = "pending",
                                                        !.pc = "opening"]]
  <2>1. go.task[t] = [c.task[t] EXCEPT !.kind = "start"]
    BY <1>3, <1>5, Fields
  <2>2. d.task = [c.task EXCEPT ![t] = [go.task[t] EXCEPT !.handshake = "pending",
                                                           !.pc = "opening"]]
    BY <1>3, <1>5, <1>9, Fields
  <2>3. QED
    BY <2>1, <2>2
<1>12. QED
  BY <1>1, <1>3, <1>5, <1>7, <1>8, <1>9, <1>10, <1>11

\* A new start, beside a reconnect loop that is about to end.
LEMMA StartCallKeeps ==
  ASSUME NEW c \in ClientType, ClientInv(c), c.hub.state = "Disconnected", HasTask(c),
         \A t \in Task : Alive(c, t) => c.task[t].pc = "failing"
  PROVE  /\ StartCall(c) \in ClientType /\ ClientInv(StartCall(c))
         /\ StartCall(c).hub.state = "Connecting"
         /\ StartCall(c).hub.tasks = c.hub.tasks + 1
         /\ StartCall(c).hub.started = c.hub.started /\ StartCall(c).hub.closes = c.hub.closes
<1>0. c.link.state = "off" /\ ~c.hub.started
  BY DEF ClientInv, StateInv
<1>1. PICK d \in ClientType : d = StartCall(c)
  BY <1>0, StartCallFacts
<1>2. PICK new \in Task : new = c.hub.tasks + 1
  BY RunFacts
<1>3. /\ d.hub = [c.hub EXCEPT !.tasks = new, !.state = "Connecting", !.startPromise = new,
                             !.stopError = FALSE, !.answered = FALSE, !.resolver = new]
      /\ d.link = [c.link EXCEPT !.state = "opening"]
      /\ d.task = [c.task EXCEPT ![new] = [c.task[new] EXCEPT !.kind = "start",
                                             !.handshake = "pending", !.pc = "opening"]]
  BY <1>0, <1>1, <1>2, StartCallFacts
<1>4. /\ d.hub.tasks = new /\ d.hub.state = "Connecting" /\ d.hub.resolver = new
      /\ ~d.hub.answered /\ d.hub.started = c.hub.started /\ d.hub.closes = c.hub.closes
      /\ d.hub.timeout = c.hub.timeout /\ d.hub.ping = c.hub.ping /\ d.hub.delayed = c.hub.delayed
  BY <1>3, Fields DEF HubType
<1>5. d.link.state = "opening"
  BY <1>3, Fields DEF LinkType
<1>6. /\ d.task[new].kind = "start" /\ d.task[new].pc = "opening" /\ Pending(d, new)
      /\ \A t \in Task : t # new => d.task[t] = c.task[t]
  BY <1>3, Fields DEF TaskType, Pending
<1>7. /\ \A t \in Task : t > new <=> t > c.hub.tasks /\ t # new
      /\ ~Alive(c, new) /\ c.task[new].pc # "delay"
  <2>1. c.hub.tasks \in Nat /\ new > c.hub.tasks /\ \A t \in Task : t \in Nat
    BY <1>2, Numbers, MaxTasksAssumption, Fields DEF HubType
  <2>2. c.task[new] = NewTask
    BY <2>1 DEF ClientInv, TaskInv
  <2>3. QED
    BY <1>2, <2>1, <2>2 DEF NewTask, Alive
<1>8. \A t \in Task : Current(d, t) <=> t = new
  <2>1. \A t \in Task : Alive(c, t) => Left(c, t)
    BY DEF ClientInv, StateInv, Current
  <2>2. QED
    BY <1>4, <1>6, <2>1 DEF Current, Left, Alive, Ended
<1>9. \A t \in Task : Left(d, t) => t # new /\ Left(c, t) /\ c.task[t].pc = "failing"
  BY <1>4, <1>6 DEF Left, Alive, Ended
<1>10. TaskInv(d)
  <2>1. \A t \in Task : IF t > d.hub.tasks THEN d.task[t] = NewTask
                        ELSE d.task[t].kind # "none" /\ d.task[t].pc # "new"
    BY <1>4, <1>6, <1>7 DEF ClientInv, TaskInv
  <2>2. QED
    BY <1>6, <1>8, <1>9, <2>1 DEF ClientInv, TaskInv
<1>11. StateInv(d)
  BY <1>0, <1>4, <1>5, <1>6, <1>8 DEF StateInv
<1>12. ASSUME NEW t \in Task
       PROVE  WaitsWell(d, t)
  <2>1. CASE t = new
    BY <1>4, <1>5, <1>6, <1>7, <2>1 DEF ClientInv, WaitInv, WaitsWell, PageStopped
  <2>2. CASE t # new
    BY <1>4, <1>6, <1>8, <2>2 DEF ClientInv, WaitInv, WaitsWell, Alive, Ended
  <2>3. QED
    BY <2>1, <2>2
<1>13. TimerInv(d)
  BY <1>0, <1>4 DEF ClientInv, TimerInv
<1>14. QED
  BY <1>1, <1>2, <1>4, <1>10, <1>11, <1>12, <1>13 DEF ClientInv, WaitInv

\* onclose, after the connection ended or stop() overtook a retry.
Closable(c) ==
  /\ c.hub.started /\ c.link.state = "off" /\ ~c.hub.timeout /\ c.hub.ping = "none"
  /\ c.hub.delayed = NoTask
  /\ \A t \in Task : IF t > c.hub.tasks THEN c.task[t] = NewTask
                     ELSE c.task[t].kind # "none" /\ c.task[t].pc # "new"
  /\ \A t, u \in Task : Alive(c, t) /\ Alive(c, u) => t = u
  /\ \A t \in Task : Alive(c, t) =>
       /\ c.task[t].kind = "reconnect" /\ Ready(c, t)
       /\ c.task[t].pc = "awaiting" => c.hub.resolver = t /\ c.hub.stopError /\ ~RestartsInside

LEMMA CompleteCloseKeeps ==
  ASSUME NEW c \in ClientType, Closable(c)
  PROVE  LET d == CompleteClose(c) IN
         /\ d \in ClientType /\ ClientInv(d) /\ ~d.hub.started /\ d.hub.closes = c.hub.closes + 1
         /\ \/ d.hub.state = "Disconnected" /\ d.hub.tasks = c.hub.tasks
            \/ d.hub.state = "Connecting" /\ d.hub.tasks = c.hub.tasks + 1
<1> DEFINE closed == [c EXCEPT !.hub.state = "Disconnected", !.hub.started = FALSE,
                               !.hub.closes = @ + 1]
<1>1. /\ closed.hub = [c.hub EXCEPT !.state = "Disconnected", !.started = FALSE,
                                    !.closes = c.hub.closes + 1]
      /\ closed.task = c.task /\ closed.link = c.link
  BY DEF ClientType
<1>2. closed \in ClientType
  <2>1. [c.hub EXCEPT !.state = "Disconnected", !.started = FALSE, !.closes = c.hub.closes + 1]
        \in HubType
    <3>1. c.hub.closes + 1 \in Nat
      BY Fields DEF HubType
    <3>2. QED
      BY <3>1, Fields DEF HubType, HubConnectionState
  <2>2. QED
    BY <1>1, <2>1 DEF ClientType
<1>3. CompleteClose(c) = IF RestartsInside /\ HasTask(closed) THEN StartCall(closed) ELSE closed
  BY DEF CompleteClose, Closable
<1> HIDE DEF closed
<1>4. /\ closed.hub.state = "Disconnected" /\ ~closed.hub.started
      /\ closed.hub.closes = c.hub.closes + 1
      /\ closed.hub.tasks = c.hub.tasks /\ closed.hub.timeout = c.hub.timeout
      /\ closed.hub.ping = c.hub.ping
      /\ closed.hub.delayed = c.hub.delayed /\ closed.hub.resolver = c.hub.resolver
      /\ closed.hub.stopError = c.hub.stopError /\ closed.hub.answered = c.hub.answered
  BY <1>1, Fields DEF HubType
<1>5. \A t \in Task : Alive(closed, t) <=> Left(closed, t)
  BY <1>1, <1>4 DEF Closable, Left, Alive
<1>6. TaskInv(closed)
  BY <1>1, <1>4, <1>5 DEF Closable, TaskInv, Left, Current, Alive, Ready, Pending
<1>7. StateInv(closed)
  BY <1>1, <1>4, <1>5 DEF Closable, StateInv, Current
<1>8. WaitInv(closed)
  BY <1>1, <1>4, <1>5, Numbers
  DEF Closable, WaitInv, WaitsWell, PageStopped, Current, Ready, Pending, Alive, Ended
<1>9. TimerInv(closed)
  BY <1>1, <1>4 DEF Closable, TimerInv
<1>10. CASE RestartsInside /\ HasTask(closed)
  <2>1. \A t \in Task : Alive(closed, t) => closed.task[t].pc = "failing"
    BY <1>1, <1>10 DEF Closable, Alive, Ready
  <2>2. QED
    BY <1>2, <1>4, <1>3, <1>6, <1>7, <1>8, <1>9, <1>10, <2>1, StartCallKeeps DEF ClientInv
<1>11. CASE ~(RestartsInside /\ HasTask(closed))
  BY <1>2, <1>4, <1>3, <1>6, <1>7, <1>8, <1>9, <1>11 DEF ClientInv
<1>12. QED
  BY <1>10, <1>11

-----------------------------------------------------------------------------
(* Steps that leave the state of the hub.                                  *)

\* The ping may be left unsent: nobody relies on it to notice the end of the connection.
MaySkip(c) ==
  \/ c.hub.ping = "fired"
  \/ c.hub.state # "Connected" /\ \A t \in Task : c.task[t].pc # "pinging"

\* Only timers, or a connection that is told to stop.
LEMMA TimersGood ==
  ASSUME NEW c \in ClientType, ClientInv(c), NEW d \in ClientType, c.link.state = "up",
         NEW timeout \in BOOLEAN, NEW ping \in {"none", "set", "fired"},
         d.hub = [c.hub EXCEPT !.timeout = timeout, !.ping = ping], d.task = c.task,
         d.link = c.link \/ d.link = [c.link EXCEPT !.stopping = TRUE],
         timeout \/ timeout = c.hub.timeout \/ d.link.stopping \/ c.link.inherentKeepAlive,
         ping = "fired" => MaySkip(c)
  PROVE  Good(c, d)
<1>1. /\ d.hub.state = c.hub.state /\ d.hub.started = c.hub.started
      /\ d.hub.closes = c.hub.closes /\ d.hub.tasks = c.hub.tasks
      /\ d.hub.delayed = c.hub.delayed /\ d.hub.resolver = c.hub.resolver
      /\ d.hub.stopError = c.hub.stopError /\ d.hub.answered = c.hub.answered
      /\ d.hub.stopPending = c.hub.stopPending
      /\ d.hub.timeout = timeout /\ d.hub.ping = ping
  BY Fields DEF HubType
<1>2. /\ d.link.state = "up" /\ d.link.inherentKeepAlive = c.link.inherentKeepAlive
      /\ c.link.stopping => d.link.stopping
  BY Fields DEF LinkType
<1>3. TaskInv(d)
  BY <1>1 DEF ClientInv, TaskInv, Left, Current, Alive, Ready, Pending
<1>4. c.hub.state = "Connected" \/ (\E t \in Task : c.task[t].pc = "pinging") =>
        (Watched(c) => Watched(d))
  BY <1>1, <1>2, Fields DEF Watched, HubType, MaySkip
<1>5. StateInv(d)
  BY <1>1, <1>2, <1>4 DEF ClientInv, StateInv, Left, Current, Alive
<1>6. WaitInv(d)
  BY <1>1, <1>2, <1>4 DEF ClientInv, WaitInv, WaitsWell, Left, Current, Alive, Pending, PageStopped
<1>7. TimerInv(d) /\ ~Stuck(d)
  BY <1>2 DEF TimerInv, Stuck
<1>8. Follows(c, d) /\ d.hub.tasks >= c.hub.tasks
  BY <1>1, MaxTasksAssumption, Fields DEF Follows, HubType
<1>9. QED
  BY <1>3, <1>5, <1>6, <1>7, <1>8 DEF Good, ClientInv

\* The one task that is alive goes on to wait for something else, or to throw.
LEMMA MovesOnGood ==
  ASSUME NEW c \in ClientType, ClientInv(c), NEW d \in ClientType, NEW t \in Task,
         Alive(c, t), OnlyAlive(c, t), c.task[t].pc # "delay",
         NEW pc \in {"requesting", "awaiting", "pinging", "closing", "failing"},
         d.task = [c.task EXCEPT ![t] = [c.task[t] EXCEPT !.pc = pc]],
         NEW timeout \in BOOLEAN, NEW ping \in {"none", "set", "fired"},
         \/ d.hub = [c.hub EXCEPT !.timeout = timeout, !.ping = ping]
         \/ d.link.state = "off"
            /\ d.hub = [c.hub EXCEPT !.timeout = timeout, !.ping = ping, !.stopPending = FALSE],
         Left(c, t) => d.link.state = "off" /\ pc = "failing",
         d.link.state = "off" => Ready(d, t),
         d.link.state # "off" => c.link.state # "off",
         WaitsWell(d, t), TimerInv(d)
  PROVE  Good(c, d)
<1>1. /\ d.hub.state = c.hub.state /\ d.hub.started = c.hub.started
      /\ d.hub.closes = c.hub.closes /\ d.hub.tasks = c.hub.tasks
      /\ d.hub.delayed = c.hub.delayed
      /\ d.link.state # "off" => d.hub.stopPending = c.hub.stopPending
  BY Fields DEF HubType
<1>2. /\ d.task[t].pc = pc /\ d.task[t].kind = c.task[t].kind
      /\ d.task[t].handshake = c.task[t].handshake
      /\ \A u \in Task : u # t => d.task[u] = c.task[u]
  BY Fields DEF TaskType
<1>3. \A u \in Task : /\ Alive(d, u) <=> u = t
                      /\ Left(d, u) <=> Left(c, u)
                      /\ Current(d, u) <=> Current(c, u)
  BY <1>1, <1>2 DEF OnlyAlive, Alive, Left, Current, Ended
<1>4. TaskInv(d)
  <2>1. \A u \in Task : IF u > d.hub.tasks THEN d.task[u] = NewTask
                        ELSE d.task[u].kind # "none" /\ d.task[u].pc # "new"
    <3>1. c.task[t] # NewTask
      BY DEF Alive, NewTask
    <3>2. QED
      BY <1>1, <1>2, <3>1 DEF ClientInv, TaskInv
  <2>2. \A u \in Task : Left(d, u) =>
          /\ d.task[u].pc = "failing"
          /\ \A v \in Task : ~Current(d, v)
    BY <1>1, <1>2, <1>3 DEF Left, Current
  <2>3. QED
    BY <1>3, <2>1, <2>2 DEF TaskInv, Left, Current
<1>5. StateInv(d)
  <2>1. c.hub.state # "Connected"
    BY DEF ClientInv, StateInv, Current, Left
  <2>2. Left(c, t) => c.hub.state = "Disconnected"
    <3>1. Left(c, t) => \A u \in Task : ~Current(c, u)
      BY DEF OnlyAlive, Left, Current
    <3>2. QED
      BY <3>1 DEF ClientInv, StateInv, Left
  <2>3. c.hub.state = "Disconnected" => d.link.state = "off"
    BY DEF ClientInv, StateInv, Current
  <2>4. QED
    BY <1>1, <1>2, <1>3, <2>1, <2>2, <2>3 DEF ClientInv, StateInv
<1>6. WaitInv(d)
  <2>1. ASSUME NEW u \in Task, u # t
        PROVE  WaitsWell(d, u)
    BY <1>1, <1>2, <1>3, <2>1 DEF ClientInv, WaitInv, WaitsWell, Alive, Ended, Current
  <2>2. QED
    BY <2>1 DEF WaitInv
<1>7. ~Stuck(d) \/ Stuck(c)
  BY DEF Stuck
<1>8. Follows(c, d) /\ d.hub.tasks >= c.hub.tasks
  BY <1>1, MaxTasksAssumption, Fields DEF Follows, HubType
<1>9. QED
  BY <1>4, <1>5, <1>6, <1>7, <1>8 DEF Good, ClientInv

LEMMA CatchStartGood ==
  ASSUME NEW c \in ClientType, ClientInv(c), NEW e \in ClientType, NEW t \in Task,
         OnlyAlive(c, t), c.task[t].pc \in {"opening", "requesting", "awaiting", "pinging"},
         NEW ping \in {"none", "set", "fired"},
         e.hub = [c.hub EXCEPT !.ping = ping], e.task = c.task,
         IF c.task[t].pc = "opening" THEN e.link.state = "up" ELSE e.link = c.link,
         Left(c, t) => e.link = c.link
  PROVE  Good(c, CatchStart(e, t))
<1>1. PICK d \in ClientType : d = CatchStart(e, t)
  BY CatchStartFacts
<1>2. PICK pc \in {"closing", "failing"} :
        pc = IF e.link.state = "off" THEN "failing" ELSE "closing"
  OBVIOUS
<1>3. d.hub = [c.hub EXCEPT !.timeout = FALSE, !.ping = "none"]
  <2>1. d.hub = [e.hub EXCEPT !.timeout = FALSE, !.ping = "none"]
    BY <1>1, CatchStartFacts
  <2>2. QED
    BY <2>1, Fields DEF HubType
<1>4. d.task = [c.task EXCEPT ![t] = [c.task[t] EXCEPT !.pc = pc]]
  <2>1. d.task = [e.task EXCEPT ![t] = [e.task[t] EXCEPT
                    !.pc = IF e.link.state = "off" THEN "failing" ELSE "closing"]]
    BY <1>1, CatchStartFacts
  <2>2. QED
    BY <1>2, <2>1
<1>5. d.link = IF e.link.state = "off" THEN e.link ELSE [e.link EXCEPT !.stopping = TRUE]
  BY <1>1, CatchStartFacts
<1>6. /\ d.link.state = e.link.state /\ (e.link.state # "off" => d.link.stopping)
      /\ e.link.state \in {"off", "opening", "up"}
      /\ d.hub.delayed = c.hub.delayed /\ ~d.hub.timeout /\ d.hub.ping = "none"
      /\ d.task[t].pc = pc /\ d.hub.state = c.hub.state
  <2>1. d.link.state = e.link.state /\ (e.link.state # "off" => d.link.stopping)
        /\ e.link.state \in {"off", "opening", "up"}
    BY <1>5, Fields DEF LinkType
  <2>2. d.hub.delayed = c.hub.delayed /\ ~d.hub.timeout /\ d.hub.ping = "none"
        /\ d.hub.state = c.hub.state
    BY <1>3, Fields DEF HubType
  <2>3. d.task[t].pc = pc
    BY <1>4, Fields DEF TaskType
  <2>4. QED
    BY <2>1, <2>2, <2>3
<1>7. e.link.state # "opening"
  BY DEF ClientInv, WaitInv, WaitsWell
<1>8. WaitsWell(d, t) /\ TimerInv(d)
  BY <1>2, <1>6, <1>7 DEF ClientInv, WaitInv, WaitsWell, TimerInv
<1>9. Left(c, t) => d.link.state = "off" /\ pc = "failing"
  <2>1. Left(c, t) => c.hub.state = "Disconnected"
    BY DEF ClientInv, TaskInv, StateInv, OnlyAlive, Left, Current
  <2>2. QED
    BY <1>2, <1>6, <2>1 DEF ClientInv, StateInv
<1>10. d.link.state # "off" => c.link.state # "off"
  BY <1>6 DEF ClientInv, WaitInv, WaitsWell
<1>11. Alive(c, t) /\ c.task[t].pc # "delay" /\ (d.link.state = "off" => Ready(d, t))
  BY <1>2, <1>6 DEF Alive, Ended, Ready
<1>12. Good(c, d)
  BY <1>2, <1>3, <1>4, <1>8, <1>9, <1>10, <1>11, MovesOnGood
<1>13. QED
  BY <1>1, <1>12

-----------------------------------------------------------------------------
(* Steps that end a task.                                                  *)

LEMMA CloseGood ==
  ASSUME NEW c \in ClientType, NEW e \in ClientType, Closable(e), c.hub.started,
         e.hub.closes = c.hub.closes, e.hub.tasks = c.hub.tasks
  PROVE  Good(c, CompleteClose(e))
<1>1. PICK d \in ClientType : d = CompleteClose(e)
  BY CompleteCloseKeeps
<1>2. /\ ClientInv(d) /\ ~d.hub.started /\ d.hub.closes = c.hub.closes + 1
      /\ \/ d.hub.state = "Disconnected" /\ d.hub.tasks = c.hub.tasks
         \/ d.hub.state = "Connecting" /\ d.hub.tasks = c.hub.tasks + 1
  BY <1>1, CompleteCloseKeeps
<1>3. c.hub.tasks \in Nat
  BY MaxTasksAssumption, Fields DEF HubType
<1>4. Follows(c, d)
  <2>1. d.hub.state = "Disconnected" \/ (d.hub.state = "Connecting" /\ d.hub.tasks > c.hub.tasks)
    BY <1>2, <1>3
  <2>2. c.hub.started /\ ~d.hub.started /\ d.hub.closes = c.hub.closes + 1
    BY <1>2
  <2>3. QED
    BY <2>1, <2>2, Zenon DEF Follows
<1>5. d.hub.tasks >= c.hub.tasks /\ ~Stuck(d)
  BY <1>2, <1>3 DEF Stuck
<1>6. QED
  BY <1>1, <1>2, <1>4, <1>5 DEF Good

\* The end of the only task of a reconnect leaves nothing alive.
LEMMA EndedTask ==
  ASSUME NEW c \in ClientType, ClientInv(c), NEW t \in Task, NEW pc \in Ended
  PROVE  LET d == Goto(c, t, pc) IN
         /\ d \in ClientType /\ d.hub = c.hub /\ d.link = c.link
         /\ d.task[t].pc = pc /\ \A u \in Task : u # t => d.task[u] = c.task[u]
         /\ \A u \in Task : Alive(d, u) <=> Alive(c, u) /\ u # t
         /\ Alive(c, t) => \A u \in Task : IF u > c.hub.tasks THEN d.task[u] = NewTask
                                           ELSE d.task[u].kind # "none" /\ d.task[u].pc # "new"
<1>1. PICK d \in ClientType : d = Goto(c, t, pc)
  BY GotoFacts DEF PC
<1>2. /\ d.hub = c.hub /\ d.link = c.link
      /\ d.task = [c.task EXCEPT ![t] = [c.task[t] EXCEPT !.pc = pc]]
  BY <1>1, GotoFacts DEF PC
<1>3. /\ d.task[t].pc = pc /\ d.task[t].kind = c.task[t].kind
      /\ \A u \in Task : u # t => d.task[u] = c.task[u]
  BY <1>2, Fields DEF TaskType
<1>4. \A u \in Task : Alive(d, u) <=> Alive(c, u) /\ u # t
  BY <1>3 DEF Alive
<1>5. Alive(c, t) => c.task[t] # NewTask
  BY DEF Alive, NewTask
<1>6. pc # "new"
  BY DEF Ended
<1>7. QED
  BY <1>1, <1>2, <1>3, <1>4, <1>5, <1>6 DEF ClientInv, TaskInv

LEMMA EndedClosable ==
  ASSUME NEW c \in ClientType, ClientInv(c), NEW t \in Task, NEW pc \in Ended,
         c.task[t].pc = "failing", c.task[t].kind = "reconnect",
         c.hub.state \in {"Reconnecting", "Disconnecting"}
  PROVE  Closable(Goto(c, t, pc)) /\ c.hub.started
<1>1. PICK d \in ClientType : d = Goto(c, t, pc)
  BY EndedTask
<1>2. Current(c, t) /\ \A u \in Task : ~Left(c, u)
  BY DEF Current, Left, Alive, Ended
<1>3. \A u \in Task : ~Alive(d, u)
  BY <1>1, <1>2, EndedTask DEF ClientInv, TaskInv, Current
<1>4. c.hub.started /\ c.link.state = "off" /\ ~c.hub.timeout /\ c.hub.ping = "none"
  BY <1>2 DEF ClientInv, StateInv, WaitInv, WaitsWell, TimerInv
<1>5. c.hub.delayed = NoTask
  <2>1. \A u \in Task : u # t => c.task[u].pc # "delay"
    BY <1>2 DEF ClientInv, TaskInv, Current, Alive, Ended
  <2>2. \A u \in Task : c.hub.delayed # u
    BY <2>1 DEF ClientInv, WaitInv, WaitsWell
  <2>3. c.hub.delayed \in 0 .. MaxTasks
    BY Fields DEF HubType
  <2>4. QED
    BY <2>2, <2>3, MaxTasksAssumption DEF Task, NoTask
<1>6. QED
  BY <1>1, <1>2, <1>3, <1>4, <1>5, EndedTask DEF Closable, Current

LEMMA NextDelayFacts ==
  ASSUME NEW c \in ClientType, NEW t \in Task, c.task[t].tries # Retries
  PROVE  LET d == NextDelay(c, t) IN
         /\ d \in ClientType /\ d.hub = [c.hub EXCEPT !.delayed = t] /\ d.link = c.link
         /\ d.task[t].pc = "delay" /\ d.task[t].kind = c.task[t].kind
         /\ \A u \in Task : u # t => d.task[u] = c.task[u]
<1> DEFINE e == [c EXCEPT !.task[t].tries = @ + 1, !.hub.delayed = t]
<1>1. /\ e.hub = [c.hub EXCEPT !.delayed = t] /\ e.link = c.link
      /\ e.task = [c.task EXCEPT ![t] = [c.task[t] EXCEPT !.tries = c.task[t].tries + 1]]
  BY DEF ClientType
<1>2. e \in ClientType
  <2>1. [c.hub EXCEPT !.delayed = t] \in HubType
    BY Numbers, Fields DEF HubType
  <2>2. c.task[t].tries + 1 \in 0 .. Retries
    BY RetriesAssumption, Fields DEF TaskType
  <2>3. [c.task EXCEPT ![t] = [c.task[t] EXCEPT !.tries = c.task[t].tries + 1]]
          \in [Task -> TaskType]
    BY <2>2, Fields DEF TaskType
  <2>4. QED
    BY <1>1, <2>1, <2>3 DEF ClientType
<1>3. NextDelay(c, t) = Goto(e, t, "delay")
  BY DEF NextDelay
<1> HIDE DEF e
<1>4. PICK d \in ClientType : d = NextDelay(c, t)
  BY <1>2, <1>3, GotoFacts DEF PC, Waiting
<1>5. /\ d.hub = e.hub /\ d.link = e.link
      /\ d.task = [e.task EXCEPT ![t] = [e.task[t] EXCEPT !.pc = "delay"]]
  BY <1>2, <1>3, <1>4, GotoFacts DEF PC, Waiting
<1>6. /\ d.task[t].pc = "delay" /\ d.task[t].kind = c.task[t].kind
      /\ \A u \in Task : u # t => d.task[u] = c.task[u]
  BY <1>1, <1>2, <1>5, Fields DEF TaskType
<1>7. QED
  BY <1>1, <1>4, <1>5, <1>6

LEMMA NextDelayGood ==
  ASSUME NEW c \in ClientType, ClientInv(c), NEW t \in Task,
         c.task[t].pc = "failing", c.task[t].kind = "reconnect", c.hub.state = "Reconnecting"
  PROVE  Good(c, NextDelay(c, t))
<1>1. CASE c.task[t].tries = Retries
  BY <1>1, EndedClosable, EndedTask, CloseGood DEF NextDelay, Ended
<1>2. CASE c.task[t].tries # Retries
  <2>4. PICK d \in ClientType : d = NextDelay(c, t)
    BY <1>2, NextDelayFacts
  <2>5. d.hub = [c.hub EXCEPT !.delayed = t] /\ d.link = c.link
    BY <1>2, <2>4, NextDelayFacts
  <2>6. /\ d.task[t].pc = "delay" /\ d.task[t].kind = "reconnect"
        /\ \A u \in Task : u # t => d.task[u] = c.task[u]
    BY <1>2, <2>4, NextDelayFacts
  <2>7. /\ d.hub.state = c.hub.state /\ d.hub.started = c.hub.started
        /\ d.hub.closes = c.hub.closes /\ d.hub.tasks = c.hub.tasks
        /\ d.hub.delayed = t /\ d.hub.timeout = c.hub.timeout /\ d.hub.ping = c.hub.ping
    BY <2>5, Fields DEF HubType
  <2>8. \A u \in Task : /\ ~Left(c, u) /\ ~Left(d, u)
                        /\ Alive(c, u) <=> u = t
                        /\ Alive(d, u) <=> u = t
    BY <2>6, <2>7 DEF Left, Current, Alive, Ended, ClientInv, TaskInv
  <2>9. TaskInv(d)
    <3>1. c.task[t] # NewTask
      BY DEF NewTask
    <3>2. QED
      BY <2>6, <2>7, <2>8, <3>1 DEF ClientInv, TaskInv, Current
  <2>10. c.link.state = "off" /\ c.hub.started
    BY <2>8 DEF ClientInv, StateInv, WaitInv, WaitsWell, Current
  <2>11. StateInv(d)
    BY <2>5, <2>6, <2>7, <2>8, <2>10 DEF StateInv, Current
  <2>12. WaitInv(d)
    BY <2>5, <2>6, <2>7, <2>8, <2>10 DEF WaitInv, WaitsWell, Alive, Ended
  <2>13. TimerInv(d) /\ Follows(c, d) /\ d.hub.tasks >= c.hub.tasks /\ ~Stuck(d)
    BY <2>5, <2>7, MaxTasksAssumption, Fields DEF ClientInv, TimerInv, Follows, HubType, Stuck
  <2>14. QED
    BY <2>4, <2>9, <2>11, <2>12, <2>13 DEF Good, ClientInv
<1>3. QED
  BY <1>1, <1>2

LEMMA FailsGood ==
  ASSUME NEW c \in ClientType, ClientInv(c), NEW t \in Task, c.task[t].pc = "failing"
  PROVE  Good(c, Fails(c, t))
<1>0. Alive(c, t)
  BY DEF Alive, Ended
<1>e. PICK e \in ClientType : e = Goto(c, t, "failed")
  BY EndedTask DEF Ended
<1>f. /\ e.hub = c.hub /\ e.link = c.link
      /\ e.task[t].pc = "failed" /\ \A u \in Task : u # t => e.task[u] = c.task[u]
      /\ \A u \in Task : Alive(e, u) <=> Alive(c, u) /\ u # t
      /\ \A u \in Task : IF u > c.hub.tasks THEN e.task[u] = NewTask
                         ELSE e.task[u].kind # "none" /\ e.task[u].pc # "new"
  BY <1>0, <1>e, EndedTask DEF Ended
<1>k. c.task[t].kind \in {"none", "start", "reconnect"}
  BY Fields DEF TaskType
<1>1. CASE c.task[t].kind = "start"
  <2>1. PICK d \in ClientType : /\ d = Fails(c, t)
                                /\ d.hub = [c.hub EXCEPT !.state = "Disconnected"]
                                /\ d.task = e.task /\ d.link = c.link
    <3>1. Fails(c, t) = [e EXCEPT !.hub.state = "Disconnected"]
      BY <1>1, <1>e DEF Fails
    <3>2. [c.hub EXCEPT !.state = "Disconnected"] \in HubType
      BY Fields DEF HubType, HubConnectionState
    <3>3. QED
      BY <1>f, <3>1, <3>2 DEF ClientType
  <2>2. /\ d.hub.state = "Disconnected" /\ d.hub.started = c.hub.started
        /\ d.hub.closes = c.hub.closes /\ d.hub.tasks = c.hub.tasks
        /\ d.hub.delayed = c.hub.delayed /\ d.hub.timeout = c.hub.timeout
        /\ d.hub.ping = c.hub.ping
    BY <2>1, Fields DEF HubType
  <2>3. Current(c, t) /\ c.hub.state \in {"Connecting", "Disconnecting"} /\ ~c.hub.started
        /\ c.link.state = "off"
    BY <1>0, <1>1 DEF Left, Current, ClientInv, StateInv, WaitInv, WaitsWell
  <2>4. \A u \in Task : Alive(c, u) => u = t
    BY <2>3 DEF ClientInv, TaskInv, Current
  <2>5. \A u \in Task : ~Alive(d, u)
    BY <1>f, <2>1, <2>4 DEF Alive
  <2>6. TaskInv(d)
    BY <1>f, <2>1, <2>2, <2>5 DEF TaskInv, Left, Current
  <2>7. StateInv(d)
    BY <2>1, <2>2, <2>3, <2>5 DEF StateInv, Current
  <2>8. WaitInv(d)
    <3>1. ASSUME NEW u \in Task
          PROVE  WaitsWell(d, u)
      <4>1. d.task[u].pc \notin Waiting \cup {"failing"}
        BY <2>5 DEF Alive, Ended, Waiting
      <4>2. c.hub.delayed # u
        BY <2>4 DEF ClientInv, WaitInv, WaitsWell, Alive, Ended
      <4>3. QED
        BY <2>2, <4>1, <4>2 DEF WaitsWell, Waiting
    <3>2. QED
      BY <3>1 DEF WaitInv
  <2>9. TimerInv(d) /\ Follows(c, d) /\ d.hub.tasks >= c.hub.tasks /\ ~Stuck(d)
    BY <2>1, <2>2, <2>3, MaxTasksAssumption, Fields
    DEF ClientInv, TimerInv, Follows, HubType, Stuck
  <2>10. QED
    BY <2>1, <2>6, <2>7, <2>8, <2>9 DEF Good, ClientInv
<1>2. CASE c.task[t].kind = "reconnect" /\ c.hub.state = "Reconnecting"
  BY <1>2, NextDelayGood DEF Fails
<1>3. CASE c.task[t].kind = "reconnect" /\ c.hub.state = "Disconnecting"
  BY <1>3, EndedClosable, EndedTask, CloseGood DEF Fails, Ended
<1>4. CASE c.task[t].kind # "start" /\ c.hub.state \notin {"Reconnecting", "Disconnecting"}
  <2>1. Fails(c, t) = e
    BY <1>4, <1>e DEF Fails
  <2>2. Left(c, t)
    BY <1>0, <1>4 DEF ClientInv, StateInv, Left, Current
  <2>3. \A u \in Task : (Left(e, u) => Left(c, u)) /\ (Current(e, u) <=> Current(c, u))
    BY <1>f, <2>2 DEF Left, Current, Alive
  <2>4. TaskInv(e)
    BY <1>f, <2>2, <2>3 DEF ClientInv, TaskInv, Left
  <2>5. StateInv(e)
    BY <1>f, <2>2, <2>3 DEF ClientInv, StateInv, Watched, Current
  <2>6. WaitInv(e)
    <3>1. ASSUME NEW u \in Task, u # t
          PROVE  WaitsWell(e, u)
      BY <1>f, <2>3, <3>1 DEF ClientInv, WaitInv, WaitsWell, Pending, PageStopped, Watched
    <3>2. WaitsWell(e, t)
      BY <1>f DEF ClientInv, WaitInv, WaitsWell
    <3>3. QED
      BY <3>1, <3>2 DEF WaitInv
  <2>7. TimerInv(e) /\ Follows(c, e) /\ e.hub.tasks >= c.hub.tasks /\ ~Stuck(e)
    BY <1>4, <1>f, MaxTasksAssumption, Fields DEF ClientInv, TimerInv, Follows, HubType, Stuck
  <2>8. QED
    BY <2>1, <2>4, <2>5, <2>6, <2>7 DEF Good, ClientInv
<1>5. QED
  <2>1. c.task[t].kind # "none"
    BY <1>0 DEF ClientInv, TaskInv, NewTask, Alive
  <2>2. QED
    BY <1>1, <1>2, <1>3, <1>4, <1>k, <2>1

-----------------------------------------------------------------------------
(* Starting and stopping.                                                  *)

Quiet(c) == \A t \in Task : ~Ready(c, t)

\* Beside a task that waits, other than for the connection to open, none is alive.
LEMMA Alone ==
  ASSUME NEW c \in ClientType, ClientInv(c), NEW t \in Task, Alive(c, t),
         c.task[t].pc \notin {"opening", "failing"} \/ Quiet(c)
  PROVE  OnlyAlive(c, t)
<1>1. CASE Left(c, t)
  <2>2. Quiet(c) => ~Left(c, t)
    BY DEF ClientInv, TaskInv, Quiet, Ready
  <2>3. \A u \in Task : ~Current(c, u)
    <3>1. c.task[t].pc = "failing" => Quiet(c)
      OBVIOUS
    <3>2. c.task[t].pc # "failing" => c.hub.state = "Disconnected"
      BY <1>1 DEF ClientInv, TaskInv
    <3>3. c.hub.state = "Disconnected"
      BY <1>1, <2>2, <3>1, <3>2
    <3>4. QED
      BY <3>3 DEF ClientInv, StateInv
  <2>4. QED
    BY <1>1, <2>3 DEF OnlyAlive, Current, ClientInv, TaskInv
<1>2. CASE Current(c, t)
  <2>1. \A u \in Task : ~Left(c, u)
    <3>1. ASSUME NEW u \in Task, Left(c, u)
          PROVE  FALSE
      <4>1. Ready(c, u) /\ c.task[t].pc = "opening"
        BY <1>2, <3>1 DEF ClientInv, TaskInv, Ready
      <4>2. QED
        BY <4>1 DEF Quiet
    <3>2. QED
      BY <3>1
  <2>2. QED
    BY <1>2, <2>1 DEF OnlyAlive, Current, ClientInv, TaskInv
<1>3. QED
  BY <1>1, <1>2 DEF Current

LEMMA QuietFacts ==
  ASSUME NEW c \in ClientType, ClientInv(c), Quiet(c)
  PROVE  /\ \A t \in Task : ~Left(c, t)
         /\ c.hub.state = "Disconnected" => \A t \in Task : ~Alive(c, t)
         /\ c.hub.state \in {"Connecting", "Connected", "Reconnecting"} /\ c.hub.delayed = NoTask
              => c.link.state # "off"
<1>1. \A t \in Task : ~Left(c, t)
  BY DEF ClientInv, TaskInv, Quiet, Ready
<1>2. c.hub.state = "Disconnected" => \A t \in Task : ~Alive(c, t)
  BY <1>1 DEF ClientInv, StateInv, Current
<1>3. ASSUME c.hub.state \in {"Connecting", "Reconnecting"}, c.hub.delayed = NoTask
      PROVE  c.link.state # "off"
  <2>1. PICK t \in Task : Current(c, t)
    BY <1>3 DEF ClientInv, StateInv
  <2>2. c.task[t].pc \in PC
    BY Fields DEF TaskType
  <2>3. c.task[t].pc \in Waiting /\ c.task[t].pc # "delay"
    BY <1>3, <2>1, <2>2, Numbers
    DEF PC, Waiting, Ended, Current, Alive, Quiet, Ready, ClientInv, WaitInv, WaitsWell
  <2>4. c.task[t].pc = "awaiting" => Pending(c, t)
    BY DEF Quiet, Ready
  <2>5. QED
    BY <2>3, <2>4 DEF Waiting, ClientInv, WaitInv, WaitsWell
<1>4. c.hub.state = "Connected" => c.link.state # "off"
  BY DEF ClientInv, StateInv
<1>5. QED
  BY <1>1, <1>2, <1>3, <1>4

LEMMA StartGood ==
  ASSUME NEW c \in ClientType, ClientInv(c), Quiet(c),
         c.hub.state = "Disconnected" => HasTask(c)
  PROVE  Good(c, StartCall(c))
<1>1. CASE c.hub.state = "Disconnected"
  <2>1. PICK d \in ClientType : d = StartCall(c)
    BY <1>1, QuietFacts, StartCallKeeps
  <2>2. /\ ClientInv(d) /\ d.hub.state = "Connecting" /\ d.hub.tasks = c.hub.tasks + 1
        /\ d.hub.started = c.hub.started /\ d.hub.closes = c.hub.closes
    BY <1>1, <2>1, QuietFacts, StartCallKeeps
  <2>3. d.hub.tasks > c.hub.tasks /\ d.hub.tasks >= c.hub.tasks
    BY <2>2, MaxTasksAssumption, Fields DEF HubType
  <2>4. QED
    BY <1>1, <2>1, <2>2, <2>3 DEF Good, Follows, Stuck
<1>2. CASE c.hub.state # "Disconnected"
  <2>1. PICK d \in ClientType : d = StartCall(c) /\ d.hub = [c.hub EXCEPT !.startPromise = NoTask]
                                /\ d.task = c.task /\ d.link = c.link
    <3>1. StartCall(c) = [c EXCEPT !.hub.startPromise = NoTask]
      BY <1>2 DEF StartCall
    <3>2. [c.hub EXCEPT !.startPromise = NoTask] \in HubType
      BY MaxTasksAssumption, Fields DEF HubType, NoTask
    <3>3. QED
      BY <3>1, <3>2 DEF ClientType
  <2>2. /\ d.hub.state = c.hub.state /\ d.hub.started = c.hub.started
        /\ d.hub.closes = c.hub.closes /\ d.hub.tasks = c.hub.tasks
        /\ d.hub.delayed = c.hub.delayed /\ d.hub.resolver = c.hub.resolver
        /\ d.hub.stopError = c.hub.stopError /\ d.hub.answered = c.hub.answered
        /\ d.hub.stopPending = c.hub.stopPending
        /\ d.hub.timeout = c.hub.timeout /\ d.hub.ping = c.hub.ping
    BY <2>1, Fields DEF HubType
  <2>3. ClientInv(d)
    BY <2>1, <2>2 DEF ClientInv, TaskInv, StateInv, WaitInv, WaitsWell, TimerInv, Left, Current,
       Alive, Ready, Pending, Watched, PageStopped
  <2>4. Stuck(d) => Stuck(c)
    BY <2>1, <2>2 DEF Stuck, Ready, Pending
  <2>5. QED
    BY <2>1, <2>2, <2>3, <2>4, MaxTasksAssumption, Fields DEF Good, Follows, HubType
<1>3. QED
  BY <1>1, <1>2

\* stop() that does not overtake a retry.
LEMMA StopInternalFacts ==
  ASSUME NEW c \in ClientType, c.hub.delayed = NoTask,
         c.hub.state \in {"Connecting", "Connected", "Reconnecting"}
  PROVE  LET d == StopInternal(c) IN
         /\ d \in ClientType /\ d.task = c.task
         /\ d.hub = [c.hub EXCEPT !.state = "Disconnecting", !.timeout = FALSE, !.ping = "none",
                                  !.stopError = TRUE, !.stopPending = c.link.state # "off"]
         /\ d.link = IF c.link.state = "off" THEN c.link ELSE [c.link EXCEPT !.stopping = TRUE]
<1> DEFINE leaving == [c EXCEPT !.hub.state = "Disconnecting"]
<1>1. leaving \in ClientType /\ leaving.hub = [c.hub EXCEPT !.state = "Disconnecting"]
      /\ leaving.task = c.task /\ leaving.link = c.link
  <2>1. [c.hub EXCEPT !.state = "Disconnecting"] \in HubType
    BY Fields DEF HubType, HubConnectionState
  <2>2. QED
    BY <2>1 DEF ClientType
<1>2. StopInternal(c) = StopLink([Cleanup(leaving) EXCEPT !.hub.stopError = TRUE,
                                    !.hub.stopPending = c.link.state # "off"])
  BY DEF StopInternal
<1> HIDE DEF leaving
<1>3. PICK g \in ClientType : g = Cleanup(leaving)
  BY <1>1, CleanupFacts
<1>4. g.hub = [leaving.hub EXCEPT !.timeout = FALSE, !.ping = "none"]
      /\ g.task = c.task /\ g.link = c.link
  BY <1>1, <1>3, CleanupFacts
<1>5. PICK pending \in BOOLEAN : pending = (c.link.state # "off")
  OBVIOUS
<1> DEFINE e == [g EXCEPT !.hub.stopError = TRUE, !.hub.stopPending = pending]
<1>6. e \in ClientType /\ e.hub = [g.hub EXCEPT !.stopError = TRUE, !.stopPending = pending]
      /\ e.task = c.task /\ e.link = c.link
  <2>1. [g.hub EXCEPT !.stopError = TRUE, !.stopPending = pending] \in HubType
    BY Fields DEF HubType
  <2>2. QED
    BY <1>4, <2>1 DEF ClientType
<1>7. StopInternal(c) = StopLink(e)
  BY <1>2, <1>3, <1>5
<1> HIDE DEF e
<1>8. PICK d \in ClientType : d = StopInternal(c)
  BY <1>6, <1>7, StopLinkFacts
<1>9. d.hub = e.hub /\ d.task = c.task
      /\ d.link = IF c.link.state = "off" THEN c.link ELSE [c.link EXCEPT !.stopping = TRUE]
  BY <1>6, <1>7, <1>8, StopLinkFacts
<1>10. d.hub = [c.hub EXCEPT !.state = "Disconnecting", !.timeout = FALSE, !.ping = "none",
                             !.stopError = TRUE, !.stopPending = pending]
  BY <1>1, <1>4, <1>6, <1>9, Fields DEF HubType
<1>11. QED
  BY <1>5, <1>8, <1>9, <1>10

\* stop() that overtakes a retry.
LEMMA OvertakesFacts ==
  ASSUME NEW c \in ClientType, NEW t \in Task, t = c.hub.delayed,
         c.hub.state \notin {"Disconnected", "Disconnecting"}
  PROVE  \E e \in ClientType :
           /\ StopInternal(c) = CompleteClose(e) /\ e.link = c.link
           /\ e.hub = [c.hub EXCEPT !.state = "Disconnecting", !.delayed = NoTask,
                                    !.stopPending = FALSE]
           /\ e.task = [c.task EXCEPT ![t] = [c.task[t] EXCEPT !.pc = "gone"]]
<1> DEFINE leaving == [c EXCEPT !.hub.state = "Disconnecting"]
           e == [Goto(leaving, t, "gone") EXCEPT !.hub.delayed = NoTask, !.hub.stopPending = FALSE]
<1>1. leaving \in ClientType /\ leaving.hub = [c.hub EXCEPT !.state = "Disconnecting"]
      /\ leaving.task = c.task /\ leaving.link = c.link
  <2>1. [c.hub EXCEPT !.state = "Disconnecting"] \in HubType
    BY Fields DEF HubType, HubConnectionState
  <2>2. QED
    BY <2>1 DEF ClientType
<1>2. StopInternal(c) = CompleteClose(e)
  BY Numbers DEF StopInternal
<1> HIDE DEF leaving
<1>3. PICK g \in ClientType : g = Goto(leaving, t, "gone")
  BY <1>1, GotoFacts DEF PC, Ended
<1>4. g.hub = leaving.hub /\ g.link = c.link
      /\ g.task = [c.task EXCEPT ![t] = [c.task[t] EXCEPT !.pc = "gone"]]
  <2>1. leaving \in ClientType /\ "gone" \in PC
    BY <1>1 DEF PC, Ended
  <2>2. /\ g.hub = leaving.hub /\ g.link = leaving.link
        /\ g.task = [leaving.task EXCEPT ![t] = [leaving.task[t] EXCEPT !.pc = "gone"]]
    BY <1>3, <2>1, GotoFacts
  <2>3. QED
    BY <1>1, <2>2
<1>5. e \in ClientType /\ e.hub = [g.hub EXCEPT !.delayed = NoTask, !.stopPending = FALSE]
      /\ e.task = g.task /\ e.link = g.link
  <2>1. [g.hub EXCEPT !.delayed = NoTask, !.stopPending = FALSE] \in HubType
    <3>1. g.hub \in HubType /\ NoTask \in 0 .. MaxTasks
      BY MaxTasksAssumption, Fields DEF NoTask
    <3>2. QED
      BY <3>1 DEF HubType
  <2>2. e.hub = [g.hub EXCEPT !.delayed = NoTask, !.stopPending = FALSE]
        /\ e.task = g.task /\ e.link = g.link
    BY <1>3 DEF ClientType
  <2>3. e \in ClientType
    BY <1>3, <2>1, <2>2 DEF ClientType
  <2>4. QED
    BY <2>2, <2>3
<1> HIDE DEF e
<1>6. e.hub = [c.hub EXCEPT !.state = "Disconnecting", !.delayed = NoTask, !.stopPending = FALSE]
  BY <1>1, <1>4, <1>5, Fields DEF HubType
<1>7. QED
  BY <1>2, <1>4, <1>5, <1>6

LEMMA StopInternalGood ==
  ASSUME NEW c \in ClientType, ClientInv(c), \A t \in Task : ~Left(c, t),
         \A t \in Task : c.task[t].pc \notin {"pinging", "failing"},
         RestartsInside => \A t \in Task :
           c.task[t].pc \in {"opening", "requesting", "awaiting"} => ~Pending(c, t),
         c.hub.delayed = NoTask /\ c.hub.state \in {"Connecting", "Connected", "Reconnecting"}
           => c.link.state # "off"
  PROVE  Good(c, StopInternal(c))
<1>0. c.hub.state \in HubConnectionState /\ c.hub.tasks \in Nat
  BY MaxTasksAssumption, Fields DEF HubType
<1>1. CASE c.hub.state \in {"Disconnected", "Disconnecting"}
  BY <1>0, <1>1 DEF StopInternal, Good, Follows
<1>2. CASE c.hub.state \notin {"Disconnected", "Disconnecting"} /\ c.hub.delayed # NoTask
  <2>1. PICK t \in Task : t = c.hub.delayed
    BY <1>2, MaxTasksAssumption, Fields DEF HubType, Task, NoTask
  <2>2. c.task[t].pc = "delay" /\ c.hub.state = "Reconnecting" /\ c.link.state = "off"
    BY <2>1 DEF ClientInv, WaitInv, WaitsWell
  <2>3. Current(c, t) /\ c.hub.started /\ ~c.hub.timeout /\ c.hub.ping = "none"
    BY <2>2 DEF Current, Left, Alive, Ended, ClientInv, StateInv, TimerInv
  <2>4. PICK e \in ClientType :
          /\ StopInternal(c) = CompleteClose(e) /\ e.link = c.link
          /\ e.hub = [c.hub EXCEPT !.state = "Disconnecting", !.delayed = NoTask,
                                   !.stopPending = FALSE]
          /\ e.task = [c.task EXCEPT ![t] = [c.task[t] EXCEPT !.pc = "gone"]]
    BY <1>2, <2>1, OvertakesFacts
  <2>9. /\ e.hub.started /\ e.hub.delayed = NoTask /\ ~e.hub.timeout /\ e.hub.ping = "none"
        /\ e.hub.closes = c.hub.closes /\ e.hub.tasks = c.hub.tasks /\ e.link.state = "off"
    BY <2>2, <2>3, <2>4, Fields DEF HubType
  <2>10. e.task[t].pc = "gone" /\ e.task[t].kind = c.task[t].kind
         /\ \A u \in Task : u # t => e.task[u] = c.task[u]
    BY <2>4, Fields DEF TaskType
  <2>11. \A u \in Task : ~Alive(e, u)
    BY <2>3, <2>10 DEF ClientInv, TaskInv, Current, Alive, Ended
  <2>12. Closable(e)
    <3>1. c.task[t] # NewTask
      BY <2>2 DEF NewTask
    <3>2. QED
      BY <2>9, <2>10, <2>11, <3>1 DEF Closable, ClientInv, TaskInv
  <2>13. Good(c, CompleteClose(e))
    BY <2>3, <2>9, <2>12, CloseGood
  <2>14. QED
    BY <2>4, <2>13
<1>3. CASE c.hub.state \notin {"Disconnected", "Disconnecting"} /\ c.hub.delayed = NoTask
  <2>0. c.hub.state \in {"Connecting", "Connected", "Reconnecting"} /\ c.link.state # "off"
    BY <1>0, <1>3 DEF HubConnectionState
  <2>1. PICK d \in ClientType : d = StopInternal(c)
    BY <1>3, <2>0, StopInternalFacts
  <2>2. d.hub = [c.hub EXCEPT !.state = "Disconnecting", !.timeout = FALSE, !.ping = "none",
                              !.stopError = TRUE, !.stopPending = c.link.state # "off"]
    BY <1>3, <2>0, <2>1, StopInternalFacts
  <2>8. d.task = c.task /\ d.link = [c.link EXCEPT !.stopping = TRUE]
    BY <1>3, <2>0, <2>1, StopInternalFacts
  <2>9. /\ d.hub.state = "Disconnecting" /\ d.hub.started = c.hub.started
        /\ d.hub.closes = c.hub.closes /\ d.hub.tasks = c.hub.tasks
        /\ d.hub.delayed = c.hub.delayed /\ d.hub.resolver = c.hub.resolver
        /\ d.hub.stopError /\ d.hub.answered = c.hub.answered /\ d.hub.stopPending
        /\ ~d.hub.timeout /\ d.hub.ping = "none"
    <3>1. c.hub \in HubType /\ c.link.state # "off"
      BY <2>0, Fields
    <3>2. /\ d.hub.state = "Disconnecting" /\ d.hub.started = c.hub.started
          /\ d.hub.closes = c.hub.closes /\ d.hub.tasks = c.hub.tasks
          /\ d.hub.delayed = c.hub.delayed /\ d.hub.resolver = c.hub.resolver
      BY <2>2, <3>1 DEF HubType
    <3>3. /\ d.hub.stopError /\ d.hub.answered = c.hub.answered /\ d.hub.stopPending
          /\ ~d.hub.timeout /\ d.hub.ping = "none"
      BY <2>2, <3>1 DEF HubType
    <3>4. QED
      BY <3>2, <3>3
  <2>10. d.link.state = c.link.state /\ d.link.stopping
    BY <2>8, Fields DEF LinkType
  <2>11. \A t \in Task : ~Left(d, t) /\ (Current(d, t) <=> Current(c, t))
                         /\ (Alive(d, t) <=> Alive(c, t))
    BY <2>8, <2>9 DEF Left, Current, Alive
  <2>12. TaskInv(d)
    BY <2>8, <2>9, <2>11 DEF ClientInv, TaskInv
  <2>13. StateInv(d)
    BY <2>0, <2>8, <2>9, <2>10, <2>11 DEF ClientInv, StateInv
  <2>14. WaitInv(d)
    BY <2>0, <2>8, <2>9, <2>10, <2>11, <1>3, Numbers
    DEF ClientInv, WaitInv, WaitsWell, Pending, PageStopped
  <2>15. TimerInv(d) /\ ~Stuck(d)
    BY <2>0, <2>9, <2>10 DEF TimerInv, Stuck
  <2>16. Follows(c, d) /\ d.hub.tasks >= c.hub.tasks
    BY <1>0, <2>0, <2>9 DEF Follows
  <2>17. QED
    BY <2>1, <2>12, <2>13, <2>14, <2>15, <2>16 DEF Good, ClientInv
<1>4. QED
  BY <1>1, <1>2, <1>3

-----------------------------------------------------------------------------
(* The handshake.                                                          *)

LEMMA ResetsFacts ==
  ASSUME NEW e \in ClientType
  PROVE  LET d == ResetKeepAliveInterval(ResetTimeoutPeriod(e))
             inherent == e.link.inherentKeepAlive IN
         /\ d \in ClientType /\ d.task = e.task /\ d.link = e.link
         /\ d.hub = [e.hub EXCEPT !.timeout = IF inherent THEN e.hub.timeout ELSE TRUE,
                                  !.ping = IF inherent THEN e.hub.ping ELSE "none"]
<1>1. PICK r \in ClientType : r = ResetTimeoutPeriod(e)
  BY ResetTimeoutFacts
<1>2. /\ r.task = e.task /\ r.link = e.link
      /\ r.hub = IF e.link.inherentKeepAlive THEN e.hub
                 ELSE [e.hub EXCEPT !.timeout = TRUE,
                                    !.ping = IF e.hub.ping = "none" THEN "set" ELSE e.hub.ping]
  BY <1>1, ResetTimeoutFacts
<1>3. PICK d \in ClientType : d = ResetKeepAliveInterval(r)
  BY KeepAliveFacts
<1>4. /\ d.task = r.task /\ d.link = r.link
      /\ d.hub = IF r.link.inherentKeepAlive THEN r.hub ELSE [r.hub EXCEPT !.ping = "none"]
  BY <1>3, KeepAliveFacts
<1>5. CASE e.link.inherentKeepAlive
  BY <1>1, <1>2, <1>3, <1>4, <1>5, Fields DEF HubType
<1>6. CASE ~e.link.inherentKeepAlive
  <2>1. r.hub = [e.hub EXCEPT !.timeout = TRUE,
                              !.ping = IF e.hub.ping = "none" THEN "set" ELSE e.hub.ping]
    BY <1>2, <1>6
  <2>2. d.hub = [r.hub EXCEPT !.ping = "none"]
    BY <1>2, <1>4, <1>6
  <2>3. d.hub = [e.hub EXCEPT !.timeout = TRUE, !.ping = "none"]
    BY <2>1, <2>2, Fields DEF HubType
  <2>4. QED
    BY <1>1, <1>2, <1>3, <1>4, <1>6, <2>3
<1>7. QED
  BY <1>5, <1>6

\* The task ends, and the hub is connected.
LEMMA SucceedsGood ==
  ASSUME NEW c \in ClientType, ClientInv(c), NEW t \in Task, Current(c, t), OnlyAlive(c, t),
         c.task[t].pc # "delay", c.hub.state \in {"Connecting", "Reconnecting"},
         NEW e \in ClientType, NEW ping \in {"none", "set", "fired"},
         e.hub = [c.hub EXCEPT !.ping = ping], e.task = c.task, e.link = c.link,
         c.link.state = "up", Watched(e)
  PROVE  Good(c, Succeeds(e, t))
<1> DEFINE f == [e EXCEPT !.hub.state = "Connected",
                          !.hub.started = @ \/ e.task[t].kind = "start"]
<1>1. e.hub.started \/ e.task[t].kind = "start"
  <2>1. e.hub.started = c.hub.started
    BY Fields DEF HubType
  <2>2. QED
    BY <2>1 DEF ClientInv, StateInv
<1>2. f.hub = [e.hub EXCEPT !.state = "Connected", !.started = TRUE]
      /\ f.task = e.task /\ f.link = e.link
  <2>1. (e.hub.started \/ e.task[t].kind = "start") = TRUE
    BY <1>1
  <2>2. QED
    BY <2>1 DEF ClientType
<1>3. f \in ClientType
  <2>1. [e.hub EXCEPT !.state = "Connected", !.started = TRUE] \in HubType
    BY Fields DEF HubType, HubConnectionState
  <2>2. QED
    BY <1>2, <2>1 DEF ClientType
<1>4. Succeeds(e, t) = Goto(f, t, "done")
  BY DEF Succeeds
<1> HIDE DEF f
<1>5. PICK d \in ClientType : d = Succeeds(e, t)
  BY <1>3, <1>4, GotoFacts DEF PC, Ended
<1>6. /\ d.hub = f.hub /\ d.link = c.link
      /\ d.task = [c.task EXCEPT ![t] = [c.task[t] EXCEPT !.pc = "done"]]
  BY <1>2, <1>3, <1>4, <1>5, GotoFacts DEF PC, Ended
<1>7. /\ d.hub.state = "Connected" /\ d.hub.started
      /\ d.hub.closes = c.hub.closes /\ d.hub.tasks = c.hub.tasks
      /\ d.hub.delayed = c.hub.delayed
      /\ d.hub.timeout = e.hub.timeout /\ d.hub.ping = e.hub.ping
  BY <1>2, <1>6, Fields DEF HubType
<1>8. /\ d.task[t].pc = "done" /\ d.task[t].kind = c.task[t].kind
      /\ \A u \in Task : u # t => d.task[u] = c.task[u]
  BY <1>6, Fields DEF TaskType
<1>9. \A u \in Task : ~Alive(d, u)
  BY <1>8 DEF OnlyAlive, Alive, Ended
<1>10. TaskInv(d)
  <2>1. c.task[t] # NewTask
    BY DEF Current, Alive, NewTask
  <2>2. QED
    BY <1>7, <1>8, <1>9, <2>1 DEF ClientInv, TaskInv, Left, Current
<1>11. StateInv(d)
  BY <1>6, <1>7, <1>9 DEF StateInv, Current, Watched
<1>12. WaitInv(d)
  <2>1. ASSUME NEW u \in Task
        PROVE  WaitsWell(d, u)
    <3>1. d.task[u].pc \notin Waiting \cup {"failing"}
      BY <1>9 DEF Alive, Ended, Waiting
    <3>2. c.hub.delayed # u
      BY DEF OnlyAlive, Alive, Ended, ClientInv, WaitInv, WaitsWell
    <3>3. QED
      BY <1>7, <3>1, <3>2 DEF WaitsWell, Waiting
  <2>2. QED
    BY <2>1 DEF WaitInv
<1>13. TimerInv(d) /\ ~Stuck(d)
  BY <1>6 DEF TimerInv, Stuck
<1>14. Follows(c, d)
  <2>1. CASE c.hub.state = "Connecting"
    <3>1. ~c.hub.started
      BY <2>1 DEF ClientInv, StateInv
    <3>2. QED
      BY <1>7, <2>1, <3>1, Zenon DEF Follows
  <2>2. CASE c.hub.state = "Reconnecting"
    <3>1. c.hub.started = d.hub.started
      BY <1>7, <2>2, Fields DEF ClientInv, StateInv, HubType
    <3>2. QED
      BY <1>7, <2>2, <3>1 DEF Follows
  <2>3. QED
    BY <2>1, <2>2
<1>15. d.hub.tasks >= c.hub.tasks
  BY <1>7, MaxTasksAssumption, Fields DEF HubType
<1>16. QED
  BY <1>5, <1>10, <1>11, <1>12, <1>13, <1>14, <1>15 DEF Good, ClientInv

LEMMA PingedGood ==
  ASSUME NEW c \in ClientType, ClientInv(c), NEW t \in Task, c.task[t].pc = "pinging"
  PROVE  Good(c, Succeeds(c, t)) /\ Good(c, CatchStart(c, t))
<1>1. Alive(c, t) /\ OnlyAlive(c, t)
  BY Alone DEF Alive, Ended
<1>2. Current(c, t)
  BY <1>1 DEF Current, ClientInv, TaskInv, Ready
<1>3. c.link.state = "up" /\ Watched(c) /\ c.hub.state # "Disconnecting"
  BY DEF ClientInv, WaitInv, WaitsWell
<1>4. c.hub.state \in {"Connecting", "Reconnecting"}
  BY <1>2, <1>3 DEF ClientInv, StateInv
<1>5. c.hub = [c.hub EXCEPT !.ping = c.hub.ping] /\ c.hub.ping \in {"none", "set", "fired"}
  BY Fields DEF HubType
<1>6. Good(c, Succeeds(c, t))
  BY <1>1, <1>2, <1>3, <1>4, <1>5, SucceedsGood
<1>7. Good(c, CatchStart(c, t))
  BY <1>1, <1>5, CatchStartGood
<1>8. QED
  BY <1>6, <1>7

LEMMA AfterHandshakeGood ==
  ASSUME NEW c \in ClientType, ClientInv(c), NEW t \in Task,
         c.task[t].pc = "awaiting", ~Pending(c, t)
  PROVE  LET sending == ResetKeepAliveInterval(c) IN
         /\ Good(c, CatchStart(c, t)) /\ Good(c, CatchStart(sending, t))
         /\ ~c.hub.stopError =>
              /\ c.link.inherentKeepAlive => Good(c, Succeeds(c, t))
              /\ ~c.link.inherentKeepAlive /\ MaySend(c) =>
                   Good(c, Succeeds(sending, t)) /\ Good(c, Goto(sending, t, "pinging"))
<1>1. Alive(c, t) /\ OnlyAlive(c, t)
  BY Alone DEF Alive, Ended
<1>2. c.hub = [c.hub EXCEPT !.ping = c.hub.ping] /\ c.hub.ping \in {"none", "set", "fired"}
  BY Fields DEF HubType
<1>3. PICK e \in ClientType : e = ResetKeepAliveInterval(c)
  BY KeepAliveFacts
<1>4. PICK ping \in {"none", "set", "fired"} :
        /\ e.hub = [c.hub EXCEPT !.ping = ping] /\ e.task = c.task /\ e.link = c.link
        /\ ~c.link.inherentKeepAlive => ping = "none"
  <2>1. e.task = c.task /\ e.link = c.link
        /\ e.hub = IF c.link.inherentKeepAlive THEN c.hub ELSE [c.hub EXCEPT !.ping = "none"]
    BY <1>3, KeepAliveFacts
  <2>2. QED
    BY <1>2, <2>1
<1>5. Good(c, CatchStart(c, t)) /\ Good(c, CatchStart(e, t))
  <2>1. Good(c, CatchStart(c, t))
    BY <1>1, <1>2, CatchStartGood
  <2>2. Good(c, CatchStart(e, t))
    BY <1>1, <1>4, CatchStartGood
  <2>3. QED
    BY <2>1, <2>2
<1>6. ASSUME ~c.hub.stopError
      PROVE  c.link.state = "up" /\ Current(c, t) /\ c.hub.state \in {"Connecting", "Reconnecting"}
  <2>1. c.link.state = "up" /\ c.hub.state # "Disconnecting"
    BY <1>6 DEF ClientInv, WaitInv, WaitsWell
  <2>2. Current(c, t)
    BY <1>1, <2>1 DEF Current, ClientInv, TaskInv, StateInv
  <2>3. QED
    BY <2>1, <2>2 DEF ClientInv, StateInv
<1>7. ASSUME ~c.hub.stopError, c.link.inherentKeepAlive
      PROVE  Good(c, Succeeds(c, t))
  BY <1>1, <1>2, <1>6, <1>7, SucceedsGood DEF Watched
<1>8. ASSUME ~c.hub.stopError, ~c.link.inherentKeepAlive, MaySend(c)
      PROVE  Good(c, Succeeds(e, t)) /\ Good(c, Goto(e, t, "pinging"))
  <2>1. Watched(e)
    <3>1. c.hub.timeout
      BY <1>8 DEF ClientInv, WaitInv, WaitsWell, MaySend
    <3>2. e.hub.timeout /\ e.hub.ping = "none"
      BY <1>4, <1>8, <3>1, Fields DEF HubType
    <3>3. QED
      BY <3>2 DEF Watched
  <2>2. Good(c, Succeeds(e, t))
    BY <1>1, <1>4, <1>6, <1>8, <2>1, SucceedsGood
  <2>3. PICK d \in ClientType : d = Goto(e, t, "pinging")
    BY GotoFacts DEF PC, Waiting
  <2>4. d.hub = e.hub /\ d.link = c.link
        /\ d.task = [c.task EXCEPT ![t] = [c.task[t] EXCEPT !.pc = "pinging"]]
    BY <1>4, <2>3, GotoFacts DEF PC, Waiting
  <2>5. /\ d.task[t].pc = "pinging" /\ d.hub.delayed = c.hub.delayed
        /\ d.hub.state = c.hub.state /\ Watched(d)
    <3>1. d.task[t].pc = "pinging"
      BY <2>4, Fields DEF TaskType
    <3>2. d.hub.delayed = c.hub.delayed /\ d.hub.state = c.hub.state
      BY <1>4, <2>4, Fields DEF HubType
    <3>3. QED
      BY <1>4, <2>1, <2>4, <3>1, <3>2 DEF Watched
  <2>6. WaitsWell(d, t) /\ TimerInv(d)
    BY <1>6, <1>8, <2>4, <2>5 DEF ClientInv, WaitInv, WaitsWell, TimerInv
  <2>7. d.hub = [c.hub EXCEPT !.timeout = c.hub.timeout, !.ping = ping]
        /\ c.hub.timeout \in BOOLEAN
    BY <1>4, <2>4, Fields DEF HubType
  <2>8. Good(c, d)
    <3>1. c.task[t].pc # "delay" /\ ~Left(c, t) /\ d.link.state = "up" /\ c.link.state = "up"
      BY <1>6, <1>8, <2>4 DEF Current
    <3>2. QED
      BY <1>1, <2>4, <2>6, <2>7, <3>1, MovesOnGood
  <2>9. QED
    BY <2>2, <2>3, <2>8
<1>9. QED
  BY <1>3, <1>5, <1>7, <1>8

-----------------------------------------------------------------------------
(* Opening the connection, and the retry that does.                        *)

\* The handshake request is sent, and its response awaited.
LEMMA AwaitsGood ==
  ASSUME NEW c \in ClientType, ClientInv(c), NEW t \in Task, OnlyAlive(c, t),
         c.task[t].pc \in {"opening", "requesting"},
         NEW e \in ClientType, NEW timeout \in BOOLEAN, NEW ping \in {"none", "set", "fired"},
         e.hub = [c.hub EXCEPT !.timeout = timeout, !.ping = ping], e.task = c.task,
         e.link.state = "up", e.link.inherentKeepAlive \/ timeout
  PROVE  Good(c, Goto(e, t, "awaiting"))
<1>1. PICK d \in ClientType : d = Goto(e, t, "awaiting")
  BY GotoFacts DEF PC, Waiting
<1>2. d.hub = e.hub /\ d.link = e.link
      /\ d.task = [c.task EXCEPT ![t] = [c.task[t] EXCEPT !.pc = "awaiting"]]
  BY <1>1, GotoFacts DEF PC, Waiting
<1>3. /\ d.hub.delayed = c.hub.delayed /\ d.hub.state = c.hub.state
      /\ d.hub.resolver = c.hub.resolver /\ d.hub.answered = c.hub.answered
      /\ d.hub.stopError = c.hub.stopError /\ d.hub.timeout = timeout
  BY <1>2, Fields DEF HubType
<1>4. d.task[t].pc = "awaiting" /\ d.task[t].handshake = c.task[t].handshake
  BY <1>2, Fields DEF TaskType
<1>5. c.link.state # "off"
  BY DEF ClientInv, WaitInv, WaitsWell
<1>6. WaitsWell(d, t) /\ TimerInv(d)
  BY <1>2, <1>3, <1>4 DEF ClientInv, WaitInv, WaitsWell, TimerInv, Pending, PageStopped
<1>7. Alive(c, t) /\ c.task[t].pc # "delay" /\ d.link.state = "up"
  BY <1>2 DEF Alive, Ended
<1>8. ~Left(c, t)
  BY DEF ClientInv, TaskInv, Ready
<1>9. QED
  BY <1>1, <1>2, <1>5, <1>6, <1>7, <1>8, MovesOnGood

LEMMA OpensGood ==
  ASSUME NEW c \in ClientType, ClientInv(c), Quiet(c), NEW t \in Task, c.task[t].pc = "opening",
         NEW transport \in Transport
  PROVE  LET up == [c EXCEPT !.link.state = "up", !.link.transport = transport,
                             !.link.inherentKeepAlive = @ \/ transport = "LongPolling"]
             sent == ResetKeepAliveInterval(up)
         IN /\ Good(c, Goto(ResetKeepAliveInterval(ResetTimeoutPeriod(sent)), t, "awaiting"))
            /\ Good(c, CatchStart(sent, t))
            /\ Good(c, Goto(sent, t, "requesting"))
<1> DEFINE up == [c EXCEPT !.link.state = "up", !.link.transport = transport,
                           !.link.inherentKeepAlive = @ \/ transport = "LongPolling"]
<1>1. up \in ClientType /\ up.hub = c.hub /\ up.task = c.task /\ up.link.state = "up"
  <2> DEFINE l == [c.link EXCEPT !.state = "up", !.transport = transport,
                     !.inherentKeepAlive = c.link.inherentKeepAlive \/ transport = "LongPolling"]
  <2>1. l \in LinkType /\ l.state = "up"
    BY Fields DEF LinkType
  <2>2. up.hub = c.hub /\ up.task = c.task /\ up.link = l
    BY DEF ClientType
  <2>3. up \in ClientType
    BY <2>1, <2>2 DEF ClientType
  <2>4. QED
    BY <2>1, <2>2, <2>3
<1> HIDE DEF up
<1>2. PICK sent \in ClientType : sent = ResetKeepAliveInterval(up)
  BY <1>1, KeepAliveFacts
<1>3. sent.task = c.task /\ sent.link = up.link
      /\ sent.hub = IF up.link.inherentKeepAlive THEN c.hub ELSE [c.hub EXCEPT !.ping = "none"]
  BY <1>1, <1>2, KeepAliveFacts
<1>4. PICK ping \in {"none", "set", "fired"} : sent.hub = [c.hub EXCEPT !.ping = ping]
  <2>1. c.hub = [c.hub EXCEPT !.ping = c.hub.ping] /\ c.hub.ping \in {"none", "set", "fired"}
    BY Fields DEF HubType
  <2>2. QED
    BY <1>3, <2>1
<1>5. Alive(c, t) /\ OnlyAlive(c, t)
  BY Alone DEF Alive, Ended
<1>6. Good(c, Goto(ResetKeepAliveInterval(ResetTimeoutPeriod(sent)), t, "awaiting"))
  <2>1. PICK e \in ClientType : e = ResetKeepAliveInterval(ResetTimeoutPeriod(sent))
    BY ResetsFacts
  <2>2. /\ e.task = c.task /\ e.link = up.link
        /\ e.hub = [sent.hub EXCEPT
                      !.timeout = IF up.link.inherentKeepAlive THEN sent.hub.timeout ELSE TRUE,
                      !.ping = IF up.link.inherentKeepAlive THEN sent.hub.ping ELSE "none"]
    BY <1>3, <2>1, ResetsFacts
  <2>3. PICK timeout \in BOOLEAN, beat \in {"none", "set", "fired"} :
          /\ e.hub = [c.hub EXCEPT !.timeout = timeout, !.ping = beat]
          /\ up.link.inherentKeepAlive \/ timeout
    <3>1. sent.hub.timeout \in BOOLEAN /\ sent.hub.ping \in {"none", "set", "fired"}
      BY Fields DEF HubType
    <3>2. PICK timeout \in BOOLEAN, beat \in {"none", "set", "fired"} :
            /\ e.hub = [sent.hub EXCEPT !.timeout = timeout, !.ping = beat]
            /\ up.link.inherentKeepAlive \/ timeout
      BY <2>2, <3>1
    <3>3. e.hub = [c.hub EXCEPT !.timeout = timeout, !.ping = beat]
      BY <1>4, <3>2, Fields DEF HubType
    <3>4. QED
      BY <3>2, <3>3
  <2>4. e.link.state = "up" /\ e.link.inherentKeepAlive = up.link.inherentKeepAlive
    BY <1>1, <2>2
  <2>5. QED
    BY <1>5, <2>1, <2>2, <2>3, <2>4, AwaitsGood
<1>7. Good(c, CatchStart(sent, t))
  <2>1. ~Left(c, t) /\ sent.link.state = "up"
    BY <1>1, <1>3 DEF ClientInv, TaskInv, Ready
  <2>2. QED
    BY <1>3, <1>4, <1>5, <2>1, CatchStartGood
<1>8. Good(c, Goto(sent, t, "requesting"))
  <2>1. PICK d \in ClientType : d = Goto(sent, t, "requesting")
    BY GotoFacts DEF PC, Waiting
  <2>2. d.hub = sent.hub /\ d.link = up.link
        /\ d.task = [c.task EXCEPT ![t] = [c.task[t] EXCEPT !.pc = "requesting"]]
    <3>1. "requesting" \in PC
      BY DEF PC, Waiting
    <3>2. /\ d.hub = sent.hub /\ d.link = sent.link
          /\ d.task = [sent.task EXCEPT ![t] = [sent.task[t] EXCEPT !.pc = "requesting"]]
      BY <2>1, <3>1, GotoFacts
    <3>3. QED
      BY <1>3, <3>2
  <2>3. /\ d.hub.delayed = c.hub.delayed /\ d.hub.state = c.hub.state
        /\ d.hub.resolver = c.hub.resolver /\ d.hub.answered = c.hub.answered
        /\ d.hub.stopError = c.hub.stopError
    BY <1>4, <2>2, Fields DEF HubType
  <2>4. d.task[t].pc = "requesting" /\ d.task[t].handshake = c.task[t].handshake
    BY <2>2, Fields DEF TaskType
  <2>5. WaitsWell(d, t) /\ TimerInv(d)
    BY <1>1, <2>2, <2>3, <2>4
    DEF ClientInv, WaitInv, WaitsWell, TimerInv, Pending, PageStopped
  <2>6. ~Left(c, t) /\ c.link.state # "off" /\ d.link.state = "up" /\ c.task[t].pc # "delay"
    BY <1>1, <2>2 DEF ClientInv, TaskInv, Ready, WaitInv, WaitsWell
  <2>7. d.hub = [c.hub EXCEPT !.timeout = c.hub.timeout, !.ping = ping] /\ c.hub.timeout \in BOOLEAN
    BY <1>4, <2>2, Fields DEF HubType
  <2>8. QED
    BY <1>5, <2>1, <2>2, <2>5, <2>6, <2>7, MovesOnGood
<1>9. QED
  BY <1>2, <1>6, <1>7, <1>8 DEF up

LEMMA OpenFailsGood ==
  ASSUME NEW c \in ClientType, ClientInv(c), Quiet(c), NEW t \in Task, c.task[t].pc = "opening"
  PROVE  Good(c, Goto(LinkOff(c), t, "failing"))
<1>1. PICK l \in ClientType : l = LinkOff(c)
  BY LinkOffFacts
<1>2. /\ l.hub = [c.hub EXCEPT !.stopPending = FALSE]
      /\ l.link = [c.link EXCEPT !.state = "off", !.stopping = FALSE, !.transport = "none"]
      /\ l.task = [u \in Task |->
                     IF c.task[u].pc = "closing" THEN [c.task[u] EXCEPT !.pc = "failing"]
                     ELSE c.task[u]]
  BY <1>1, LinkOffFacts
<1>3. Alive(c, t) /\ OnlyAlive(c, t)
  BY Alone DEF Alive, Ended
<1>4. l.task = c.task
  <2>1. \A u \in Task : c.task[u].pc # "closing"
    BY <1>3 DEF OnlyAlive, Alive, Ended
  <2>2. QED
    BY <1>2, <2>1, Fields
<1>5. PICK d \in ClientType : d = Goto(l, t, "failing")
  BY GotoFacts DEF PC
<1>6. d.hub = l.hub /\ d.link = l.link
      /\ d.task = [c.task EXCEPT ![t] = [c.task[t] EXCEPT !.pc = "failing"]]
  BY <1>4, <1>5, GotoFacts DEF PC
<1>7. d.hub = [c.hub EXCEPT !.timeout = c.hub.timeout, !.ping = c.hub.ping, !.stopPending = FALSE]
      /\ c.hub.timeout \in BOOLEAN /\ c.hub.ping \in {"none", "set", "fired"}
  BY <1>2, <1>6, Fields DEF HubType
<1>8. /\ d.link.state = "off" /\ d.task[t].pc = "failing"
      /\ d.hub.delayed = c.hub.delayed /\ d.hub.timeout = c.hub.timeout /\ d.hub.ping = c.hub.ping
  <2>1. d.link.state = "off"
    BY <1>2, <1>6, Fields DEF LinkType
  <2>2. d.task[t].pc = "failing"
    BY <1>6, Fields DEF TaskType
  <2>3. QED
    BY <1>2, <1>6, <2>1, <2>2, Fields DEF HubType
<1>9. WaitsWell(d, t) /\ TimerInv(d)
  BY <1>8 DEF ClientInv, WaitInv, WaitsWell, TimerInv
<1>10. Ready(d, t) /\ c.task[t].pc # "delay" /\ d.link.state = "off"
  BY <1>8 DEF Ready
<1>11. Good(c, d)
  BY <1>3, <1>6, <1>7, <1>9, <1>10, MovesOnGood
<1>12. QED
  BY <1>1, <1>5, <1>11

LEMMA RequestedGood ==
  ASSUME NEW c \in ClientType, ClientInv(c), NEW t \in Task, c.task[t].pc = "requesting"
  PROVE  /\ Good(c, Goto(ResetKeepAliveInterval(ResetTimeoutPeriod(c)), t, "awaiting"))
         /\ Good(c, CatchStart(c, t))
<1>1. Alive(c, t) /\ OnlyAlive(c, t)
  BY Alone DEF Alive, Ended
<1>2. c.link.state = "up"
  BY DEF ClientInv, WaitInv, WaitsWell
<1>3. PICK e \in ClientType : e = ResetKeepAliveInterval(ResetTimeoutPeriod(c))
  BY ResetsFacts
<1>4. /\ e.task = c.task /\ e.link = c.link
      /\ e.hub = [c.hub EXCEPT
                    !.timeout = IF c.link.inherentKeepAlive THEN c.hub.timeout ELSE TRUE,
                    !.ping = IF c.link.inherentKeepAlive THEN c.hub.ping ELSE "none"]
  BY <1>3, ResetsFacts
<1>5. c.hub.timeout \in BOOLEAN /\ c.hub.ping \in {"none", "set", "fired"}
      /\ c.hub = [c.hub EXCEPT !.ping = c.hub.ping]
  BY Fields DEF HubType
<1>6. PICK timeout \in BOOLEAN, ping \in {"none", "set", "fired"} :
        /\ e.hub = [c.hub EXCEPT !.timeout = timeout, !.ping = ping]
        /\ c.link.inherentKeepAlive \/ timeout
  BY <1>4, <1>5
<1>7. Good(c, Goto(e, t, "awaiting"))
  BY <1>1, <1>2, <1>4, <1>6, AwaitsGood
<1>8. Good(c, CatchStart(c, t))
  BY <1>1, <1>5, CatchStartGood
<1>9. QED
  BY <1>3, <1>7, <1>8

\* The retry delay is over.
LEMMA RetryGood ==
  ASSUME NEW c \in ClientType, ClientInv(c), NEW t \in Task, c.hub.delayed = t
  PROVE  /\ c.hub.state = "Reconnecting"
         /\ Good(c, StartInternal([c EXCEPT !.hub.delayed = NoTask], t))
<1>1. c.task[t].pc = "delay" /\ c.hub.state = "Reconnecting" /\ c.link.state = "off"
  BY DEF ClientInv, WaitInv, WaitsWell
<1> DEFINE awake == [c EXCEPT !.hub.delayed = NoTask]
<1>2. awake \in ClientType /\ awake.hub = [c.hub EXCEPT !.delayed = NoTask]
      /\ awake.task = c.task /\ awake.link = c.link
  <2>1. [c.hub EXCEPT !.delayed = NoTask] \in HubType
    BY MaxTasksAssumption, Fields DEF HubType, NoTask
  <2>2. QED
    BY <2>1 DEF ClientType
<1> HIDE DEF awake
<1>3. PICK d \in ClientType : d = StartInternal(awake, t)
  BY <1>1, <1>2, StartInternalFacts
<1>4. /\ d.hub = [awake.hub EXCEPT !.stopError = FALSE, !.answered = FALSE, !.resolver = t]
      /\ d.link = [c.link EXCEPT !.state = "opening"]
      /\ d.task = [c.task EXCEPT ![t] = [c.task[t] EXCEPT !.handshake = "pending",
                                                           !.pc = "opening"]]
  <2>1. awake.link.state = "off"
    BY <1>1, <1>2
  <2>2. /\ d.hub = [awake.hub EXCEPT !.stopError = FALSE, !.answered = FALSE, !.resolver = t]
        /\ d.link = [awake.link EXCEPT !.state = "opening"]
        /\ d.task = [awake.task EXCEPT ![t] =
                        [awake.task[t] EXCEPT !.handshake = "pending", !.pc = "opening"]]
    BY <1>2, <1>3, <2>1, StartInternalFacts
  <2>3. QED
    BY <1>2, <2>2
<1>5. /\ d.hub.state = "Reconnecting" /\ d.hub.started = c.hub.started
      /\ d.hub.closes = c.hub.closes /\ d.hub.tasks = c.hub.tasks
      /\ d.hub.delayed = NoTask /\ d.hub.resolver = t /\ ~d.hub.answered
      /\ d.hub.timeout = c.hub.timeout /\ d.hub.ping = c.hub.ping
  BY <1>1, <1>2, <1>4, Fields DEF HubType
<1>6. d.link.state = "opening"
  BY <1>4, Fields DEF LinkType
<1>7. /\ d.task[t].pc = "opening" /\ d.task[t].kind = c.task[t].kind /\ Pending(d, t)
      /\ \A u \in Task : u # t => d.task[u] = c.task[u]
  BY <1>4, Fields DEF TaskType, Pending
<1>8. \A u \in Task : /\ ~Left(c, u) /\ ~Left(d, u)
                      /\ Alive(c, u) <=> u = t
                      /\ Alive(d, u) <=> u = t
  BY <1>1, <1>5, <1>7 DEF Left, Current, Alive, Ended, ClientInv, TaskInv
<1>9. TaskInv(d)
  <2>1. c.task[t] # NewTask
    BY <1>1 DEF NewTask
  <2>2. QED
    BY <1>5, <1>7, <1>8, <2>1 DEF ClientInv, TaskInv, Current
<1>10. StateInv(d)
  BY <1>1, <1>5, <1>6, <1>7, <1>8 DEF ClientInv, StateInv, Current
<1>11. WaitInv(d)
  <2>1. ASSUME NEW u \in Task, u # t
        PROVE  WaitsWell(d, u)
    <3>1. d.task[u].pc \notin Waiting \cup {"failing"}
      BY <1>8, <2>1 DEF Alive, Ended, Waiting
    <3>2. QED
      BY <1>5, <3>1, Numbers DEF WaitsWell, Waiting
  <2>2. WaitsWell(d, t)
    BY <1>5, <1>6, <1>7, Numbers DEF WaitsWell, PageStopped
  <2>3. QED
    BY <2>1, <2>2 DEF WaitInv
<1>12. TimerInv(d) /\ ~Stuck(d)
  BY <1>1, <1>5, <1>6 DEF ClientInv, TimerInv, Stuck
<1>13. Follows(c, d) /\ d.hub.tasks >= c.hub.tasks
  BY <1>1, <1>5, MaxTasksAssumption, Fields DEF Follows, HubType
<1>14. Good(c, d)
  BY <1>9, <1>10, <1>11, <1>12, <1>13 DEF Good, ClientInv
<1>15. QED
  BY <1>1, <1>3, <1>14 DEF awake

-----------------------------------------------------------------------------
(* Messages and timers.                                                    *)

SameLife(c, d) ==
  /\ d.hub.state = c.hub.state /\ d.hub.started = c.hub.started
  /\ d.hub.closes = c.hub.closes /\ d.hub.tasks = c.hub.tasks

\* A step of which one half is invisible.
LEMMA GoodComposes ==
  ASSUME NEW c \in ClientType, NEW e \in ClientType, NEW d \in ClientType,
         Good(c, e), Good(e, d), SameLife(c, e) \/ SameLife(e, d)
  PROVE  Good(c, d)
<1>1. c.hub.tasks \in Nat /\ e.hub.tasks \in Nat /\ d.hub.tasks \in Nat
  BY MaxTasksAssumption, Fields DEF HubType
<1>2. CASE SameLife(c, e)
  BY <1>2 DEF Good, SameLife, Follows
<1>3. CASE SameLife(e, d)
  BY <1>1, <1>3 DEF Good, SameLife, Follows
<1>4. QED
  BY <1>2, <1>3

LEMMA TimeoutClearedFacts ==
  ASSUME NEW c \in ClientType
  PROVE  LET e == [c EXCEPT !.hub.timeout = FALSE] IN
         /\ e \in ClientType /\ e.hub = [c.hub EXCEPT !.timeout = FALSE]
         /\ e.task = c.task /\ e.link = c.link
<1>1. [c.hub EXCEPT !.timeout = FALSE] \in HubType
  BY Fields DEF HubType
<1>2. QED
  BY <1>1 DEF ClientType

LEMMA ServerTimeoutGood ==
  ASSUME NEW c \in ClientType, ClientInv(c), c.hub.timeout
  PROVE  Good(c, StopLink([c EXCEPT !.hub.timeout = FALSE]))
<1>1. c.link.state = "up"
  BY DEF ClientInv, TimerInv
<1>2. PICK e \in ClientType : e = [c EXCEPT !.hub.timeout = FALSE]
  BY TimeoutClearedFacts
<1>3. e.hub = [c.hub EXCEPT !.timeout = FALSE] /\ e.task = c.task /\ e.link = c.link
  BY <1>2, TimeoutClearedFacts
<1>4. PICK d \in ClientType : d = StopLink(e)
  BY StopLinkFacts
<1>5. d.hub = e.hub /\ d.task = c.task /\ d.link = [c.link EXCEPT !.stopping = TRUE]
  BY <1>1, <1>3, <1>4, StopLinkFacts
<1>6. d.hub = [c.hub EXCEPT !.timeout = FALSE, !.ping = c.hub.ping]
      /\ c.hub.ping \in {"none", "set", "fired"}
  <2>1. c.hub \in HubType /\ d.hub = [c.hub EXCEPT !.timeout = FALSE]
    BY <1>3, <1>5, Fields
  <2>2. c.hub.ping \in {"none", "set", "fired"}
    BY <2>1 DEF HubType
  <2>3. c.hub.ping = [c.hub EXCEPT !.timeout = FALSE].ping
    BY <2>1 DEF HubType
  <2>4. [c.hub EXCEPT !.timeout = FALSE] = [c.hub EXCEPT !.timeout = FALSE, !.ping = c.hub.ping]
    BY <2>1, <2>3, ZenonT(40) DEF HubType
  <2>5. QED
    BY <2>1, <2>2, <2>4
<1>7. d.link.stopping /\ (c.hub.ping = "fired" => MaySkip(c))
  BY <1>5, Fields DEF LinkType, MaySkip
<1>8. Good(c, d)
  BY <1>1, <1>5, <1>6, <1>7, TimersGood
<1>9. QED
  BY <1>2, <1>4, <1>8

LEMMA PingTimerGood ==
  ASSUME NEW c \in ClientType, ClientInv(c), c.hub.ping = "set",
         \A t \in Task : c.task[t].pc # "pinging"
  PROVE  /\ c.hub.state = "Connected" => Good(c, CleanupPingTimer(c))
         /\ c.hub.state # "Connected" => Good(c, [c EXCEPT !.hub.ping = "fired"])
<1>1. c.link.state = "up"
  BY DEF ClientInv, TimerInv
<1>2. ASSUME NEW ping \in {"none", "fired"}, ping = "fired" => c.hub.state # "Connected"
      PROVE  Good(c, [c EXCEPT !.hub.ping = ping])
  <2> DEFINE e == [c EXCEPT !.hub.ping = ping]
  <2>1. e \in ClientType /\ e.hub = [c.hub EXCEPT !.ping = ping]
        /\ e.task = c.task /\ e.link = c.link
    <3>1. [c.hub EXCEPT !.ping = ping] \in HubType
      BY Fields DEF HubType
    <3>2. e.hub = [c.hub EXCEPT !.ping = ping] /\ e.task = c.task /\ e.link = c.link
      BY DEF ClientType
    <3>3. e \in ClientType
      BY <3>1, <3>2 DEF ClientType
    <3>4. QED
      BY <3>2, <3>3
  <2> HIDE DEF e
  <2>2. PICK d \in ClientType : d = e
    BY <2>1
  <2>3. d.hub = [c.hub EXCEPT !.ping = ping] /\ d.task = c.task /\ d.link = c.link
    BY <2>1, <2>2
  <2>4. ping = "fired" => MaySkip(c)
    BY <1>2 DEF MaySkip
  <2>5. d.hub = [c.hub EXCEPT !.timeout = c.hub.timeout, !.ping = ping]
        /\ c.hub.timeout \in BOOLEAN /\ ping \in {"none", "set", "fired"}
    <3>1. c.hub \in HubType
      BY Fields
    <3>2. c.hub.timeout \in BOOLEAN
      BY <3>1 DEF HubType
    <3>3. [c.hub EXCEPT !.ping = ping] = [c.hub EXCEPT !.timeout = c.hub.timeout, !.ping = ping]
      BY <3>1, ZenonT(40) DEF HubType
    <3>4. QED
      BY <2>3, <3>2, <3>3
  <2>6. Good(c, d)
    BY <1>1, <2>3, <2>4, <2>5, TimersGood
  <2>7. QED
    BY <2>2, <2>6 DEF e
<1>3. QED
  BY <1>2 DEF CleanupPingTimer

\* The server was heard: the server timeout starts again.
LEMMA HeardGood ==
  ASSUME NEW c \in ClientType, ClientInv(c), c.link.state = "up",
         NEW e \in ClientType, e.task = c.task, NEW timeout \in BOOLEAN,
         e.hub = [c.hub EXCEPT !.timeout = timeout],
         e.link = c.link \/ e.link = [c.link EXCEPT !.stopping = TRUE]
  PROVE  Good(c, ResetTimeoutPeriod(e)) /\ SameLife(c, ResetTimeoutPeriod(e))
<1>1. PICK d \in ClientType : d = ResetTimeoutPeriod(e)
  BY ResetTimeoutFacts
<1>2. /\ d.task = e.task /\ d.link = e.link
      /\ d.hub = IF e.link.inherentKeepAlive THEN e.hub
                 ELSE [e.hub EXCEPT !.timeout = TRUE,
                                    !.ping = IF e.hub.ping = "none" THEN "set" ELSE e.hub.ping]
  BY <1>1, ResetTimeoutFacts
<1>3. e.link.inherentKeepAlive = c.link.inherentKeepAlive
  BY Fields DEF LinkType
<1>4. e.hub.ping = c.hub.ping /\ c.hub.ping \in {"none", "set", "fired"}
  BY Fields DEF HubType
<1>5. PICK beat \in BOOLEAN, ping \in {"none", "set", "fired"} :
        /\ d.hub = [c.hub EXCEPT !.timeout = beat, !.ping = ping]
        /\ beat \/ c.link.inherentKeepAlive
        /\ ping = "fired" => c.hub.ping = "fired"
  <2>1. CASE c.link.inherentKeepAlive
    <3>1. d.hub = [c.hub EXCEPT !.timeout = timeout, !.ping = c.hub.ping]
      BY <1>2, <1>3, <2>1, Fields DEF HubType
    <3>2. QED
      BY <1>4, <2>1, <3>1
  <2>2. CASE ~c.link.inherentKeepAlive
    <3>1. PICK ping \in {"none", "set", "fired"} :
            ping = IF c.hub.ping = "none" THEN "set" ELSE c.hub.ping
      BY <1>4
    <3>2. d.hub = [e.hub EXCEPT !.timeout = TRUE, !.ping = ping]
      BY <1>2, <1>3, <1>4, <2>2, <3>1
    <3>3. d.hub = [c.hub EXCEPT !.timeout = TRUE, !.ping = ping]
      BY <3>2, Fields DEF HubType
    <3>4. ping = "fired" => c.hub.ping = "fired"
      BY <3>1
    <3>5. QED
      BY <3>3, <3>4
  <2>3. QED
    BY <2>1, <2>2
<1>6. Good(c, d)
  <2>1. d.task = c.task /\ (d.link = c.link \/ d.link = [c.link EXCEPT !.stopping = TRUE])
    BY <1>2
  <2>2. /\ beat \/ beat = c.hub.timeout \/ d.link.stopping \/ c.link.inherentKeepAlive
        /\ ping = "fired" => MaySkip(c)
    BY <1>5 DEF MaySkip
  <2>3. QED
    BY <1>5, <2>1, <2>2, TimersGood
<1>7. SameLife(c, d)
  BY <1>5, Fields DEF SameLife, HubType
<1>8. QED
  BY <1>1, <1>6, <1>7

LEMMA ReceiveGood ==
  ASSUME NEW c \in ClientType, ClientInv(c), MaySend(c), NEW m \in Message,
         \A t \in Task : ~Left(c, t) /\ c.task[t].pc # "failing",
         m # "ping" => \A t \in Task : c.task[t].pc # "pinging",
         \A t \in Task : c.task[t].pc \in {"opening", "requesting", "awaiting"} => ~Pending(c, t)
  PROVE  Good(c, ResetTimeoutPeriod(ProcessMessage([c EXCEPT !.hub.timeout = FALSE], m)))
<1>1. c.link.state = "up"
  BY DEF MaySend
<1>2. PICK e \in ClientType : e = [c EXCEPT !.hub.timeout = FALSE]
  BY TimeoutClearedFacts
<1>3. e.hub = [c.hub EXCEPT !.timeout = FALSE] /\ e.task = c.task /\ e.link = c.link
  BY <1>2, TimeoutClearedFacts
<1>4. CASE m = "ping"
  <2>1. ProcessMessage(e, m) = e
    BY <1>4 DEF ProcessMessage
  <2>2. QED
    BY <1>1, <1>2, <1>3, <2>1, HeardGood
<1>5. CASE m = "closeAllowReconnect"
  <2>1. PICK f \in ClientType : f = StopLink(e) /\ f.hub = e.hub /\ f.task = c.task
                                /\ f.link = [c.link EXCEPT !.stopping = TRUE]
    BY <1>1, <1>3, StopLinkFacts
  <2>2. ProcessMessage(e, m) = f
    BY <1>5, <2>1 DEF ProcessMessage
  <2>3. QED
    BY <1>1, <1>2, <1>3, <2>1, <2>2, HeardGood
<1>6. CASE m = "close"
  <2>1. ProcessMessage(e, m) = StopInternal(e)
    BY <1>6 DEF ProcessMessage
  <2>2. e.hub.state = c.hub.state /\ e.hub.delayed = c.hub.delayed
        /\ c.hub.state \in HubConnectionState
    BY <1>3, Fields DEF HubType
  <2>3. CASE c.hub.state \in {"Disconnected", "Disconnecting"}
    <3>1. StopInternal(e) = e
      BY <2>2, <2>3 DEF StopInternal
    <3>2. QED
      BY <1>1, <1>2, <1>3, <2>1, <3>1, HeardGood
  <2>4. CASE c.hub.state \in {"Connecting", "Connected", "Reconnecting"}
    <3>1. c.hub.delayed = NoTask
      <4>1. \A t \in Task : c.hub.delayed # t
        BY <1>1 DEF ClientInv, WaitInv, WaitsWell
      <4>2. c.hub.delayed \in 0 .. MaxTasks
        BY Fields DEF HubType
      <4>3. QED
        BY <4>1, <4>2, MaxTasksAssumption DEF Task, NoTask
    <3>2. PICK f \in ClientType : f = StopInternal(c)
      BY <2>4, <3>1, StopInternalFacts
    <3>3. /\ f.task = c.task /\ f.link = [c.link EXCEPT !.stopping = TRUE]
          /\ f.hub = [c.hub EXCEPT !.state = "Disconnecting", !.timeout = FALSE, !.ping = "none",
                                   !.stopError = TRUE, !.stopPending = TRUE]
      <4>1. (c.link.state # "off") = TRUE
        BY <1>1
      <4>2. QED
        BY <2>4, <3>1, <3>2, <4>1, StopInternalFacts
    <3>4. PICK g \in ClientType : g = StopInternal(e)
      BY <2>2, <2>4, <3>1, StopInternalFacts
    <3>5. /\ g.task = c.task /\ g.link = [c.link EXCEPT !.stopping = TRUE]
          /\ g.hub = [e.hub EXCEPT !.state = "Disconnecting", !.timeout = FALSE, !.ping = "none",
                                   !.stopError = TRUE, !.stopPending = TRUE]
      <4>1. (e.link.state # "off") = TRUE
        BY <1>1, <1>3
      <4>2. /\ e.hub.delayed = NoTask
            /\ e.hub.state \in {"Connecting", "Connected", "Reconnecting"}
        BY <2>2, <2>4, <3>1
      <4>3. /\ g.task = e.task
            /\ g.hub = [e.hub EXCEPT !.state = "Disconnecting", !.timeout = FALSE, !.ping = "none",
                                     !.stopError = TRUE, !.stopPending = TRUE]
            /\ g.link = [e.link EXCEPT !.stopping = TRUE]
        BY <3>4, <4>1, <4>2, StopInternalFacts
      <4>4. QED
        BY <1>3, <4>3
    <3>6. g = f
      <4>1. g.hub = f.hub
        <5>1. [e.hub EXCEPT !.state = "Disconnecting", !.timeout = FALSE, !.ping = "none",
                            !.stopError = TRUE, !.stopPending = TRUE] =
              [c.hub EXCEPT !.state = "Disconnecting", !.timeout = FALSE, !.ping = "none",
                            !.stopError = TRUE, !.stopPending = TRUE]
          <6>1. c.hub \in HubType
            BY Fields
          <6>2. e.hub = [c.hub EXCEPT !.timeout = FALSE]
            BY <1>3
          <6>3. QED
            BY <6>1, <6>2 DEF HubType
        <5>2. QED
          BY <3>3, <3>5, <5>1
      <4>2. g.task = f.task /\ g.link = f.link
        BY <3>3, <3>5
      <4>3. /\ g = [hub |-> g.hub, task |-> g.task, link |-> g.link]
            /\ f = [hub |-> f.hub, task |-> f.task, link |-> f.link]
        BY Fields
      <4>4. QED
        BY <4>1, <4>2, <4>3
    <3>7. Good(c, f)
      BY <1>1, <1>6, <3>2, StopInternalGood
    <3>8. f.link.state = "up" /\ f.hub = [f.hub EXCEPT !.timeout = f.hub.timeout]
          /\ f.hub.timeout \in BOOLEAN
      BY <1>1, <3>3, Fields DEF HubType, LinkType
    <3>9. PICK d \in ClientType : d = ResetTimeoutPeriod(f)
      BY ResetTimeoutFacts
    <3>10. Good(f, d) /\ SameLife(f, d)
      BY <3>7, <3>8, <3>9, HeardGood DEF Good
    <3>11. Good(c, d)
      BY <3>7, <3>10, GoodComposes
    <3>12. QED
      BY <1>2, <2>1, <3>4, <3>6, <3>9, <3>11
  <2>5. QED
    BY <2>2, <2>3, <2>4 DEF HubConnectionState
<1>7. QED
  BY <1>4, <1>5, <1>6 DEF Message

\* The response to the handshake, and the message that came with it.
LEMMA HandshakeGood ==
  ASSUME NEW c \in ClientType, ClientInv(c), Quiet(c), MaySend(c), NEW m \in Message,
         NEW t \in Task, t = c.hub.resolver, c.task[t].pc \in {"requesting", "awaiting"}
  PROVE  LET heard == [c EXCEPT !.hub.timeout = FALSE, !.hub.answered = TRUE,
                                !.task[t].handshake = "resolved"]
         IN Good(c, ResetTimeoutPeriod(ProcessMessage(heard, m)))
<1> DEFINE heard == [c EXCEPT !.hub.timeout = FALSE, !.hub.answered = TRUE,
                              !.task[t].handshake = "resolved"]
           e == [c EXCEPT !.hub.answered = TRUE, !.task[t].handshake = "resolved"]
<1>1. /\ e.hub = [c.hub EXCEPT !.answered = TRUE] /\ e.link = c.link
      /\ e.task = [c.task EXCEPT ![t] = [c.task[t] EXCEPT !.handshake = "resolved"]]
  BY DEF ClientType
<1>2. e \in ClientType
  <2>1. [c.hub EXCEPT !.answered = TRUE] \in HubType
    BY Fields DEF HubType
  <2>2. [c.task EXCEPT ![t] = [c.task[t] EXCEPT !.handshake = "resolved"]] \in [Task -> TaskType]
    BY Fields DEF TaskType
  <2>3. QED
    BY <1>1, <2>1, <2>2 DEF ClientType
<1>3. heard = [e EXCEPT !.hub.timeout = FALSE]
  BY DEF ClientType
<1> HIDE DEF heard, e
<1>4. /\ SameLife(c, e)
      /\ e.hub.delayed = c.hub.delayed /\ e.hub.resolver = c.hub.resolver /\ e.hub.answered
      /\ e.hub.stopError = c.hub.stopError /\ e.hub.stopPending = c.hub.stopPending
      /\ e.hub.timeout = c.hub.timeout /\ e.hub.ping = c.hub.ping
  BY <1>1, Fields DEF HubType, SameLife
<1>5. /\ e.task[t].pc = c.task[t].pc /\ e.task[t].kind = c.task[t].kind /\ ~Pending(e, t)
      /\ \A u \in Task : u # t => e.task[u] = c.task[u]
  BY <1>1, Fields DEF TaskType, Pending
<1>6. Alive(c, t) /\ OnlyAlive(c, t) /\ c.link.state = "up"
  BY Alone DEF Alive, Ended, MaySend
<1>7. \A u \in Task : /\ ~Left(c, u) /\ ~Left(e, u)
                      /\ Current(c, u) <=> u = t
                      /\ Current(e, u) <=> u = t
  BY <1>4, <1>5, <1>6, QuietFacts DEF SameLife, Left, Current, Alive, OnlyAlive
<1>8. TaskInv(e)
  <2>1. c.task[t] # NewTask
    BY DEF NewTask
  <2>2. QED
    BY <1>4, <1>5, <1>7, <2>1 DEF SameLife, ClientInv, TaskInv
<1>9. StateInv(e)
  BY <1>1, <1>4, <1>5, <1>7 DEF SameLife, ClientInv, StateInv, Watched
<1>10. WaitInv(e)
  <2>1. ASSUME NEW u \in Task, u # t
        PROVE  WaitsWell(e, u)
    <3>1. e.task[u].pc \notin Waiting \cup {"failing"}
      BY <1>5, <1>6, <2>1 DEF OnlyAlive, Alive, Ended, Waiting
    <3>2. c.hub.delayed # u
      BY <1>6, <2>1 DEF OnlyAlive, Alive, Ended, ClientInv, WaitInv, WaitsWell
    <3>3. QED
      BY <1>4, <3>1, <3>2 DEF WaitsWell, Waiting
  <2>2. WaitsWell(e, t)
    BY <1>1, <1>4, <1>5, <1>6 DEF SameLife, ClientInv, WaitInv, WaitsWell
  <2>3. QED
    BY <2>1, <2>2 DEF WaitInv
<1>11. TimerInv(e) /\ ~Stuck(e) /\ MaySend(e)
  BY <1>1, <1>6 DEF TimerInv, Stuck, MaySend
<1>12. Good(c, e)
  <2>1. Follows(c, e) /\ e.hub.tasks >= c.hub.tasks
    BY <1>4, MaxTasksAssumption, Fields DEF SameLife, Follows, HubType
  <2>2. QED
    BY <1>2, <1>8, <1>9, <1>10, <1>11, <2>1 DEF Good, ClientInv
<1>13. PICK d \in ClientType : d = ResetTimeoutPeriod(ProcessMessage(heard, m)) /\ Good(e, d)
  <2>1. \A u \in Task : e.task[u].pc \notin {"failing", "pinging"}
    BY <1>5, <1>6 DEF OnlyAlive, Alive, Ended
  <2>2. \A u \in Task : e.task[u].pc \in {"opening", "requesting", "awaiting"} => ~Pending(e, u)
    BY <1>5, <1>6 DEF OnlyAlive, Alive, Ended
  <2>3. ClientInv(e)
    BY <1>8, <1>9, <1>10, <1>11 DEF ClientInv
  <2>4. Good(e, ResetTimeoutPeriod(ProcessMessage(heard, m)))
    BY <1>2, <1>3, <1>7, <1>11, <2>1, <2>2, <2>3, ReceiveGood
  <2>5. QED
    BY <2>4 DEF Good
<1>14. QED
  BY <1>2, <1>4, <1>12, <1>13, GoodComposes DEF heard

-----------------------------------------------------------------------------
(* The connection closes.                                                  *)

\* m is client c after the connection closed, before onclose or a reconnect.
Cleaned(c, m) ==
  /\ SameLife(c, m) /\ m.hub.delayed = c.hub.delayed /\ m.hub.resolver = c.hub.resolver
  /\ m.hub.stopError /\ ~m.hub.timeout /\ m.hub.ping = "none" /\ m.link.state = "off"
  /\ \A t \in Task :
       /\ c.task[t] = NewTask => m.task[t] = NewTask
       /\ m.task[t].kind = c.task[t].kind
       /\ m.task[t].pc = IF c.task[t].pc = "closing" THEN "failing" ELSE c.task[t].pc
       /\ t = c.hub.resolver => ~Pending(m, t)
       /\ t # c.hub.resolver => m.task[t].handshake = c.task[t].handshake

LEMMA ClosesFacts ==
  ASSUME NEW c \in ClientType
  PROVE  \E m \in ClientType :
           Cleaned(c, m) /\ \A inside \in BOOLEAN : Closes(c, inside) = Branches(c, m, inside)
<1>1. PICK l \in ClientType : l = LinkOff(c)
  BY LinkOffFacts
<1>2. /\ l.hub = [c.hub EXCEPT !.stopPending = FALSE]
      /\ l.link = [c.link EXCEPT !.state = "off", !.stopping = FALSE, !.transport = "none"]
      /\ l.task = [t \in Task |->
                     IF c.task[t].pc = "closing" THEN [c.task[t] EXCEPT !.pc = "failing"]
                     ELSE c.task[t]]
  BY <1>1, LinkOffFacts
<1>3. l.link.state = "off" /\ SameLife(c, l) /\ l.hub.delayed = c.hub.delayed
      /\ l.hub.resolver = c.hub.resolver
  BY <1>2, Fields DEF LinkType, HubType, SameLife
<1>4. \A t \in Task : /\ l.task[t].kind = c.task[t].kind
                      /\ l.task[t].handshake = c.task[t].handshake
                      /\ l.task[t].pc = IF c.task[t].pc = "closing" THEN "failing" ELSE c.task[t].pc
                      /\ c.task[t] = NewTask => l.task[t] = NewTask
  BY <1>2, Fields DEF TaskType, NewTask
<1> DEFINE waiting == l.hub.resolver # NoTask /\ l.task[l.hub.resolver].handshake = "pending"
<1>5. PICK told \in ClientType :
        /\ told = IF waiting THEN [l EXCEPT !.task[l.hub.resolver].handshake = "resolved"] ELSE l
        /\ told.hub = l.hub /\ told.link = l.link
        /\ \A t \in Task :
             told.task[t] = IF t = l.hub.resolver /\ Pending(l, t)
                            THEN [l.task[t] EXCEPT !.handshake = "resolved"] ELSE l.task[t]
  <2>1. CASE waiting
    <3>1. PICK r \in Task : r = l.hub.resolver /\ Pending(l, r)
      BY <2>1, MaxTasksAssumption, Fields DEF HubType, Task, NoTask, Pending
    <3> DEFINE f == [l EXCEPT !.task[r].handshake = "resolved"]
    <3>2. /\ f.hub = l.hub /\ f.link = l.link
          /\ f.task = [l.task EXCEPT ![r] = [l.task[r] EXCEPT !.handshake = "resolved"]]
      BY DEF ClientType
    <3>3. [l.task EXCEPT ![r] = [l.task[r] EXCEPT !.handshake = "resolved"]] \in [Task -> TaskType]
      BY Fields DEF TaskType
    <3>4. f \in ClientType
      BY <3>2, <3>3 DEF ClientType
    <3>5. f = IF waiting THEN [l EXCEPT !.task[l.hub.resolver].handshake = "resolved"] ELSE l
      BY <2>1, <3>1
    <3> HIDE DEF f
    <3>6. \A t \in Task :
             f.task[t] = IF t = l.hub.resolver /\ Pending(l, t)
                         THEN [l.task[t] EXCEPT !.handshake = "resolved"] ELSE l.task[t]
      BY <3>1, <3>2, Fields
    <3>7. QED
      BY <3>2, <3>4, <3>5, <3>6
  <2>2. CASE ~waiting
    BY <2>2, Numbers DEF Pending
  <2>3. QED
    BY <2>1, <2>2
<1> DEFINE f == [told EXCEPT !.hub.stopError = TRUE]
<1>6. f \in ClientType /\ f.hub = [told.hub EXCEPT !.stopError = TRUE]
      /\ f.task = told.task /\ f.link = told.link
  <2>1. [told.hub EXCEPT !.stopError = TRUE] \in HubType
    BY Fields DEF HubType
  <2>2. QED
    BY <2>1 DEF ClientType
<1>7. \A inside \in BOOLEAN : Closes(c, inside) = Branches(l, Cleanup(f), inside)
  BY <1>1, <1>5 DEF Closes, ConnectionClosed
<1> HIDE DEF f
<1>8. PICK m \in ClientType : m = Cleanup(f)
  BY <1>6, CleanupFacts
<1>9. /\ m.hub = [f.hub EXCEPT !.timeout = FALSE, !.ping = "none"]
      /\ m.task = f.task /\ m.link = f.link
  BY <1>6, <1>8, CleanupFacts
<1>10. /\ SameLife(c, m) /\ m.hub.delayed = c.hub.delayed /\ m.hub.resolver = c.hub.resolver
       /\ m.hub.stopError /\ ~m.hub.timeout /\ m.hub.ping = "none" /\ m.link.state = "off"
  <2>1. m.hub = [l.hub EXCEPT !.stopError = TRUE, !.timeout = FALSE, !.ping = "none"]
    BY <1>5, <1>6, <1>9, Fields DEF HubType
  <2>2. /\ SameLife(l, m) /\ m.hub.delayed = l.hub.delayed /\ m.hub.resolver = l.hub.resolver
        /\ m.hub.stopError /\ ~m.hub.timeout /\ m.hub.ping = "none"
    BY <2>1, Fields DEF HubType, SameLife
  <2>3. QED
    BY <1>3, <1>5, <1>6, <1>9, <2>2 DEF SameLife
<1>11. ASSUME NEW t \in Task
       PROVE  /\ c.task[t] = NewTask => m.task[t] = NewTask
              /\ m.task[t].kind = c.task[t].kind
              /\ m.task[t].pc = IF c.task[t].pc = "closing" THEN "failing" ELSE c.task[t].pc
              /\ t = c.hub.resolver => ~Pending(m, t)
              /\ t # c.hub.resolver => m.task[t].handshake = c.task[t].handshake
  <2>1. m.task[t] = IF t = l.hub.resolver /\ Pending(l, t)
                    THEN [l.task[t] EXCEPT !.handshake = "resolved"] ELSE l.task[t]
    BY <1>5, <1>6, <1>9
  <2>2. l.task[t] \in TaskType
    BY Fields
  <2>3. Pending(l, t) => l.task[t] # NewTask
    BY DEF Pending, NewTask
  <2>4. CASE t = l.hub.resolver /\ Pending(l, t)
    BY <1>3, <1>4, <2>1, <2>2, <2>3, <2>4 DEF TaskType, Pending
  <2>5. CASE ~(t = l.hub.resolver /\ Pending(l, t))
    BY <1>3, <1>4, <2>1, <2>5 DEF Pending
  <2>6. QED
    BY <2>4, <2>5
<1>12. \A inside \in BOOLEAN : Closes(c, inside) = Branches(c, m, inside)
  BY <1>3, <1>7, <1>8 DEF Branches, SameLife
<1>13. QED
  BY <1>10, <1>11, <1>12 DEF Cleaned

\* What a connection that may close leaves behind.
Closing(c, m) ==
  /\ ClientInv(c) /\ Quiet(c) /\ c.link.state = "up" /\ Cleaned(c, m)
  /\ \A t \in Task : c.task[t].pc \notin {"requesting", "pinging"}

LEMMA CleanedTasks ==
  ASSUME NEW c \in ClientType, NEW m \in ClientType, Closing(c, m)
  PROVE  /\ c.hub.delayed = NoTask
         /\ \A t \in Task :
              /\ ~Left(c, t) /\ ~Left(m, t)
              /\ Alive(m, t) <=> Alive(c, t)
              /\ Alive(m, t) => Ready(m, t)
              /\ m.task[t].pc = "awaiting" => /\ c.task[t].pc = "awaiting" /\ Pending(c, t)
                                              /\ m.hub.resolver = t /\ ~Pending(m, t)
         /\ \A t \in Task : IF t > m.hub.tasks THEN m.task[t] = NewTask
                            ELSE m.task[t].kind # "none" /\ m.task[t].pc # "new"
<1>1. ASSUME NEW t \in Task
      PROVE  /\ ~Left(c, t) /\ ~Left(m, t) /\ (Alive(m, t) <=> Alive(c, t))
             /\ c.task[t].pc # "delay"
  <2>1. ~Left(c, t)
    BY QuietFacts DEF Closing
  <2>2. Alive(m, t) <=> Alive(c, t)
    BY DEF Closing, Cleaned, Alive, Ended
  <2>3. m.task[t].kind = c.task[t].kind /\ m.hub.state = c.hub.state
    BY DEF Closing, Cleaned, SameLife
  <2>4. c.task[t].pc # "delay"
    BY DEF Closing, ClientInv, WaitInv, WaitsWell
  <2>5. QED
    BY <2>1, <2>2, <2>3, <2>4 DEF Left
<1>2. ASSUME NEW t \in Task, Alive(c, t)
      PROVE  c.task[t].pc = "awaiting" \/ c.task[t].pc = "closing"
  <2>1. c.task[t].pc \in PC
    BY Fields DEF TaskType
  <2>2. c.task[t].pc \notin {"opening", "delay", "requesting", "pinging", "failing"}
    BY DEF Closing, ClientInv, WaitInv, WaitsWell, Quiet, Ready
  <2>3. QED
    BY <1>2, <2>1, <2>2 DEF PC, Waiting, Ended, Alive
<1>3. ASSUME NEW t \in Task, m.task[t].pc = "awaiting"
      PROVE  /\ c.task[t].pc = "awaiting" /\ Pending(c, t)
             /\ m.hub.resolver = t /\ ~Pending(m, t)
  <2>1. c.task[t].pc = "awaiting"
    BY <1>3 DEF Closing, Cleaned
  <2>2. Pending(c, t) /\ c.hub.resolver = t
    BY <2>1 DEF Closing, Quiet, Ready, ClientInv, WaitInv, WaitsWell
  <2>3. QED
    BY <2>1, <2>2 DEF Closing, Cleaned
<1>4. ASSUME NEW t \in Task, Alive(m, t)
      PROVE  Ready(m, t)
  <2>1. c.task[t].pc = "awaiting" \/ c.task[t].pc = "closing"
    BY <1>1, <1>2, <1>4
  <2>2. m.task[t].pc = "awaiting" \/ m.task[t].pc = "failing"
    BY <2>1 DEF Closing, Cleaned
  <2>3. QED
    BY <1>3, <2>2 DEF Ready
<1>5. c.hub.delayed = NoTask
  <2>1. \A t \in Task : c.hub.delayed # t
    BY <1>1 DEF Closing, ClientInv, WaitInv, WaitsWell
  <2>2. c.hub.delayed \in 0 .. MaxTasks
    BY Fields DEF HubType
  <2>3. QED
    BY <2>1, <2>2, MaxTasksAssumption DEF Task, NoTask
<1>6. ASSUME NEW t \in Task
      PROVE  IF t > m.hub.tasks THEN m.task[t] = NewTask
             ELSE m.task[t].kind # "none" /\ m.task[t].pc # "new"
  <2>1. m.hub.tasks = c.hub.tasks
    BY DEF Closing, Cleaned, SameLife
  <2>2. IF t > c.hub.tasks THEN c.task[t] = NewTask
        ELSE c.task[t].kind # "none" /\ c.task[t].pc # "new"
    BY DEF Closing, ClientInv, TaskInv
  <2>3. QED
    BY <2>1, <2>2 DEF Closing, Cleaned
<1>7. QED
  BY <1>1, <1>3, <1>4, <1>5, <1>6

\* A start or a reconnect attempt goes on, and finds that the connection closed.
LEMMA CleanedGood ==
  ASSUME NEW c \in ClientType, NEW m \in ClientType, Closing(c, m),
         \/ c.hub.state \in {"Connecting", "Reconnecting"}
         \/ c.hub.state = "Disconnecting" /\ ~c.hub.started
  PROVE  Good(c, m)
<1>1. /\ m.hub.state = c.hub.state /\ m.hub.started = c.hub.started
      /\ m.hub.closes = c.hub.closes /\ m.hub.tasks = c.hub.tasks
      /\ m.hub.delayed = c.hub.delayed /\ m.hub.resolver = c.hub.resolver
      /\ m.hub.stopError /\ ~m.hub.timeout /\ m.hub.ping = "none" /\ m.link.state = "off"
      /\ \A t \in Task : m.task[t].kind = c.task[t].kind
      /\ ClientInv(c)
  BY DEF Closing, Cleaned, SameLife
<1>2. c.hub.delayed = NoTask
  BY CleanedTasks
<1>3. \A t \in Task : /\ ~Left(c, t) /\ ~Left(m, t)
                      /\ Alive(m, t) <=> Alive(c, t)
                      /\ Current(m, t) <=> Current(c, t)
                      /\ Alive(m, t) => Ready(m, t)
  BY CleanedTasks DEF Current
<1>4. TaskInv(m)
  <2>1. \A t \in Task : IF t > m.hub.tasks THEN m.task[t] = NewTask
                        ELSE m.task[t].kind # "none" /\ m.task[t].pc # "new"
    BY CleanedTasks
  <2>2. QED
    BY <1>1, <1>3, <2>1 DEF ClientInv, TaskInv
<1>5. StateInv(m)
  BY <1>1, <1>3 DEF ClientInv, StateInv
<1>6. WaitInv(m)
  <2>1. ASSUME NEW t \in Task
        PROVE  WaitsWell(m, t)
    <3>1. CASE Alive(m, t)
      <4>1. m.task[t].pc = "failing" \/ (m.task[t].pc = "awaiting" /\ ~Pending(m, t))
        BY <1>3, <3>1 DEF Ready
      <4>2. m.task[t].pc = "awaiting" => m.hub.resolver = t
        BY CleanedTasks
      <4>3. QED
        BY <1>1, <1>2, <4>1, <4>2, Numbers DEF WaitsWell
    <3>2. CASE ~Alive(m, t)
      BY <1>1, <1>2, <3>2, Numbers DEF WaitsWell, Alive, Ended
    <3>3. QED
      BY <3>1, <3>2
  <2>2. QED
    BY <2>1 DEF WaitInv
<1>7. TimerInv(m)
  BY <1>1 DEF TimerInv
<1>8. ~Stuck(m)
  <2>1. PICK t \in Task : Current(c, t)
    BY <1>1 DEF ClientInv, StateInv
  <2>2. Ready(m, t)
    BY <1>3, <2>1 DEF Current
  <2>3. QED
    BY <2>2 DEF Stuck
<1>9. Follows(c, m) /\ m.hub.tasks >= c.hub.tasks
  BY <1>1, MaxTasksAssumption, Fields DEF Follows, HubType
<1>10. QED
  BY <1>4, <1>5, <1>6, <1>7, <1>8, <1>9 DEF Good, ClientInv

LEMMA CleanedClosable ==
  ASSUME NEW c \in ClientType, NEW m \in ClientType, Closing(c, m),
         c.hub.state = "Connected" \/ (c.hub.state = "Disconnecting" /\ c.hub.started)
  PROVE  /\ Closable(m) /\ c.hub.started
         /\ c.hub.state = "Connected" => \A t \in Task : ~Alive(m, t)
<1>1. /\ m.hub.state = c.hub.state /\ m.hub.started = c.hub.started
      /\ m.hub.delayed = c.hub.delayed
      /\ m.hub.stopError /\ ~m.hub.timeout /\ m.hub.ping = "none" /\ m.link.state = "off"
      /\ \A t \in Task : m.task[t].kind = c.task[t].kind
      /\ ClientInv(c)
  BY DEF Closing, Cleaned, SameLife
<1>2. c.hub.started
  BY <1>1 DEF ClientInv, StateInv
<1>3. \A t \in Task : Alive(m, t) <=> Current(c, t)
  BY CleanedTasks DEF Current
<1>4. c.hub.state = "Connected" => \A t \in Task : ~Alive(m, t)
  BY <1>1, <1>3 DEF ClientInv, StateInv
<1>5. \A t, u \in Task : Alive(m, t) /\ Alive(m, u) => t = u
  BY <1>1, <1>3 DEF ClientInv, TaskInv
<1>6. ASSUME NEW t \in Task, Alive(m, t)
      PROVE  /\ m.task[t].kind = "reconnect" /\ Ready(m, t)
             /\ m.task[t].pc = "awaiting" =>
                  m.hub.resolver = t /\ m.hub.stopError /\ ~RestartsInside
  <2>1. Ready(m, t)
    BY <1>6, CleanedTasks
  <2>2. m.task[t].kind = "reconnect"
    <3>1. c.task[t].kind # "start"
      BY <1>1, <1>2, <1>3, <1>6 DEF ClientInv, StateInv
    <3>2. c.task[t].kind # "none"
      BY <1>1, <1>3, <1>6 DEF Current, Alive, NewTask, ClientInv, TaskInv
    <3>3. c.task[t].kind \in {"none", "start", "reconnect"}
      BY Fields DEF TaskType
    <3>4. QED
      BY <1>1, <3>1, <3>2, <3>3
  <2>3. ASSUME m.task[t].pc = "awaiting"
        PROVE  m.hub.resolver = t /\ ~RestartsInside
    <3>1. m.hub.resolver = t /\ c.task[t].pc = "awaiting" /\ Pending(c, t)
      BY <2>3, CleanedTasks
    <3>2. c.hub.state = "Disconnecting"
      BY <1>4, <1>6
    <3>3. QED
      BY <1>1, <3>1, <3>2 DEF ClientInv, WaitInv, WaitsWell, PageStopped
  <2>4. QED
    BY <1>1, <2>1, <2>2, <2>3
<1>7. \A t \in Task : IF t > m.hub.tasks THEN m.task[t] = NewTask
                      ELSE m.task[t].kind # "none" /\ m.task[t].pc # "new"
  BY CleanedTasks
<1>8. m.hub.started /\ m.hub.delayed = NoTask
  BY <1>1, <1>2, CleanedTasks
<1>9. QED
  BY <1>1, <1>2, <1>4, <1>5, <1>6, <1>7, <1>8 DEF Closable

\* A connection that was established is gone: the loop of _reconnect starts.
LEMMA ToldFacts ==
  ASSUME NEW m \in ClientType, HasTask(m)
  PROVE  LET told == [Run(m, "reconnect") EXCEPT !.hub.state = "Reconnecting"] IN
         /\ told \in ClientType /\ m.hub.tasks + 1 \in Task /\ told.link = m.link
         /\ told.hub = [m.hub EXCEPT !.tasks = m.hub.tasks + 1, !.state = "Reconnecting"]
         /\ told.task = [m.task EXCEPT ![m.hub.tasks + 1] =
                           [m.task[m.hub.tasks + 1] EXCEPT !.kind = "reconnect"]]
<1>1. PICK run \in ClientType : run = Run(m, "reconnect")
  BY RunFacts
<1>2. /\ m.hub.tasks + 1 \in Task
      /\ run.hub = [m.hub EXCEPT !.tasks = m.hub.tasks + 1] /\ run.link = m.link
      /\ run.task = [m.task EXCEPT ![m.hub.tasks + 1] =
                       [m.task[m.hub.tasks + 1] EXCEPT !.kind = "reconnect"]]
  BY <1>1, RunFacts
<1> DEFINE told == [run EXCEPT !.hub.state = "Reconnecting"]
<1>3. told.hub = [run.hub EXCEPT !.state = "Reconnecting"]
      /\ told.task = run.task /\ told.link = run.link
  BY DEF ClientType
<1>4. told \in ClientType
  <2>1. [run.hub EXCEPT !.state = "Reconnecting"] \in HubType
    BY Fields DEF HubType, HubConnectionState
  <2>2. QED
    BY <1>3, <2>1 DEF ClientType
<1> HIDE DEF told
<1>5. told.hub = [m.hub EXCEPT !.tasks = m.hub.tasks + 1, !.state = "Reconnecting"]
  BY <1>2, <1>3, Fields DEF HubType
<1>6. QED
  BY <1>1, <1>2, <1>3, <1>4, <1>5 DEF told

\* d is m with a new task of _reconnect, which waits or, after stop(), is done.
LEMMA NewReconnectKeeps ==
  ASSUME NEW c \in ClientType, NEW m \in ClientType, Closing(c, m), c.hub.state = "Connected",
         NEW d \in ClientType, NEW new \in Task, new = m.hub.tasks + 1,
         \A t \in Task : t # new => d.task[t] = m.task[t],
         d.task[new].kind = "reconnect", d.link.state = "off",
         d.hub.started = m.hub.started, d.hub.closes = m.hub.closes, d.hub.tasks = new,
         ~d.hub.timeout, d.hub.ping = "none",
         \/ d.hub.state = "Reconnecting" /\ d.task[new].pc = "delay" /\ d.hub.delayed = new
         \/ d.hub.state = "Disconnecting" /\ d.task[new].pc = "done" /\ d.hub.delayed = NoTask
  PROVE  ClientInv(d) /\ Follows(c, d) /\ d.hub.tasks >= c.hub.tasks
<1>1. c.hub.started /\ \A t \in Task : ~Alive(m, t)
  BY CleanedClosable
<1>2. m.hub.started = c.hub.started /\ m.hub.closes = c.hub.closes /\ m.hub.tasks = c.hub.tasks
  BY DEF Closing, Cleaned, SameLife
<1>3. m.hub.tasks \in Nat /\ new > m.hub.tasks /\ new >= m.hub.tasks /\ \A t \in Task : t \in Nat
  BY Numbers, MaxTasksAssumption, Fields DEF HubType
<1>4. \A t \in Task : Alive(d, t) => t = new /\ d.hub.state = "Reconnecting"
  BY <1>1 DEF Alive, Ended
<1>5. TaskInv(d)
  <2>1. \A t \in Task : IF t > m.hub.tasks THEN m.task[t] = NewTask
                        ELSE m.task[t].kind # "none" /\ m.task[t].pc # "new"
    BY CleanedTasks
  <2>2. \A t \in Task : t # new => (t > new <=> t > m.hub.tasks)
    BY <1>3
  <2>3. \A t \in Task : IF t > d.hub.tasks THEN d.task[t] = NewTask
                        ELSE d.task[t].kind # "none" /\ d.task[t].pc # "new"
    BY <1>3, <2>1, <2>2
  <2>4. \A t \in Task : ~Left(d, t)
    BY <1>4 DEF Left
  <2>5. QED
    BY <1>4, <2>3, <2>4 DEF TaskInv, Current
<1>6. StateInv(d)
  BY <1>1, <1>2, <1>4 DEF StateInv, Current, Left, Alive, Ended
<1>7. WaitInv(d)
  <2>1. ASSUME NEW t \in Task, t # new
        PROVE  WaitsWell(d, t)
    <3>1. d.task[t].pc \notin Waiting \cup {"failing"}
      BY <1>1, <2>1 DEF Alive, Ended, Waiting
    <3>2. d.hub.delayed # t
      BY <2>1, Numbers
    <3>3. QED
      BY <3>1, <3>2 DEF WaitsWell, Waiting
  <2>2. WaitsWell(d, new)
    BY Numbers DEF WaitsWell
  <2>3. QED
    BY <2>1, <2>2 DEF WaitInv
<1>8. TimerInv(d)
  BY DEF TimerInv
<1>9. Follows(c, d)
  BY <1>2 DEF Follows
<1>10. QED
  BY <1>2, <1>3, <1>5, <1>6, <1>7, <1>8, <1>9 DEF ClientInv

LEMMA ReconnectGood ==
  ASSUME NEW c \in ClientType, NEW m \in ClientType, Closing(c, m), c.hub.state = "Connected",
         HasTask(c)
  PROVE  /\ Good(c, Reconnect(m, FALSE))
         /\ Retries > 0 => LET d == Reconnect(m, TRUE) IN
                           /\ d \in ClientType /\ ClientInv(d) /\ Follows(c, d)
                           /\ d.hub.tasks >= c.hub.tasks
<1>1. Closable(m) /\ c.hub.started
  BY CleanedClosable
<1>2. CASE Retries = 0
  <2>1. m.hub.closes = c.hub.closes /\ m.hub.tasks = c.hub.tasks
    BY DEF Closing, Cleaned, SameLife
  <2>2. QED
    BY <1>1, <1>2, <2>1, CloseGood DEF Reconnect
<1>3. CASE Retries # 0
  <2>1. HasTask(m)
    BY DEF Closing, Cleaned, SameLife, HasTask
  <2>2. PICK told \in ClientType : told = [Run(m, "reconnect") EXCEPT !.hub.state = "Reconnecting"]
    BY <2>1, ToldFacts
  <2>3. PICK new \in Task : new = m.hub.tasks + 1
    BY <2>1, ToldFacts
  <2>4. /\ told.hub = [m.hub EXCEPT !.tasks = new, !.state = "Reconnecting"]
        /\ told.task = [m.task EXCEPT ![new] = [m.task[new] EXCEPT !.kind = "reconnect"]]
        /\ told.link = m.link
    BY <2>1, <2>2, <2>3, ToldFacts
  <2>5. /\ \A t \in Task : t # new => told.task[t] = m.task[t]
        /\ told.task[new].kind = "reconnect" /\ told.task[new].tries = m.task[new].tries
    BY <2>4, Fields DEF TaskType
  <2>6. told.task[new].tries # Retries
    <3>1. new > m.hub.tasks
      BY <2>3, MaxTasksAssumption, Fields DEF HubType
    <3>2. m.task[new] = NewTask
      BY <3>1, CleanedTasks
    <3>3. QED
      BY <1>3, <2>5, <3>2 DEF NewTask
  <2>7. Run(m, "reconnect").hub.tasks = new
    <3>1. Run(m, "reconnect").hub = [m.hub EXCEPT !.tasks = new]
      BY <2>1, <2>3, RunFacts
    <3>2. QED
      BY <3>1, Fields DEF HubType
  <2>8. /\ ~m.hub.timeout /\ m.hub.ping = "none" /\ m.link.state = "off"
        /\ m.hub.delayed = NoTask
    BY <1>1 DEF Closable
  <2>9. Good(c, Reconnect(m, FALSE))
    <3>1. Reconnect(m, FALSE) = NextDelay(told, new)
      BY <1>3, <2>2, <2>7 DEF Reconnect
    <3>2. PICK d \in ClientType : d = NextDelay(told, new)
      BY <2>6, NextDelayFacts
    <3>3. /\ d.hub = [told.hub EXCEPT !.delayed = new] /\ d.link = told.link
          /\ d.task[new].pc = "delay" /\ d.task[new].kind = told.task[new].kind
          /\ \A t \in Task : t # new => d.task[t] = told.task[t]
      BY <2>6, <3>2, NextDelayFacts
    <3>4. /\ d.hub.state = "Reconnecting" /\ d.hub.delayed = new /\ d.hub.tasks = new
          /\ d.hub.started = m.hub.started /\ d.hub.closes = m.hub.closes
          /\ ~d.hub.timeout /\ d.hub.ping = "none"
      <4>1. d.hub = [m.hub EXCEPT !.tasks = new, !.state = "Reconnecting", !.delayed = new]
        BY <2>4, <3>3, Fields DEF HubType
      <4>2. QED
        BY <2>8, <4>1, Fields DEF HubType
    <3>5. ClientInv(d) /\ Follows(c, d) /\ d.hub.tasks >= c.hub.tasks
      <4>1. /\ d.link.state = "off" /\ d.task[new].kind = "reconnect"
            /\ \A t \in Task : t # new => d.task[t] = m.task[t]
        BY <2>4, <2>5, <2>8, <3>3
      <4>2. QED
        BY <2>3, <3>3, <3>4, <4>1, NewReconnectKeeps
    <3>6. ~Stuck(d)
      BY <3>4 DEF Stuck
    <3>7. QED
      BY <3>1, <3>2, <3>5, <3>6 DEF Good
  <2>10. LET d == Reconnect(m, TRUE) IN
         d \in ClientType /\ ClientInv(d) /\ Follows(c, d) /\ d.hub.tasks >= c.hub.tasks
    <3>1. Reconnect(m, TRUE) = Goto(StopInternal(told), new, "done")
      BY <1>3, <2>2, <2>7 DEF Reconnect
    <3>2. told.hub.state = "Reconnecting" /\ told.hub.delayed = NoTask /\ told.link.state = "off"
      BY <2>4, <2>8, Fields DEF HubType
    <3>3. PICK e \in ClientType : e = StopInternal(told)
      BY <3>2, StopInternalFacts
    <3>4. /\ e.task = told.task /\ e.link = told.link
          /\ e.hub = [told.hub EXCEPT !.state = "Disconnecting", !.timeout = FALSE, !.ping = "none",
                                      !.stopError = TRUE, !.stopPending = told.link.state # "off"]
      BY <3>2, <3>3, StopInternalFacts
    <3>5. PICK d \in ClientType : d = Goto(e, new, "done")
      BY GotoFacts DEF PC, Ended
    <3>6. /\ d.hub = e.hub /\ d.link = e.link
          /\ d.task = [e.task EXCEPT ![new] = [e.task[new] EXCEPT !.pc = "done"]]
      BY <3>5, GotoFacts DEF PC, Ended
    <3>7. /\ d.task[new].pc = "done" /\ d.task[new].kind = "reconnect"
          /\ \A t \in Task : t # new => d.task[t] = m.task[t]
      BY <2>5, <3>4, <3>6, Fields DEF TaskType
    <3>8. /\ d.hub.state = "Disconnecting" /\ d.hub.delayed = NoTask /\ d.hub.tasks = new
          /\ d.hub.started = m.hub.started /\ d.hub.closes = m.hub.closes
          /\ ~d.hub.timeout /\ d.hub.ping = "none" /\ d.link.state = "off"
      BY <2>4, <2>8, <3>4, <3>6, Fields DEF HubType
    <3>9. ClientInv(d) /\ Follows(c, d) /\ d.hub.tasks >= c.hub.tasks
      BY <2>3, <3>7, <3>8, NewReconnectKeeps
    <3>10. QED
      BY <3>1, <3>3, <3>5, <3>9
  <2>11. QED
    BY <2>9, <2>10
<1>4. QED
  BY <1>2, <1>3, RetriesAssumption

LEMMA BranchesGood ==
  ASSUME NEW c \in ClientType, NEW m \in ClientType, Closing(c, m),
         c.hub.state = "Connected" => HasTask(c)
  PROVE  /\ Good(c, Branches(c, m, FALSE))
         /\ c.hub.state = "Connected" /\ Retries > 0 =>
              LET d == Branches(c, m, TRUE) IN
              d \in ClientType /\ ClientInv(d) /\ Follows(c, d) /\ d.hub.tasks >= c.hub.tasks
<1>0. c.hub.state \in HubConnectionState
  BY Fields DEF HubType
<1>1. CASE c.hub.state = "Connected"
  BY <1>1, ReconnectGood DEF Branches
<1>2. CASE c.hub.state = "Disconnecting" /\ c.hub.started
  <2>1. m.hub.closes = c.hub.closes /\ m.hub.tasks = c.hub.tasks
    BY DEF Closing, Cleaned, SameLife
  <2>2. Good(c, CompleteClose(m))
    BY <1>2, <2>1, CleanedClosable, CloseGood
  <2>3. QED
    BY <1>2, <2>2 DEF Branches
<1>3. CASE c.hub.state = "Disconnecting" /\ ~c.hub.started
  <2>1. m.hub.started = c.hub.started
    BY DEF Closing, Cleaned, SameLife
  <2>2. Branches(c, m, FALSE) = m
    BY <1>3, <2>1 DEF Branches, CompleteClose
  <2>3. QED
    BY <1>3, <2>2, CleanedGood
<1>4. CASE c.hub.state \in {"Connecting", "Reconnecting"}
  BY <1>4, CleanedGood DEF Branches
<1>5. c.hub.state # "Disconnected"
  BY DEF Closing, ClientInv, StateInv
<1>6. QED
  BY <1>0, <1>1, <1>2, <1>3, <1>4, <1>5 DEF HubConnectionState

LEMMA ClosesGood ==
  ASSUME NEW c \in ClientType, ClientInv(c), Quiet(c), c.link.state = "up",
         c.hub.state = "Connected" => HasTask(c),
         \A t \in Task : c.task[t].pc \notin {"requesting", "pinging"}
  PROVE  /\ Good(c, Closes(c, FALSE))
         /\ c.hub.state = "Connected" /\ Retries > 0 =>
              LET d == Closes(c, TRUE) IN
              d \in ClientType /\ ClientInv(d) /\ Follows(c, d) /\ d.hub.tasks >= c.hub.tasks
<1>1. PICK m \in ClientType :
        Cleaned(c, m) /\ \A inside \in BOOLEAN : Closes(c, inside) = Branches(c, m, inside)
  BY ClosesFacts
<1>2. Closing(c, m)
  BY <1>1 DEF Closing
<1>3. QED
  BY <1>1, <1>2, BranchesGood

\* A bad response rejects the handshake first.
LEMMA BadHandshakeGood ==
  ASSUME NEW c \in ClientType, ClientInv(c), Quiet(c), c.link.state = "up",
         c.hub.state = "Connected" => HasTask(c),
         \A t \in Task : c.task[t].pc \notin {"requesting", "pinging"},
         NEW t \in Task, t = c.hub.resolver, c.task[t].pc = "awaiting"
  PROVE  Good(c, Closes([c EXCEPT !.task[t].handshake = "rejected"], FALSE))
<1> DEFINE e == [c EXCEPT !.task[t].handshake = "rejected"]
<1>1. /\ e.hub = c.hub /\ e.link = c.link
      /\ e.task = [c.task EXCEPT ![t] = [c.task[t] EXCEPT !.handshake = "rejected"]]
  BY DEF ClientType
<1>2. e \in ClientType
  <2>1. [c.task EXCEPT ![t] = [c.task[t] EXCEPT !.handshake = "rejected"]] \in [Task -> TaskType]
    BY Fields DEF TaskType
  <2>2. QED
    BY <1>1, <2>1 DEF ClientType
<1> HIDE DEF e
<1>3. PICK m \in ClientType :
        Cleaned(e, m) /\ \A inside \in BOOLEAN : Closes(e, inside) = Branches(e, m, inside)
  BY <1>2, ClosesFacts
<1>4. /\ e.task[t].pc = c.task[t].pc /\ e.task[t].kind = c.task[t].kind
      /\ \A u \in Task : u # t => e.task[u] = c.task[u]
  BY <1>1, Fields DEF TaskType
<1>5. c.task[t] # NewTask
  BY DEF NewTask
<1>6. Cleaned(c, m)
  BY <1>1, <1>3, <1>4, <1>5 DEF Cleaned, SameLife
<1>7. Closing(c, m)
  BY <1>6 DEF Closing
<1>8. Closes(e, FALSE) = Branches(c, m, FALSE)
  BY <1>1, <1>3 DEF Branches
<1>9. QED
  BY <1>7, <1>8, BranchesGood DEF e

-----------------------------------------------------------------------------
(* The steps of the specification.                                         *)

LEMMA StopLeads ==
  ASSUME NEW c \in ClientType, ~RestartsInside
  PROVE  StopInternal(c).hub.state \in {"Disconnected", "Disconnecting"}
<1>1. CASE c.hub.state \in {"Disconnected", "Disconnecting"}
  BY <1>1 DEF StopInternal
<1>2. CASE c.hub.state \notin {"Disconnected", "Disconnecting"} /\ c.hub.delayed = NoTask
  <2>1. c.hub.state \in {"Connecting", "Connected", "Reconnecting"}
    BY <1>2, Fields DEF HubType, HubConnectionState
  <2>2. StopInternal(c).hub = [c.hub EXCEPT !.state = "Disconnecting", !.timeout = FALSE,
                                 !.ping = "none", !.stopError = TRUE,
                                 !.stopPending = c.link.state # "off"]
    BY <1>2, <2>1, StopInternalFacts
  <2>3. QED
    BY <2>2, Fields DEF HubType
<1>3. CASE c.hub.state \notin {"Disconnected", "Disconnecting"} /\ c.hub.delayed # NoTask
  <2>1. PICK t \in Task : t = c.hub.delayed
    BY <1>3, MaxTasksAssumption, Fields DEF HubType, Task, NoTask
  <2>2. PICK e \in ClientType :
          /\ StopInternal(c) = CompleteClose(e) /\ e.link = c.link
          /\ e.hub = [c.hub EXCEPT !.state = "Disconnecting", !.delayed = NoTask,
                                   !.stopPending = FALSE]
          /\ e.task = [c.task EXCEPT ![t] = [c.task[t] EXCEPT !.pc = "gone"]]
    BY <1>3, <2>1, OvertakesFacts
  <2>6. e.hub.state = "Disconnecting"
    BY <2>2, Fields DEF HubType
  <2>7. CASE ~e.hub.started
    BY <2>2, <2>6, <2>7 DEF CompleteClose
  <2>8. CASE e.hub.started
    <3> DEFINE closed == [e EXCEPT !.hub.state = "Disconnected", !.hub.started = FALSE,
                                   !.hub.closes = @ + 1]
    <3>1. CompleteClose(e) = closed
      BY <2>8 DEF CompleteClose
    <3>2. closed.hub = [e.hub EXCEPT !.state = "Disconnected", !.started = FALSE,
                                     !.closes = e.hub.closes + 1]
      BY DEF ClientType
    <3> HIDE DEF closed
    <3>3. closed.hub.state = "Disconnected"
      BY <3>2, Fields DEF HubType
    <3>4. QED
      BY <2>2, <3>1, <3>3
  <2>9. QED
    BY <2>7, <2>8
<1>4. QED
  BY <1>1, <1>2, <1>3

LEMMA ClientFacts ==
  ASSUME TypeOK
  PROVE  Client \in ClientType /\ Client.hub = hub /\ Client.task = task /\ Client.link = link
BY DEF TypeOK, Client, ClientType, HubType, TaskType, LinkType

LEMMA BecomesFacts ==
  ASSUME NEW d \in ClientType, Becomes(d)
  PROVE  Client' = d
BY Fields DEF Becomes, Client

LEMMA IdleFacts ==
  ASSUME TypeOK, Idle, OrdinarySetups
  PROVE  /\ Quiet(Client)
         /\ PingIsSent => \A t \in Task : Client.task[t].pc # "pinging"
         /\ ~setup.slowPosts
<1>1. ~setup.slowPosts
  BY DEF OrdinarySetups, TypeOK
<1>2. Quiet(Client)
  BY ClientFacts DEF Quiet, Ready, Pending, Idle, CanGoOn
<1>3. QED
  BY <1>1, <1>2, ClientFacts DEF PingIsSent

\* A step of the client, which leaves the application as it is.
ClientStep ==
  /\ Client' \in ClientType /\ ClientInv(Client') /\ Follows(Client, Client')
  /\ Client'.hub.tasks >= Client.hub.tasks

LEMMA BecomesGood ==
  ASSUME NEW d, Good(Client, d), Becomes(d)
  PROVE  ClientStep /\ (Stuck(Client') => Stuck(Client)) /\ Client' = d
<1>1. Client' = d
  BY BecomesFacts DEF Good
<1>2. QED
  BY <1>1 DEF Good, ClientStep

LEMMA TasksGoOnGood ==
  ASSUME TypeOK, ClientInv(Client), NEW t \in Task, GoesOn(t)
  PROVE  ClientStep /\ (Stuck(Client') => Stuck(Client))
<1>1. CASE Throws(t)
  <2>1. Client.task[t].pc = "failing" /\ Becomes(Fails(Client, t))
    BY <1>1, ClientFacts DEF Throws
  <2>2. Good(Client, Fails(Client, t))
    BY <2>1, ClientFacts, FailsGood
  <2>3. QED
    BY <2>1, <2>2, BecomesGood
<1>2. CASE AfterHandshake(t)
  <2> DEFINE sending == ResetKeepAliveInterval(Client)
  <2>1. Client.task[t].pc = "awaiting" /\ ~Pending(Client, t)
    BY <1>2, ClientFacts DEF AfterHandshake, Pending
  <2>2. /\ Good(Client, CatchStart(Client, t)) /\ Good(Client, CatchStart(sending, t))
        /\ ~Client.hub.stopError =>
             /\ Client.link.inherentKeepAlive => Good(Client, Succeeds(Client, t))
             /\ ~Client.link.inherentKeepAlive /\ MaySend(Client) =>
                  Good(Client, Succeeds(sending, t)) /\ Good(Client, Goto(sending, t, "pinging"))
    BY <2>1, ClientFacts, AfterHandshakeGood
  <2>3. \/ Becomes(CatchStart(Client, t))
        \/ Becomes(CatchStart(sending, t))
        \/ /\ ~Client.hub.stopError /\ Client.link.inherentKeepAlive
           /\ Becomes(Succeeds(Client, t))
        \/ /\ ~Client.hub.stopError /\ ~Client.link.inherentKeepAlive /\ MaySend(Client)
           /\ Becomes(Succeeds(sending, t)) \/ Becomes(Goto(sending, t, "pinging"))
    BY <1>2, ClientFacts DEF AfterHandshake
  <2> HIDE DEF sending
  <2>4. QED
    BY <2>2, <2>3, BecomesGood
<1>3. QED
  BY <1>1, <1>2 DEF GoesOn

LEMMA OpeningGood ==
  ASSUME TypeOK, ClientInv(Client), OrdinarySetups, NEW t \in Task,
         \/ OpenFails(t) \/ \E transport \in setup.transports : Opens(t, transport)
         \/ \E ok \in BOOLEAN : Requested(t, ok) \/ Pinged(t, ok)
         \/ Retry(t)
  PROVE  ClientStep /\ (Stuck(Client') => Stuck(Client))
<1>0. Client \in ClientType
  BY ClientFacts
<1>1. CASE OpenFails(t)
  <2>1. Client.task[t].pc = "opening" /\ Quiet(Client)
    BY <1>1, ClientFacts, IdleFacts DEF OpenFails
  <2>2. Good(Client, Goto(LinkOff(Client), t, "failing"))
    BY <1>0, <2>1, OpenFailsGood
  <2>3. QED
    BY <1>1, <2>2, BecomesGood DEF OpenFails
<1>2. ASSUME NEW transport \in setup.transports, Opens(t, transport)
      PROVE  ClientStep /\ (Stuck(Client') => Stuck(Client))
  <2>1. transport \in Transport
    BY SetupsAssumption DEF TypeOK
  <2>2. Client.task[t].pc = "opening" /\ Quiet(Client)
    BY <1>2, ClientFacts, IdleFacts DEF Opens
  <2> DEFINE up == [Client EXCEPT !.link.state = "up", !.link.transport = transport,
                             !.link.inherentKeepAlive = @ \/ transport = "LongPolling"]
             sent == ResetKeepAliveInterval(up)
  <2>3. /\ Good(Client, Goto(ResetKeepAliveInterval(ResetTimeoutPeriod(sent)), t, "awaiting"))
        /\ Good(Client, CatchStart(sent, t))
        /\ Good(Client, Goto(sent, t, "requesting"))
    BY <1>0, <2>1, <2>2, OpensGood
  <2>4. \/ Becomes(Goto(ResetKeepAliveInterval(ResetTimeoutPeriod(sent)), t, "awaiting"))
        \/ Becomes(CatchStart(sent, t))
        \/ Becomes(Goto(sent, t, "requesting"))
    BY <1>2 DEF Opens
  <2> HIDE DEF sent
  <2>5. QED
    BY <2>3, <2>4, BecomesGood
<1>3. ASSUME NEW ok \in BOOLEAN, Requested(t, ok)
      PROVE  ClientStep /\ (Stuck(Client') => Stuck(Client))
  <2>1. Client.task[t].pc = "requesting"
    BY <1>3, ClientFacts DEF Requested
  <2>2. /\ Good(Client, Goto(ResetKeepAliveInterval(ResetTimeoutPeriod(Client)), t, "awaiting"))
        /\ Good(Client, CatchStart(Client, t))
    BY <1>0, <2>1, RequestedGood
  <2>3. \/ Becomes(Goto(ResetKeepAliveInterval(ResetTimeoutPeriod(Client)), t, "awaiting"))
        \/ Becomes(CatchStart(Client, t))
    BY <1>3 DEF Requested
  <2>4. QED
    BY <2>2, <2>3, BecomesGood
<1>4. ASSUME NEW ok \in BOOLEAN, Pinged(t, ok)
      PROVE  ClientStep /\ (Stuck(Client') => Stuck(Client))
  <2>1. Client.task[t].pc = "pinging"
    BY <1>4, ClientFacts DEF Pinged
  <2>2. Good(Client, Succeeds(Client, t)) /\ Good(Client, CatchStart(Client, t))
    BY <1>0, <2>1, PingedGood
  <2>3. Becomes(Succeeds(Client, t)) \/ Becomes(CatchStart(Client, t))
    BY <1>4 DEF Pinged
  <2>4. QED
    BY <2>2, <2>3, BecomesGood
<1>5. CASE Retry(t)
  <2>1. Client.hub.delayed = t
    BY <1>5, ClientFacts DEF Retry
  <2>2. Client.hub.state = "Reconnecting"
        /\ Good(Client, StartInternal([Client EXCEPT !.hub.delayed = NoTask], t))
    BY <1>0, <2>1, RetryGood
  <2>3. Becomes(StartInternal([Client EXCEPT !.hub.delayed = NoTask], t))
    BY <1>5, <2>2, ClientFacts DEF Retry
  <2>4. QED
    BY <2>2, <2>3, BecomesGood
<1>6. QED
  BY <1>1, <1>2, <1>3, <1>4, <1>5

LEMMA HearingGood ==
  ASSUME TypeOK, ClientInv(Client), OrdinarySetups,
         \/ \E t \in Task : Answered(t)
         \/ \E m \in Message : Receive(m)
         \/ LinkCloses \/ ServerTimeout \/ PingTimer
  PROVE  ClientStep /\ (Stuck(Client') => Stuck(Client))
<1>0. Client \in ClientType
  BY ClientFacts
<1>c. ASSUME MayClose
      PROVE  /\ Quiet(Client) /\ (Client.hub.state = "Connected" => HasTask(Client))
             /\ \A t \in Task : Client.task[t].pc \notin {"requesting", "pinging"}
  <2>1. Idle /\ PingIsSent /\ (hub.state = "Connected" => HasTask(Client))
        /\ (setup.slowPosts \/ \A t \in Task : task[t].pc # "requesting")
    BY <1>c DEF MayClose
  <2>2. QED
    BY <2>1, ClientFacts, IdleFacts
<1>1. ASSUME NEW t \in Task, NEW m \in Message, Handshake(t, m)
      PROVE  ClientStep /\ (Stuck(Client') => Stuck(Client))
  <2>1. /\ Quiet(Client) /\ t = Client.hub.resolver /\ MaySend(Client)
        /\ Client.task[t].pc \in {"requesting", "awaiting"}
    BY <1>1, ClientFacts, IdleFacts DEF Handshake
  <2> DEFINE heard == [Client EXCEPT !.hub.timeout = FALSE, !.hub.answered = TRUE,
                                     !.task[t].handshake = "resolved"]
  <2>2. Good(Client, ResetTimeoutPeriod(ProcessMessage(heard, m)))
    BY <1>0, <2>1, HandshakeGood
  <2>3. Becomes(ResetTimeoutPeriod(ProcessMessage(heard, m)))
    BY <1>1 DEF Handshake
  <2> HIDE DEF heard
  <2>4. QED
    BY <2>2, <2>3, BecomesGood
<1>2. ASSUME NEW t \in Task, BadHandshake(t)
      PROVE  ClientStep /\ (Stuck(Client') => Stuck(Client))
  <2>1. /\ MayClose /\ t = Client.hub.resolver /\ Client.link.state = "up"
        /\ Client.task[t].pc \in {"requesting", "awaiting"}
        /\ Becomes(Closes([Client EXCEPT !.task[t].handshake = "rejected"], FALSE))
    BY <1>2, ClientFacts DEF BadHandshake, MaySend
  <2>2. Client.task[t].pc = "awaiting"
    BY <1>c, <2>1
  <2>3. Good(Client, Closes([Client EXCEPT !.task[t].handshake = "rejected"], FALSE))
    BY <1>0, <1>c, <2>1, <2>2, BadHandshakeGood
  <2>4. QED
    BY <2>1, <2>3, BecomesGood
<1>3. ASSUME NEW m \in Message, Receive(m)
      PROVE  ClientStep /\ (Stuck(Client') => Stuck(Client))
  <2>1. /\ Idle /\ MaySend(Client) /\ Client.hub.answered /\ (m = "ping" \/ PingIsSent)
        /\ Becomes(ResetTimeoutPeriod(ProcessMessage([Client EXCEPT !.hub.timeout = FALSE], m)))
    BY <1>3, ClientFacts DEF Receive
  <2>2. Quiet(Client) /\ (m # "ping" => \A t \in Task : Client.task[t].pc # "pinging")
    BY <2>1, IdleFacts
  <2>3. \A t \in Task : ~Left(Client, t) /\ Client.task[t].pc # "failing"
    BY <1>0, <2>2, QuietFacts DEF Quiet, Ready
  <2>4. \A t \in Task : Client.task[t].pc \in {"opening", "requesting", "awaiting"} =>
                          ~Pending(Client, t)
    BY <2>1 DEF ClientInv, WaitInv, WaitsWell
  <2>5. Good(Client, ResetTimeoutPeriod(ProcessMessage([Client EXCEPT !.hub.timeout = FALSE], m)))
    BY <1>0, <2>1, <2>2, <2>3, <2>4, ReceiveGood
  <2>6. QED
    BY <2>1, <2>5, BecomesGood
<1>4. CASE LinkCloses
  <2>1. MayClose /\ Client.link.state = "up" /\ Becomes(Closes(Client, FALSE))
    BY <1>4, ClientFacts DEF LinkCloses
  <2>2. Good(Client, Closes(Client, FALSE))
    BY <1>0, <1>c, <2>1, ClosesGood
  <2>3. QED
    BY <2>1, <2>2, BecomesGood
<1>5. CASE ServerTimeout
  <2>1. Client.hub.timeout /\ Becomes(StopLink([Client EXCEPT !.hub.timeout = FALSE]))
    BY <1>5, ClientFacts DEF ServerTimeout
  <2>2. Good(Client, StopLink([Client EXCEPT !.hub.timeout = FALSE]))
    BY <1>0, <2>1, ServerTimeoutGood
  <2>3. QED
    BY <2>1, <2>2, BecomesGood
<1>6. CASE PingTimer
  <2>1. /\ Idle /\ PingIsSent /\ Client.hub.ping = "set"
        /\ Becomes(IF Client.hub.state = "Connected" THEN CleanupPingTimer(Client)
                   ELSE [Client EXCEPT !.hub.ping = "fired"])
    BY <1>6, ClientFacts DEF PingTimer
  <2>2. /\ Client.hub.state = "Connected" => Good(Client, CleanupPingTimer(Client))
        /\ Client.hub.state # "Connected" => Good(Client, [Client EXCEPT !.hub.ping = "fired"])
    BY <1>0, <2>1, IdleFacts, PingTimerGood
  <2>3. QED
    BY <2>1, <2>2, BecomesGood
<1>7. QED
  BY <1>1, <1>2, <1>3, <1>4, <1>5, <1>6 DEF Answered

LEMMA StartStops ==
  ASSUME TypeOK, ClientInv(Client), OrdinarySetups
  PROVE  /\ Start => ClientStep /\ (Stuck(Client') => Stuck(Client))
         /\ \A s \in Stops : Stop(s) => /\ ClientStep /\ (Stuck(Client') => Stuck(Client))
                                        /\ Client'.hub.state \in {"Disconnected", "Disconnecting"}
         /\ \A s \in Stops : LinkClosesAndStops(s) => ClientStep
<1>0. Client \in ClientType
  BY ClientFacts
<1>1. ASSUME Start
      PROVE  ClientStep /\ (Stuck(Client') => Stuck(Client))
  <2>1. /\ Quiet(Client) /\ (Client.hub.state = "Disconnected" => HasTask(Client))
        /\ Becomes(StartCall(Client))
    BY <1>1, ClientFacts, IdleFacts DEF Start
  <2>2. Good(Client, StartCall(Client))
    BY <1>0, <2>1, StartGood
  <2>3. QED
    BY <2>1, <2>2, BecomesGood
<1>2. ASSUME NEW s \in Stops, Stop(s)
      PROVE  /\ ClientStep /\ (Stuck(Client') => Stuck(Client))
             /\ Client'.hub.state \in {"Disconnected", "Disconnecting"}
  <2>1. /\ Quiet(Client) /\ \A t \in Task : Client.task[t].pc # "pinging"
        /\ Becomes(StopInternal(Client)) /\ setup.app # "page"
    BY <1>2, IdleFacts DEF Stop, Calls
  <2>2. ~RestartsInside
    BY <2>1 DEF OrdinarySetups, TypeOK, RestartsInside
  <2>3. /\ \A t \in Task : ~Left(Client, t) /\ Client.task[t].pc \notin {"pinging", "failing"}
        /\ Client.hub.delayed = NoTask
             /\ Client.hub.state \in {"Connecting", "Connected", "Reconnecting"}
             => Client.link.state # "off"
    BY <1>0, <2>1, QuietFacts DEF Quiet, Ready
  <2>4. Good(Client, StopInternal(Client))
    BY <1>0, <2>2, <2>3, StopInternalGood
  <2>5. StopInternal(Client).hub.state \in {"Disconnected", "Disconnecting"}
    BY <1>0, <2>2, StopLeads
  <2>6. ClientStep /\ (Stuck(Client') => Stuck(Client)) /\ Client' = StopInternal(Client)
    BY <2>1, <2>4, BecomesGood
  <2>7. QED
    BY <2>5, <2>6
<1>3. ASSUME NEW s \in Stops, LinkClosesAndStops(s)
      PROVE  ClientStep
  <2>1. /\ MayClose /\ Client.link.state = "up" /\ Client.hub.state = "Connected" /\ Retries > 0
        /\ Becomes(Closes(Client, TRUE))
    BY <1>3, ClientFacts DEF LinkClosesAndStops
  <2>2. /\ Quiet(Client) /\ HasTask(Client)
        /\ \A t \in Task : Client.task[t].pc \notin {"requesting", "pinging"}
    BY <2>1, ClientFacts, IdleFacts DEF MayClose
  <2>3. PICK d \in ClientType : d = Closes(Client, TRUE) /\ ClientInv(d) /\ Follows(Client, d)
                                /\ d.hub.tasks >= Client.hub.tasks
    BY <1>0, <2>1, <2>2, ClosesGood
  <2>4. Client' = d
    BY <2>1, <2>3, BecomesFacts
  <2>5. QED
    BY <2>3, <2>4 DEF ClientStep
<1>4. QED
  BY <1>1, <1>2, <1>3

\* What a step does to the client, and to the calls of stop().
LEMMA StepFacts ==
  ASSUME HubInv, OrdinarySetups, Next
  PROVE  /\ ClientStep /\ setup' = setup
         /\ \/ call' = call /\ (Stuck(Client') => Stuck(Client))
            \/ Client' = Client /\ \E s \in Stops : StopGoesOn(s)
            \/ \E s \in Stops : /\ Calls(s, FALSE) /\ (Stuck(Client') => Stuck(Client))
                                /\ Client'.hub.state \in {"Disconnected", "Disconnecting"}
            \/ \E s \in Stops : Calls(s, TRUE)
<1>0. TypeOK /\ ClientInv(Client) /\ Client \in ClientType
  BY ClientFacts DEF HubInv
<1>1. CASE \E t \in Task : GoesOn(t)
  <2>1. call' = call /\ setup' = setup
    BY <1>1 DEF GoesOn, Throws, AfterHandshake
  <2>2. QED
    BY <1>0, <1>1, <2>1, TasksGoOnGood
<1>2. CASE \E s \in Stops : StopGoesOn(s)
  <2>1. Client' = Client /\ setup' = setup
    BY <1>2 DEF StopGoesOn, Client
  <2>2. ClientStep
    <3>1. Follows(Client, Client)
      BY DEF Follows
    <3>2. Client.hub.tasks >= Client.hub.tasks
      BY <1>0, MaxTasksAssumption, Fields DEF HubType
    <3>3. QED
      BY <1>0, <2>1, <3>1, <3>2 DEF ClientStep
  <2>3. QED
    BY <1>2, <2>1, <2>2
<1>3. CASE Start
  BY <1>0, <1>3, StartStops DEF Start
<1>4. CASE \E s \in Stops : Stop(s)
  BY <1>0, <1>4, StartStops DEF Stop
<1>5. ASSUME NEW t \in Task,
             \/ OpenFails(t) \/ \E transport \in setup.transports : Opens(t, transport)
             \/ \E ok \in BOOLEAN : Requested(t, ok) \/ Pinged(t, ok)
             \/ Retry(t)
      PROVE  ClientStep /\ setup' = setup /\ call' = call /\ (Stuck(Client') => Stuck(Client))
  <2>1. call' = call /\ setup' = setup
    BY <1>5 DEF OpenFails, Opens, Requested, Pinged, Retry
  <2>2. ClientStep /\ (Stuck(Client') => Stuck(Client))
    BY <1>0, <1>5, OpeningGood
  <2>3. QED
    BY <2>1, <2>2
<1>6. ASSUME \/ \E t \in Task : Answered(t)
             \/ \E m \in Message : Receive(m)
             \/ LinkCloses \/ ServerTimeout \/ PingTimer
      PROVE  ClientStep /\ setup' = setup /\ call' = call /\ (Stuck(Client') => Stuck(Client))
  <2>1. call' = call /\ setup' = setup
    BY <1>6 DEF Answered, BadHandshake, Handshake, Receive, LinkCloses, ServerTimeout, PingTimer
  <2>2. ClientStep /\ (Stuck(Client') => Stuck(Client))
    BY <1>0, <1>6, HearingGood
  <2>3. QED
    BY <2>1, <2>2
<1>7. CASE \E s \in Stops : LinkClosesAndStops(s)
  BY <1>0, <1>7, StartStops DEF LinkClosesAndStops
<1>8. QED
  BY <1>1, <1>2, <1>3, <1>4, <1>5, <1>6, <1>7 DEF Next

\* The invariant of the client does not read its other variables but setup.
LEMMA ClientInvKept ==
  ASSUME ClientInv(Client'), setup' = setup
  PROVE  ClientInv(Client)'
<1>1. TaskInv(Client)'
  BY DEF ClientInv, TaskInv, Left, Current, Alive, Ready, Pending
<1>2. StateInv(Client)'
  BY DEF ClientInv, StateInv, Left, Current, Alive, Watched
<1>3. WaitInv(Client)'
  BY DEF ClientInv, WaitInv, WaitsWell, Left, Current, Alive, Pending, Watched, PageStopped,
     RestartsInside
<1>4. TimerInv(Client)'
  BY DEF ClientInv, TimerInv
<1>5. QED
  BY <1>1, <1>2, <1>3, <1>4 DEF ClientInv

LEMMA CallsTyped ==
  ASSUME HubInv, Client' \in ClientType,
         \/ call' = call
         \/ \E s \in Stops : StopGoesOn(s)
         \/ \E s \in Stops, inside \in BOOLEAN : Calls(s, inside)
  PROVE  call' \in [Stops -> [pc : {"none", "stopping", "starting", "done"},
                              awaits : 0 .. MaxTasks, after : 0 .. MaxTasks, inside : BOOLEAN]]
<1>1. hub.startPromise \in 0 .. MaxTasks /\ hub.tasks' \in 0 .. MaxTasks
  BY Fields DEF HubInv, TypeOK, HubType, Client
<1>2. CASE call' = call
  BY <1>2 DEF HubInv, TypeOK
<1>3. ASSUME NEW s \in Stops, StopGoesOn(s)
      PROVE  call' \in [Stops -> [pc : {"none", "stopping", "starting", "done"},
                                  awaits : 0 .. MaxTasks, after : 0 .. MaxTasks, inside : BOOLEAN]]
  BY <1>3 DEF StopGoesOn, HubInv, TypeOK
<1>4. ASSUME NEW s \in Stops, NEW inside \in BOOLEAN, Calls(s, inside)
      PROVE  call' \in [Stops -> [pc : {"none", "stopping", "starting", "done"},
                                  awaits : 0 .. MaxTasks, after : 0 .. MaxTasks, inside : BOOLEAN]]
  BY <1>1, <1>4 DEF Calls, HubInv, TypeOK
<1>5. QED
  BY <1>2, <1>3, <1>4

\* A stop that was called sees the hub disconnected, or a start after it, for good.
LEMMA CallInvKept ==
  ASSUME HubInv, ClientStep,
         \/ call' = call /\ (Stuck(Client') => Stuck(Client))
         \/ Client' = Client /\ \E s \in Stops : StopGoesOn(s)
         \/ \E s \in Stops : /\ Calls(s, FALSE) /\ (Stuck(Client') => Stuck(Client))
                             /\ Client'.hub.state \in {"Disconnected", "Disconnecting"}
         \/ \E s \in Stops : Calls(s, TRUE)
  PROVE  CallInv'
<1>0. /\ Client = [hub |-> hub, task |-> task, link |-> link]
      /\ Client' = [hub |-> hub', task |-> task', link |-> link']
      /\ hub.tasks \in Nat /\ hub'.tasks \in Nat /\ hub'.tasks >= hub.tasks
      /\ \A s \in Stops : call[s].after \in Nat
      /\ call \in [Stops -> [pc : {"none", "stopping", "starting", "done"},
                             awaits : 0 .. MaxTasks, after : 0 .. MaxTasks, inside : BOOLEAN]]
  <2>1. Client' = [hub |-> hub', task |-> task', link |-> link']
    BY DEF Client
  <2>2. hub'.tasks \in Nat /\ hub'.tasks >= hub.tasks
    BY <2>1, MaxTasksAssumption, Fields DEF ClientStep, HubType, Client
  <2>3. hub.tasks \in Nat /\ \A s \in Stops : call[s].after \in Nat
    BY MaxTasksAssumption DEF HubInv, TypeOK
  <2>4. QED
    BY <2>1, <2>2, <2>3 DEF Client, HubInv, TypeOK
<1>1. ASSUME NEW s \in Stops, call[s].after <= hub.tasks,
             hub.state = "Disconnected" \/ hub.tasks > call[s].after \/ hub.state = "Disconnecting"
      PROVE  \/ hub'.state = "Disconnected" \/ hub'.tasks > call[s].after
             \/ hub.state = "Disconnecting" /\ hub'.state = "Disconnecting"
  <2>1. call[s].after \in Nat
    BY <1>0
  <2>2. CASE hub.tasks > call[s].after
    BY <1>0, <2>1, <2>2
  <2>3. CASE hub.state = "Disconnected"
    <3>1. hub'.state = "Disconnected" \/ hub'.tasks > hub.tasks
      <4>1. ~hub.started
        BY <2>3, <1>0 DEF HubInv, ClientInv, StateInv
      <4>2. QED
        BY <1>0, <2>3, <4>1 DEF ClientStep, Follows
    <3>2. QED
      BY <1>0, <1>1, <2>1, <3>1
  <2>4. CASE hub.state = "Disconnecting"
    <3>1. hub'.state \in {"Disconnected", "Disconnecting"} \/ hub'.tasks > hub.tasks
      BY <1>0, <2>4 DEF ClientStep, Follows
    <3>2. QED
      BY <1>0, <1>1, <2>1, <2>4, <3>1
  <2>5. QED
    BY <1>1, <2>2, <2>3, <2>4
<1>2. Stuck(Client)' <=> Stuck(Client')
  BY DEF Stuck, Ready, Pending
<1>w. ASSUME NEW s \in Stops, call'[s] = call[s], Inside => Inside'
      PROVE  CallWell(s)'
  <2>1. CallWell(s)
    BY DEF HubInv, CallInv
  <2>2. call[s].pc # "none" => call[s].after <= hub'.tasks
    BY <1>0, <2>1 DEF CallWell
  <2>3. call[s].pc # "none" /\ Terminated(s) => Terminated(s)'
    <3>1. ASSUME call[s].pc # "none", Terminated(s)
          PROVE  hub'.state = "Disconnected" \/ hub'.tasks > call[s].after
      <4>1. hub.state = "Disconnected" \/ hub.tasks > call[s].after
        BY <3>1 DEF Terminated
      <4>2. CASE hub.tasks > call[s].after
        BY <1>0, <4>2
      <4>3. CASE hub.state = "Disconnected"
        BY <1>1, <2>1, <3>1, <4>3 DEF CallWell
      <4>4. QED
        BY <4>1, <4>2, <4>3
    <3>2. QED
      BY <1>w, <3>1 DEF Terminated
  <2>4. call[s].pc # "none" /\ hub.state = "Disconnecting" =>
          Terminated(s)' \/ hub'.state = "Disconnecting"
    BY <1>1, <1>w, <2>1 DEF Terminated, CallWell
  <2>5. QED
    BY <1>w, <2>1, <2>2, <2>3, <2>4 DEF CallWell
<1>3. CASE call' = call /\ (Stuck(Client') => Stuck(Client))
  <2>1. Inside => Inside'
    BY <1>3 DEF Inside
  <2>2. Stuck(Client)' => Inside'
    BY <1>2, <1>3, <2>1 DEF HubInv, CallInv
  <2>3. \A s \in Stops : CallWell(s)'
    BY <1>3, <1>w, <2>1
  <2>4. QED
    BY <2>2, <2>3 DEF CallInv
<1>4. CASE Client' = Client /\ \E s \in Stops : StopGoesOn(s)
  <2>1. PICK s \in Stops : StopGoesOn(s)
    BY <1>4
  <2>2. /\ \A t \in Task : ~CanGoOn(t)
        /\ CanReturn(s) /\ hub' = hub /\ task' = task /\ link' = link
        /\ call' = [call EXCEPT ![s] = [call[s] EXCEPT
             !.pc = IF call[s].pc = "stopping" THEN "starting" ELSE "done"]]
    BY <2>1 DEF StopGoesOn
  <2>3. /\ \A r \in Stops : call'[r].inside = call[r].inside /\ (r # s => call'[r] = call[r])
        /\ call'[s].after = call[s].after
        /\ call'[s].pc = IF call[s].pc = "stopping" THEN "starting" ELSE "done"
    BY <1>0, <2>2
  <2>4. Inside <=> Inside'
    BY <2>3 DEF Inside
  <2>5. Terminated(s)' <=> Terminated(s)
    BY <2>2, <2>3 DEF Terminated
  <2>6. call[s].pc = "stopping" => Terminated(s) \/ Inside
    <3>1. ASSUME call[s].pc = "stopping", hub.state = "Disconnecting"
          PROVE  Inside
      <4>1. ~hub.stopPending
        BY <2>2, <3>1 DEF CanReturn
      <4>2. link.state = "off"
        BY <1>0, <3>1, <4>1 DEF HubInv, ClientInv, StateInv
      <4>3. Stuck(Client)
        BY <1>0, <2>2, <3>1, <4>2 DEF Stuck, Ready, Pending, CanGoOn
      <4>4. QED
        BY <4>3 DEF HubInv, CallInv
    <3>2. QED
      BY <3>1 DEF HubInv, CallInv, CallWell
  <2>7. Stuck(Client)' => Inside'
    BY <1>2, <1>4, <2>4 DEF HubInv, CallInv
  <2>8. CallWell(s)'
    <3>1. call[s].pc # "none" /\ CallWell(s)
      BY <2>2 DEF CanReturn, HubInv, CallInv
    <3>2. QED
      BY <2>2, <2>3, <2>4, <2>5, <2>6, <3>1 DEF CallWell
  <2>9. \A r \in Stops : CallWell(r)'
    BY <1>w, <2>3, <2>4, <2>8
  <2>10. QED
    BY <2>7, <2>9 DEF CallInv
<1>5. ASSUME NEW s \in Stops, NEW inside \in BOOLEAN, Calls(s, inside),
             inside \/ (Stuck(Client') => Stuck(Client)),
             inside \/ Client'.hub.state \in {"Disconnected", "Disconnecting"}
      PROVE  CallInv'
  <2>1. /\ call[s].pc = "none"
        /\ call' = [call EXCEPT ![s] = [pc |-> "stopping", awaits |-> hub.startPromise,
                                        after |-> hub'.tasks, inside |-> inside]]
    BY <1>5 DEF Calls
  <2>2. /\ call'[s] = [pc |-> "stopping", awaits |-> hub.startPromise,
                       after |-> hub'.tasks, inside |-> inside]
        /\ \A r \in Stops : r # s => call'[r] = call[r]
    BY <1>0, <2>1
  <2>3. Inside => Inside'
    BY <2>1, <2>2 DEF Inside, HubInv, CallInv, CallWell
  <2>4. inside => Inside'
    BY <2>2 DEF Inside
  <2>5. Stuck(Client)' => Inside'
    BY <1>2, <1>5, <2>3, <2>4 DEF HubInv, CallInv
  <2>6. CallWell(s)'
    BY <1>0, <1>5, <2>2, <2>4 DEF CallWell, Terminated
  <2>7. \A r \in Stops : CallWell(r)'
    BY <1>w, <2>2, <2>3, <2>6
  <2>8. QED
    BY <2>5, <2>7 DEF CallInv
<1>6. QED
  BY <1>3, <1>4, <1>5

LEMMA InitInv == Init => HubInv
<1> SUFFICES ASSUME Init PROVE HubInv
  OBVIOUS
<1>1. NoTask \in 0 .. MaxTasks /\ 0 \in 0 .. MaxTasks /\ 0 \in 0 .. Retries /\ 0 \in Nat
  BY MaxTasksAssumption, RetriesAssumption DEF NoTask
<1>2. NewTask \in TaskType
  BY <1>1 DEF NewTask, TaskType, PC
<1>3. TypeOK
  BY <1>1, <1>2 DEF Init, TypeOK, HubConnectionState, TaskType
<1>4. /\ Client.hub = hub /\ Client.task = task /\ Client.link = link
      /\ \A t \in Task : Client.task[t] = NewTask /\ ~Alive(Client, t) /\ t > 0
  <2>1. \A t \in Task : Client.task[t] = NewTask /\ t > 0
    BY DEF Client, Init, Task
  <2>2. QED
    BY <2>1 DEF Client, Alive, NewTask
<1>5. TaskInv(Client)
  BY <1>4 DEF Init, TaskInv, Left, Current
<1>6. StateInv(Client)
  BY <1>4 DEF Init, StateInv, Current
<1>7. WaitInv(Client)
  BY <1>4, Numbers DEF Init, WaitInv, WaitsWell, NewTask
<1>8. TimerInv(Client) /\ ~Stuck(Client)
  BY <1>4 DEF Init, TimerInv, Stuck
<1>9. CallInv
  BY <1>8 DEF Init, CallInv, CallWell
<1>10. QED
  BY <1>3, <1>5, <1>6, <1>7, <1>8, <1>9 DEF HubInv, ClientInv

LEMMA StepInv ==
  ASSUME OrdinarySetups
  PROVE  HubInv /\ [Next]_vars => HubInv'
<1> SUFFICES ASSUME HubInv, [Next]_vars PROVE HubInv'
  OBVIOUS
<1>1. CASE Next
  <2>1. /\ ClientStep /\ setup' = setup
        /\ \/ call' = call /\ (Stuck(Client') => Stuck(Client))
           \/ Client' = Client /\ \E s \in Stops : StopGoesOn(s)
           \/ \E s \in Stops : /\ Calls(s, FALSE) /\ (Stuck(Client') => Stuck(Client))
                               /\ Client'.hub.state \in {"Disconnected", "Disconnecting"}
           \/ \E s \in Stops : Calls(s, TRUE)
    BY <1>1, StepFacts
  <2>2. Client' \in ClientType /\ ClientInv(Client)'
    BY <2>1, ClientInvKept DEF ClientStep
  <2>3. call' \in [Stops -> [pc : {"none", "stopping", "starting", "done"},
                             awaits : 0 .. MaxTasks, after : 0 .. MaxTasks, inside : BOOLEAN]]
    BY <2>1, <2>2, CallsTyped
  <2>4. TypeOK'
    <3>1. hub' \in HubType /\ task' \in [Task -> TaskType] /\ link' \in LinkType
      BY <2>2, Fields DEF Client
    <3>2. setup' \in Setups
      BY <2>1 DEF HubInv, TypeOK
    <3>3. QED
      BY <2>3, <3>1, <3>2 DEF TypeOK, HubType, TaskType, LinkType
  <2>5. CallInv'
    BY <2>1, CallInvKept
  <2>6. QED
    BY <2>2, <2>4, <2>5 DEF HubInv
<1>2. CASE UNCHANGED vars
  <2>1. TypeOK'
    BY <1>2 DEF HubInv, TypeOK, vars
  <2>2. Client' = Client /\ setup' = setup /\ call' = call /\ hub' = hub
    BY <1>2 DEF vars, Client
  <2>3. ClientInv(Client)'
    BY <2>2, ClientInvKept DEF HubInv
  <2>4. CallInv'
    BY <2>2 DEF HubInv, CallInv, CallWell, Stuck, Ready, Pending, Inside, Terminated
  <2>5. QED
    BY <2>1, <2>3, <2>4 DEF HubInv
<1>3. QED
  BY <1>1, <1>2

\* HubInv is inductive: the hub, its tasks and the connection agree in every state.
THEOREM HubInvariant ==
  ASSUME OrdinarySetups
  PROVE  Spec => []HubInv
<1>1. Init => HubInv
  BY InitInv
<1>2. HubInv /\ [Next]_vars => HubInv'
  BY StepInv
<1>3. QED
  BY <1>1, <1>2, PTL DEF Spec

THEOREM HubTypeCorrect ==
  ASSUME OrdinarySetups
  PROVE  Spec => []TypeOK
<1>1. HubInv => TypeOK
  BY DEF HubInv
<1>2. QED
  BY <1>1, HubInvariant, PTL

\* ConnectedIsWatched, for any number of tasks, calls of stop() and retries.
THEOREM ConnectedHubIsWatched ==
  ASSUME OrdinarySetups
  PROVE  Spec => []ConnectedIsWatched
<1>1. HubInv => ConnectedIsWatched
  <2>1. SUFFICES ASSUME HubInv, hub.state = "Connected" PROVE
          /\ link.state = "up"
          /\ link.stopping \/ link.inherentKeepAlive
               \/ (hub.timeout /\ hub.ping \in {"none", "set"})
    BY DEF ConnectedIsWatched
  <2>2. Client.link.state = "up" /\ Watched(Client) /\ Client.hub.ping \in {"none", "set", "fired"}
    BY <2>1, ClientFacts, Fields DEF HubInv, ClientInv, StateInv, HubType
  <2>3. QED
    BY <2>1, <2>2, ClientFacts DEF Watched, HubInv
<1>2. QED
  BY <1>1, HubInvariant, PTL

\* NothingLeftOver: at most one task waits, and none at all while the hub is disconnected.
THEOREM NothingIsLeftOver ==
  ASSUME OrdinarySetups
  PROVE  Spec => []NothingLeftOver
<1>1. HubInv => NothingLeftOver
  <2>1. SUFFICES ASSUME HubInv, Idle PROVE
          /\ Cardinality({t \in Task : task[t].pc \in Waiting}) <= 1
          /\ hub.state = "Disconnected" =>
               /\ link.state = "off" /\ ~hub.timeout /\ hub.ping = "none" /\ hub.delayed = NoTask
               /\ \A t \in Task : task[t].pc \in Ended \cup {"new"}
    BY DEF NothingLeftOver
  <2>2. /\ Client \in ClientType /\ ClientInv(Client)
        /\ Client.hub = hub /\ Client.task = task /\ Client.link = link
    BY <2>1, ClientFacts DEF HubInv
  <2>3. Quiet(Client)
    BY <2>1, <2>2 DEF Idle, CanGoOn, Quiet, Ready, Pending
  <2>4. \A t \in Task : task[t].pc \in Waiting => Current(Client, t)
    BY <2>2, <2>3, QuietFacts DEF Current, Alive, Waiting, Ended
  <2>5. Cardinality({t \in Task : task[t].pc \in Waiting}) <= 1
    <3>1. CASE \A t \in Task : task[t].pc \notin Waiting
      <4>1. {t \in Task : task[t].pc \in Waiting} = {}
        BY <3>1
      <4>2. QED
        BY <4>1, FS_EmptySet
    <3>2. CASE \E t \in Task : task[t].pc \in Waiting
      <4>1. PICK t \in Task : task[t].pc \in Waiting
        BY <3>2
      <4>2. {u \in Task : task[u].pc \in Waiting} \subseteq {t}
        BY <2>2, <2>4, <4>1 DEF ClientInv, TaskInv
      <4>3. IsFiniteSet({t}) /\ Cardinality({t}) = 1
        BY FS_Singleton
      <4>4. /\ IsFiniteSet({u \in Task : task[u].pc \in Waiting})
            /\ Cardinality({u \in Task : task[u].pc \in Waiting}) <= Cardinality({t})
        BY <4>2, <4>3, FS_Subset
      <4>5. QED
        BY <4>3, <4>4
    <3>3. QED
      BY <3>1, <3>2
  <2>6. ASSUME hub.state = "Disconnected"
        PROVE  /\ link.state = "off" /\ ~hub.timeout /\ hub.ping = "none" /\ hub.delayed = NoTask
               /\ \A t \in Task : task[t].pc \in Ended \cup {"new"}
    <3>1. \A t \in Task : task[t].pc \in Ended \cup {"new"}
      BY <2>2, <2>3, <2>6, QuietFacts DEF Alive
    <3>2. link.state = "off" /\ ~hub.timeout /\ hub.ping = "none"
      BY <2>2, <2>6 DEF ClientInv, StateInv, TimerInv
    <3>3. hub.delayed = NoTask
      <4>1. \A t \in Task : hub.delayed # t
        BY <2>2, <3>1 DEF Ended, ClientInv, WaitInv, WaitsWell
      <4>2. hub.delayed \in 0 .. MaxTasks
        BY <2>2, Fields DEF HubType
      <4>3. QED
        BY <4>1, <4>2, MaxTasksAssumption DEF Task, NoTask
    <3>4. QED
      BY <3>1, <3>2, <3>3
  <2>7. QED
    BY <2>5, <2>6
<1>2. QED
  BY <1>1, HubInvariant, PTL

\* StopDisconnects: a call of stop() that returns left the hub disconnected, or started
\* again since, unless a stop() was called inside onreconnecting.
THEOREM StopsDisconnect ==
  ASSUME OrdinarySetups
  PROVE  Spec => StopDisconnects
<1>1. HubInv => \A s \in Stops : call[s].pc = "starting" /\ call'[s].pc = "done" =>
                  Terminated(s) \/ \E r \in Stops : call[r].inside
  BY DEF HubInv, CallInv, CallWell, Inside
<1>2. HubInv /\ [Next]_vars =>
        [\A s \in Stops : call[s].pc = "starting" /\ call'[s].pc = "done" =>
           Terminated(s) \/ \E r \in Stops : call[r].inside]_vars
  BY <1>1
<1>3. QED
  BY <1>2, HubInvariant, PTL DEF Spec, StopDisconnects

\* Every step shows the application a step of HubLifecycle, or none.
LEMMA StepFollows ==
  ASSUME HubInv, OrdinarySetups, [Next]_vars
  PROVE  [Lifecycle!Next]_(Lifecycle!vars)
<1>1. CASE UNCHANGED vars
  BY <1>1 DEF vars, Lifecycle!vars
<1>2. CASE Next
  <2>1. Follows(Client, Client') /\ Client' \in ClientType
    BY <1>2, StepFacts DEF ClientStep
  <2>2. Client.hub = hub /\ Client'.hub = hub'
    BY DEF Client
  <2>3. hub'.started \in BOOLEAN /\ hub.started \in BOOLEAN
    BY <2>1, <2>2, Fields DEF HubType, HubInv, TypeOK
  <2>4. QED
    BY <2>1, <2>2, <2>3
    DEF Follows, Lifecycle!Next, Lifecycle!vars, Lifecycle!Start, Lifecycle!StartFails,
        Lifecycle!Established, Lifecycle!Reconnecting, Lifecycle!Reconnected, Lifecycle!Stop,
        Lifecycle!Closed, Lifecycle!Become
<1>3. QED
  BY <1>1, <1>2

\* HubConnection implements HubLifecycle.
THEOREM FollowsLifecycle ==
  ASSUME OrdinarySetups
  PROVE  Spec => ImplementsLifecycle
<1>1. Init => Lifecycle!Init
  BY DEF Init, Lifecycle!Init
<1>2. HubInv /\ [Next]_vars => [Lifecycle!Next]_(Lifecycle!vars)
  BY StepFollows
<1>3. QED
  BY <1>1, <1>2, HubInvariant, PTL DEF Spec, ImplementsLifecycle, Lifecycle!Spec
====

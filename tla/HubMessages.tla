----------------------------- MODULE HubMessages -----------------------------
(***************************************************************************)
(* What goes over a connection of signalr.js once it is established: the   *)
(* calls of the page (send, invoke, stream), the streams it uploads, the   *)
(* answers, the server's calls of the page's methods, and TransportSendQueue*)
(* through which all of it is sent.  The connection may close and come back.*)
(*                                                                         *)
(* An action is what the one thread runs without a pause.  What waits      *)
(* behind an await goes on before the next event from outside; the page    *)
(* itself may do more before that, in the turn it is in.                   *)
(***************************************************************************)
EXTENDS Integers, Sequences

CONSTANTS
  MaxLives,    \* bound: connections, one after the other
  MaxItems,    \* bound: items of a stream that the server sends
  MaxCalls,    \* bound: calls of the page
  MaxAsks,     \* bound: the server's calls of the client method
  MaxMethods,  \* bound: handlers registered for the client method
  Setups       \* the calls of the page and what the server and the network do

Kind == {"send", "invoke", "stream"}

\* calls: kind and length of the upload of each call of the page, in their order;
\* posts: the transport posts instead of writing to a socket; asks: calls of the
\* client method; expects: do these want a result
Setup(s) ==
  /\ s.calls \in Seq([kind : Kind, upload : Nat])
  /\ Len(s.calls) <= MaxCalls
  /\ s.posts \in BOOLEAN /\ s.asks \in 0 .. MaxAsks /\ s.expects \in BOOLEAN

ASSUME BoundsAssumption ==
  {MaxItems, MaxCalls, MaxAsks} \subseteq Nat /\ {MaxLives, MaxMethods} \subseteq Nat \ {0}
ASSUME SetupsAssumption == \A s \in Setups : Setup(s)

VARIABLES
  hub,      \* HubConnection, and HttpConnection as far as messages need it
  call,     \* the calls of the page
  queue,    \* TransportSendQueue, one for each connection
  net,      \* messages in transit on the present connection
  server,   \* what the server knows of the calls
  ask,      \* the server's calls of the client method
  setup

vars == <<hub, call, queue, net, server, ask, setup>>

Calls == DOMAIN setup.calls
Asks == 1 .. setup.asks
Life == 1 .. MaxLives
NoId == -1                       \* a send has no invocation id
Id == NoId .. 2 * Len(setup.calls)
NoCall == 0

KindOf(c) == setup.calls[c].kind

\* What is pushed to the stream that a call uploads: its items, then its completion.
Upload(c) == IF setup.calls[c].upload = 0 THEN 0 ELSE setup.calls[c].upload + 1

\* What the observer of a stream is told.
Item(n) == <<"item", n>>
Completed == <<"complete", 0>>
Failed == <<"error", 0>>
End == {Completed, Failed}
Notice == {Item(n) : n \in 1 .. MaxItems} \cup End

\* of is the call or the ask that a message is about; the code has its id only.
Message == [type : {"Invocation", "CancelInvocation", "StreamItem", "Completion", "Reply"},
            of : Nat, id : Int, n : Nat]

Init ==
  /\ hub = [connected |-> TRUE, life |-> 1, nextId |-> 0,
            callbacks |-> {},           \* pairs of an id and the call it stands for
            methods |-> 1]              \* handlers in _methods
  /\ setup \in Setups
  /\ call = [c \in Calls |-> [made |-> FALSE, id |-> 0,
                              outcome |-> "pending",     \* of the promise
                              seen |-> <<>>,             \* by the observer of a stream
                              sent |-> FALSE,            \* did its send settle
                              chain |-> "waiting",       \* promiseQueue of _launchStreams
                              pushed |-> 0, chained |-> 0,
                              cancel |-> "no"]]
  /\ queue = [l \in Life |-> [buffer |-> <<>>, flight |-> <<>>, executing |-> TRUE,
                              ended |-> FALSE]]
  /\ net = [up |-> <<>>, down |-> <<>>]
  /\ server = [c \in Calls |-> [state |-> "no", id |-> 0, items |-> 0, heard |-> <<>>]]
  /\ ask = [a \in Asks |-> [pc |-> "no", left |-> 0, res |-> FALSE, threw |-> FALSE,
                            several |-> FALSE, replies |-> <<>>]]

TypeOK ==
  /\ hub \in [connected : BOOLEAN, life : Life, nextId : Nat,
              callbacks : SUBSET (Id \X Calls), methods : 0 .. MaxMethods]
  /\ call \in [Calls -> [made : BOOLEAN, id : Id, outcome : {"pending", "resolved", "rejected"},
                         seen : Seq(Notice),
                         sent : BOOLEAN, chain : {"waiting", "ready", "broken"},
                         pushed : Nat, chained : Nat, cancel : {"no", "wanted", "sent"}]]
  /\ queue \in [Life -> [buffer : Seq(Message), flight : Seq(Message), executing : BOOLEAN,
                         ended : BOOLEAN]]
  /\ net \in [up : Seq(Message), down : Seq(Message)]
  /\ server \in [Calls -> [state : {"no", "running", "done"}, id : Id, items : 0 .. MaxItems,
                           heard : Seq(Life \X Nat)]]
  /\ ask \in [Asks -> [pc : {"no", "coming", "running", "done"}, left : 0 .. MaxMethods,
                       res : BOOLEAN, threw : BOOLEAN, several : BOOLEAN,
                       replies : Seq({"result", "several", "threw", "none"})]]
  /\ setup \in Setups

-----------------------------------------------------------------------------
(* Sending.  c holds hub, call and queue.                                  *)

Client == [hub |-> hub, call |-> call, queue |-> queue]
Becomes(c) == hub' = c.hub /\ call' = c.call /\ queue' = c.queue

Has(batch, type, c) == \E i \in DOMAIN batch : batch[i].type = type /\ batch[i].of = c

\* The calls of a batch that failed whose callbacks are deleted.
NoneLost(c, batch, ok) == {}   \* mutant: no callback is deleted
Lost(c, batch, ok) ==
  {x \in Calls : ~ok /\ Has(batch, "Invocation", x) /\ KindOf(x) # "send"}

\* A call whose messages in a batch were sent or lost: a lost one is rejected; the
\* promise its chain follows stays rejected in send(), in invoke() and stream() it
\* was caught.
AfterSend(r, x, batch, ok) ==
  LET called == Has(batch, "Invocation", x)
      uploaded == Has(batch, "StreamItem", x) \/ Has(batch, "Completion", x)
  IN [r EXCEPT
       !.sent = @ \/ called,
       !.chain = IF uploaded \/ (called /\ KindOf(x) = "send")
                 THEN (IF ok THEN "ready" ELSE "broken")
                 ELSE IF called THEN "ready" ELSE @,
       !.outcome = CASE ~called \/ @ # "pending" -> @
                     [] called /\ @ = "pending" /\ KindOf(x) = "send" ->
                          IF ok THEN "resolved" ELSE "rejected"
                     [] OTHER -> IF ok \/ KindOf(x) = "stream" THEN @ ELSE "rejected",
       !.seen = IF ~ok /\ called /\ KindOf(x) = "stream" /\ r.cancel = "no"
                THEN Append(@, Failed) ELSE @]

\* The promise of a batch settles, and with it what waited for the send of each of
\* its messages; the callback of a lost call is deleted.
Settle(c, batch, ok) ==
  LET lost == Lost(c, batch, ok)
  IN [hub |-> [c.hub EXCEPT !.callbacks = {p \in @ : \A x \in lost : p[1] # c.call[x].id}],
      call |-> [x \in Calls |-> AfterSend(c.call[x], x, batch, ok)],
      queue |-> c.queue]

\* TransportSendQueue.send
Enqueue(c, m) == [c EXCEPT !.queue[c.hub.life].buffer = Append(@, m)]

\* _sendWithProtocol: HttpConnection.send rejects unless it is connected.
Send(c, m) == IF c.hub.connected THEN Enqueue(c, m) ELSE Settle(c, <<m>>, FALSE)

\* _cancelCallbacksWithError
AfterCancel(r, x) ==
  IF KindOf(x) = "stream" THEN [r EXCEPT !.seen = Append(@, Failed)]
  ELSE [r EXCEPT !.outcome = IF @ = "pending" THEN "rejected" ELSE @]

CancelCallbacks(c) ==
  LET told == {p[2] : p \in c.hub.callbacks}
  IN [hub |-> [c.hub EXCEPT !.callbacks = {}],
      call |-> [x \in Calls |-> IF x \in told THEN AfterCancel(c.call[x], x) ELSE c.call[x]],
      queue |-> c.queue]

-----------------------------------------------------------------------------
(* What goes on by itself.                                                 *)

\* The send loop wakes when there is data, or when it was stopped.
CanLoop(l) ==
  /\ queue[l].flight = <<>> /\ ~queue[l].ended
  /\ queue[l].buffer # <<>> \/ ~queue[l].executing

CanChainAlways(c) ==   \* mutant: goes on after a send that failed
  call[c].chain # "waiting" /\ call[c].chained < call[c].pushed

CanChain(c) ==
  call[c].chain = "ready" /\ call[c].chained < call[c].pushed

CanCancel(c) == call[c].cancel = "wanted" /\ call[c].sent

Idle == /\ \A l \in Life : ~CanLoop(l)
        /\ \A c \in Calls : ~CanChain(c) /\ ~CanCancel(c)

KeepsBatch(c, l) == c   \* mutant: the batch stays in the buffer
TakeBatch(c, l) == [c EXCEPT !.queue[l].buffer = <<>>]

EndsSilently(c, l, batch) ==   \* mutant: what is buffered is dropped
  [c EXCEPT !.queue[l].ended = TRUE]
EndsLoop(c, l, batch) == Settle([c EXCEPT !.queue[l].ended = TRUE], batch, FALSE)

\* One turn of _sendLoop.  A stopped queue rejects what is buffered; a socket takes
\* the batch at once, a post is in flight until it is answered.
LoopGoesOn(l) ==
  /\ CanLoop(l)
  /\ LET batch == queue[l].buffer
         taken == TakeBatch(Client, l)
     IN \/ /\ ~queue[l].executing
           /\ Becomes(EndsLoop(taken, l, batch))
           /\ UNCHANGED net
        \/ /\ queue[l].executing
           /\ Becomes(IF setup.posts THEN [taken EXCEPT !.queue[l].flight = batch]
                      ELSE Settle(taken, batch, TRUE))
           /\ net' = [net EXCEPT !.up = @ \o batch]
  /\ UNCHANGED <<server, ask, setup>>

\* What an upload says after its n-th turn; its completion comes last.
UploadItem(c, n) ==
  [type |-> IF n = Upload(c) THEN "Completion" ELSE "StreamItem", of |-> c,
   id |-> call[c].id, n |-> n]

\* promiseQueue of an upload: the next item, once the one before it was sent.
ChainGoesOn(c) ==
  /\ CanChain(c)
  /\ LET n == call[c].chained + 1
     IN Becomes(Send([Client EXCEPT !.call[c] = [call[c] EXCEPT !.chained = n, !.chain = "waiting"]],
                     UploadItem(c, n)))
  /\ UNCHANGED <<net, server, ask, setup>>

CancelInvocation(c) == [type |-> "CancelInvocation", of |-> c, id |-> call[c].id, n |-> 0]

\* cancelCallback waits until the call was sent, or failed.
CancelGoesOn(c) ==
  /\ CanCancel(c)
  /\ Becomes(Send([Client EXCEPT !.call[c].cancel = "sent"], CancelInvocation(c)))
  /\ UNCHANGED <<net, server, ask, setup>>

-----------------------------------------------------------------------------
(* The page.                                                               *)

\* _replaceStreamingParams: a stream that is uploaded takes an id before its call does.
StreamIds(c) == IF Upload(c) = 0 THEN 0 ELSE 1

\* _createInvocation: a call that expects no answer has no id.
InvocationId(c) == IF KindOf(c) = "send" THEN NoId ELSE hub.nextId + StreamIds(c)

Register(callbacks, id, c) ==
  IF id = NoId THEN callbacks ELSE {p \in callbacks : p[1] # id} \cup {<<id, c>>}

\* send, invoke, stream: the callback is registered before the call is sent.
Call(c) ==
  /\ ~call[c].made /\ \A b \in 1 .. c - 1 : call[b].made
  /\ LET id == InvocationId(c)
         made == [hub |-> [hub EXCEPT
                             !.nextId = @ + StreamIds(c) + (IF id = NoId THEN 0 ELSE 1),
                             !.callbacks = Register(@, id, c)],
                  call |-> [call EXCEPT ![c] = [call[c] EXCEPT !.made = TRUE, !.id = id]],
                  queue |-> queue]
     IN Becomes(Send(made, [type |-> "Invocation", of |-> c, id |-> id, n |-> 0]))
  /\ UNCHANGED <<net, server, ask, setup>>

\* The page pushes to the stream it uploads.
Push(c) ==
  /\ call[c].made /\ call[c].pushed < Upload(c)
  /\ call' = [call EXCEPT ![c].pushed = @ + 1]
  /\ UNCHANGED <<hub, queue, net, server, ask, setup>>

\* The last observer of a stream is disposed.
Dispose(c) ==
  /\ KindOf(c) = "stream" /\ call[c].made /\ call[c].cancel = "no"
  /\ call' = [call EXCEPT ![c].cancel = "wanted"]
  /\ hub' = [hub EXCEPT !.callbacks = {p \in @ : p[1] # call[c].id}]
  /\ UNCHANGED <<queue, net, server, ask, setup>>

On ==
  /\ setup.asks > 0 /\ hub.methods < MaxMethods
  /\ hub' = [hub EXCEPT !.methods = @ + 1]
  /\ UNCHANGED <<call, queue, net, server, ask, setup>>

OffUnchecked ==   \* mutant: removes what is not there
  /\ setup.asks > 0
  /\ hub' = [hub EXCEPT !.methods = @ - 1]
  /\ UNCHANGED <<call, queue, net, server, ask, setup>>

Off ==
  /\ setup.asks > 0 /\ hub.methods > 0
  /\ hub' = [hub EXCEPT !.methods = @ - 1]
  /\ UNCHANGED <<call, queue, net, server, ask, setup>>

-----------------------------------------------------------------------------
(* Receiving.                                                              *)

\* The reply to an ask; a result and an error, several results, or none.
Verdict(r) ==
  CASE r.several -> "several"
    [] ~r.several /\ r.threw -> "threw"
    [] ~r.several /\ ~r.threw /\ r.res -> "result"
    [] OTHER -> "none"

Replies == <<"result", "several", "threw", "none">>

Reply(a, r) ==
  [type |-> "Reply", of |-> a, id |-> 0,
   n |-> CHOOSE n \in DOMAIN Replies : Replies[n] = Verdict(r)]

\* A handler of the ask ends; after the last one the reply is sent.
Ran(a, r) ==
  /\ ask' = [ask EXCEPT ![a] = IF r.left = 0 THEN [r EXCEPT !.pc = "done"] ELSE r]
  /\ IF r.left = 0 /\ setup.expects THEN Becomes(Send(Client, Reply(a, r)))
     ELSE UNCHANGED <<hub, call, queue>>

\* _invokeClientMethod copies the list of handlers, then awaits one after the other.
Invoke(a) == Ran(a, [ask[a] EXCEPT !.pc = "running", !.left = hub.methods])

HandlerEnds(a, how) ==
  /\ Idle /\ ask[a].pc = "running"
  /\ LET r == [ask[a] EXCEPT !.left = @ - 1]
     IN Ran(a, IF how = "throws" THEN [r EXCEPT !.threw = TRUE]
               ELSE [r EXCEPT !.threw = FALSE, !.res = (how = "value"),
                              !.several = @ \/ (setup.expects /\ how = "value" /\ r.res)])
  /\ UNCHANGED <<net, server, setup>>

\* The callback registered for the id, if there still is one.
Registered(m) == IF \E p \in hub.callbacks : p[1] = m.id
                 THEN (CHOOSE p \in hub.callbacks : p[1] = m.id)[2] ELSE NoCall

Observe(c, what) == [call EXCEPT ![c].seen = Append(@, what)]

\* n = 0: the server reports an error.
Complete(m) ==
  LET c == Registered(m)
  IN /\ hub' = [hub EXCEPT !.callbacks = {p \in @ : p[1] # m.id}]
     /\ call' = IF c = NoCall THEN call
                ELSE IF KindOf(c) = "stream" THEN Observe(c, IF m.n = 0 THEN Failed ELSE Completed)
                ELSE [call EXCEPT ![c].outcome = IF @ # "pending" THEN @
                                                 ELSE IF m.n = 0 THEN "rejected" ELSE "resolved"]
     /\ UNCHANGED <<queue, ask>>

StreamItem(m) ==
  LET c == Registered(m)
  IN /\ call' = IF c = NoCall THEN call ELSE Observe(c, Item(m.n))
     /\ UNCHANGED <<hub, queue, ask>>

\* _processIncomingData
Receive ==
  /\ Idle /\ hub.connected /\ net.down # <<>>
  /\ net' = [net EXCEPT !.down = Tail(@)]
  /\ LET m == Head(net.down)
     IN \/ m.type = "Completion" /\ Complete(m)
        \/ m.type = "StreamItem" /\ StreamItem(m)
        \/ m.type = "Invocation" /\ Invoke(m.of)
  /\ UNCHANGED <<server, setup>>

-----------------------------------------------------------------------------
(* The network.                                                            *)

Unheard(l) == IF Len(net.up) < Len(queue[l].flight) THEN 0
              ELSE Len(net.up) - Len(queue[l].flight)

\* A post is answered, or fails: on its way to the server, or on its way back.
PostEnds(l, ok, arrived) ==
  /\ Idle /\ queue[l].flight # <<>> /\ (ok => arrived)
  /\ Becomes(Settle([Client EXCEPT !.queue[l].flight = <<>>], queue[l].flight, ok))
  /\ net' = IF arrived \/ l # hub.life THEN net
            ELSE [net EXCEPT !.up = SubSeq(@, 1, Unheard(l))]
  /\ UNCHANGED <<server, ask, setup>>

\* _stopConnection stops the queue, then HubConnection hears of it.  What was in
\* transit is lost, and the server forgets the calls of the connection.
Close ==
  /\ Idle /\ hub.connected
  /\ Becomes(CancelCallbacks([hub |-> [hub EXCEPT !.connected = FALSE],
                              call |-> call,
                              queue |-> [queue EXCEPT ![hub.life].executing = FALSE]]))
  /\ net' = [up |-> <<>>, down |-> <<>>]
  /\ ask' = [a \in Asks |-> IF ask[a].pc = "coming" THEN [ask[a] EXCEPT !.pc = "done"] ELSE ask[a]]
  /\ UNCHANGED <<server, setup>>

\* Connected again.
Reopen ==
  /\ Idle /\ ~hub.connected /\ hub.life < MaxLives
  /\ hub' = [hub EXCEPT !.connected = TRUE, !.life = @ + 1]
  /\ UNCHANGED <<call, queue, net, server, ask, setup>>

-----------------------------------------------------------------------------
(* The server, SignalR's own part of it.                                   *)

At(n) == <<hub.life, n>>

Down(m) == net' = [net EXCEPT !.down = Append(@, m)]

\* It takes a message: a call it begins, an upload, a cancellation, a reply.
ServerReceives ==
  /\ hub.connected /\ net.up # <<>>
  /\ LET m == Head(net.up)
     IN /\ net' = [net EXCEPT !.up = Tail(@)]
        /\ server' =
             CASE m.type = "Invocation" ->
                    [server EXCEPT ![m.of].state = "running", ![m.of].id = m.id,
                                   ![m.of].items = 0, ![m.of].heard = Append(@, At(0))]
               [] m.type \in {"StreamItem", "Completion"} ->
                    [server EXCEPT ![m.of].heard = Append(@, At(m.n))]
               [] m.type = "CancelInvocation" ->
                    [c \in Calls |-> IF server[c].state = "running" /\ server[c].id = m.id
                                     THEN [server[c] EXCEPT !.state = "done"] ELSE server[c]]
               [] OTHER -> server
        /\ ask' = IF m.type # "Reply" THEN ask
                  ELSE [ask EXCEPT ![m.of].replies = Append(@, Replies[m.n])]
  /\ UNCHANGED <<hub, call, queue, setup>>

ServerYields(c) ==
  /\ hub.connected /\ server[c].state = "running" /\ KindOf(c) = "stream"
  /\ server[c].items < MaxItems
  /\ server' = [server EXCEPT ![c].items = @ + 1]
  /\ Down([type |-> "StreamItem", of |-> c, id |-> server[c].id, n |-> server[c].items + 1])
  /\ UNCHANGED <<hub, call, queue, ask, setup>>

\* A call that uploads a stream ends no sooner than the stream, unless it fails.
ServerCompletes(c, ok) ==
  /\ hub.connected /\ server[c].state = "running"
  /\ ok /\ Upload(c) > 0 => At(Upload(c)) \in {server[c].heard[i] : i \in DOMAIN server[c].heard}
  /\ server' = [server EXCEPT ![c].state = "done"]
  /\ IF KindOf(c) = "send" THEN UNCHANGED net
     ELSE Down([type |-> "Completion", of |-> c, id |-> server[c].id, n |-> IF ok THEN 1 ELSE 0])
  /\ UNCHANGED <<hub, call, queue, ask, setup>>

ServerAsks(a) ==
  /\ hub.connected /\ ask[a].pc = "no" /\ \A b \in 1 .. a - 1 : ask[b].pc # "no"
  /\ ask' = [ask EXCEPT ![a].pc = "coming"]
  /\ Down([type |-> "Invocation", of |-> a, id |-> 0, n |-> 0])
  /\ UNCHANGED <<hub, call, queue, server, setup>>

-----------------------------------------------------------------------------
GoesOn ==
  \/ \E l \in Life : LoopGoesOn(l)
  \/ \E c \in Calls : ChainGoesOn(c) \/ CancelGoesOn(c)

Page ==
  \/ \E c \in Calls : Call(c) \/ Push(c) \/ Dispose(c)
  \/ On \/ Off

Handlers == \E a \in Asks, how \in {"value", "nothing", "throws"} : HandlerEnds(a, how)
Posts == \E l \in Life, ok \in BOOLEAN, arrived \in BOOLEAN : PostEnds(l, ok, arrived)
Completes(c) == \E ok \in BOOLEAN : ServerCompletes(c, ok)
Server == ServerReceives \/ \E c \in Calls : Completes(c)
Yields == \E c \in Calls : ServerYields(c)

Next ==
  \/ GoesOn \/ Page \/ Handlers
  \/ Receive \/ Posts \/ Close \/ Reopen
  \/ Server \/ Yields \/ \E a \in Asks : ServerAsks(a)

Spec == Init /\ [][Next]_vars

\* The browser runs what is ready, handlers and posts end, what is in transit arrives,
\* and the server answers what it was asked, while the connection lasts.
Fairness ==
  /\ WF_vars(GoesOn) /\ WF_vars(Handlers) /\ WF_vars(Posts)
  /\ WF_vars(Receive) /\ WF_vars(ServerReceives)
  /\ \A c \in 1 .. MaxCalls : WF_vars(\E b \in Calls : b = c /\ Completes(b))

-----------------------------------------------------------------------------
(* Properties.                                                             *)

Ended(c) == \E i \in DOMAIN call[c].seen : call[c].seen[i] \in End

Pending(c) ==
  /\ call[c].made
  /\ IF KindOf(c) = "stream" THEN call[c].cancel = "no" /\ ~Ended(c)
     ELSE call[c].outcome = "pending"

\* _callbacks holds the calls that wait for an answer and no other, so that an answer
\* finds its call, a late one finds none, and a closed connection leaves none behind.
CallbacksArePending ==
  /\ Idle => hub.callbacks = {<<call[c].id, c>> : c \in {b \in Calls : Pending(b) /\ KindOf(b) # "send"}}
  /\ ~hub.connected => hub.callbacks = {}

\* Streams keep their order.  An observer sees the items in the order of the server,
\* without a gap, and "complete" only if the server ended the stream and it saw every
\* item; after its end comes nothing but an error, when the send of the call still
\* fails.  On one connection the server hears a call and its upload without a gap from
\* the first it hears of them, although sends fail and later ones succeed.
StreamsInOrder ==
  \A c \in Calls : LET seen == call[c].seen   heard == server[c].heard IN
    /\ \A i \in DOMAIN seen :
         /\ seen[i] \notin End => seen[i] = Item(i)
         /\ seen[i] = Completed => server[c].state = "done" /\ server[c].items = i - 1
         /\ i > 1 /\ seen[i - 1] \in End => seen[i] = Failed
    /\ \A i \in DOMAIN heard \ {1} :
         heard[i][1] = heard[i - 1][1] => heard[i][2] = heard[i - 1][2] + 1

\* The calls of the page as RemoteCalls: at most once on the server, settled at most
\* once, and successful only if the server ran the call to its end.  A stream ends
\* with the first end its observer sees.
FirstEnd(c) == LET seen == call[c].seen
               IN seen[CHOOSE i \in DOMAIN seen : seen[i] \in End /\ \A j \in 1 .. i - 1 : seen[j] \notin End]

Status(c) ==
  CASE ~call[c].made -> "none"
    [] call[c].made /\ KindOf(c) # "stream" -> call[c].outcome
    [] call[c].made /\ KindOf(c) = "stream" /\ ~Ended(c) -> "pending"
    [] OTHER -> IF FirstEnd(c) = Completed THEN "resolved" ELSE "rejected"

\* What RemoteCalls sees of them; a call or an ask that the setup has not is never made.
Awaited == {c \in Calls : KindOf(c) # "send"}
Statuses == [c \in 1 .. MaxCalls |-> IF c \in Calls THEN Status(c) ELSE "none"]
Runs == [c \in 1 .. MaxCalls |-> IF c \in Calls THEN server[c].state ELSE "no"]
Wanted == {a \in Asks : setup.expects}
RepliesSent == [a \in 1 .. MaxAsks |-> IF a \in Asks THEN Len(ask[a].replies) ELSE 0]

Remote == INSTANCE RemoteCalls
  WITH Calls <- 1 .. MaxCalls, awaited <- Awaited, status <- Statuses, runs <- Runs,
       Asks <- 1 .. MaxAsks, wanted <- Wanted, replies <- RepliesSent

ImplementsRemoteCalls == Remote!Init /\ [][Remote!Next]_(Remote!vars)

Unsettled == {c \in Calls : Pending(c)}

Unanswered ==
  {a \in Asks : setup.expects /\ ~setup.posts /\ ask[a].pc \in {"coming", "running"}}

\* A call that was made settles, whether it is answered, fails on its way, waits
\* behind another in the queue, or the connection closes over it.  The server gets a
\* reply to a call that wants a result, even when no method is registered, unless the
\* connection closes; over a socket, as a post may fail.
EveryCallSettles ==
  /\ \A c \in 1 .. MaxCalls : c \in Unsettled ~> c \notin Unsettled
  /\ \A a \in 1 .. MaxAsks :
       a \in Unanswered ~> ~hub.connected \/ \E b \in Asks : b = a /\ ask[b].replies # <<>>

=============================================================================

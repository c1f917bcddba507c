-------------------------- MODULE HubMessagesProofs --------------------------
(***************************************************************************)
(* Proofs about HubMessages, for any number of calls, server calls,        *)
(* connections, items and handlers, and about the frames that carry its    *)
(* messages (BinaryMessageFormat, at the end).                             *)
(*                                                                         *)
(* MessagesIndInv says what a message in a queue or on the wire means for  *)
(* the state of its sender and its receiver.  SeenIndInv adds what the     *)
(* observer of a stream has seen and what is on its way to it, SpeechInv   *)
(* and HeardInv what a call has said, what of it is not sent, on its way,  *)
(* in flight or lost, and what the server heard of it.  The steps of the   *)
(* model are first reduced to what they do to each of the parts (the       *)
(* ...Facts lemmas), so that no proof opens an action twice.               *)
(***************************************************************************)
EXTENDS HubMessages, BinaryMessageFormat, SequenceTheorems, TLAPS

-----------------------------------------------------------------------------
(* Types                                                                   *)

HubType == [connected : BOOLEAN, life : Life, nextId : Nat,
            callbacks : SUBSET (Id \X Calls), methods : 0 .. MaxMethods]
CallType == [made : BOOLEAN, id : Id, outcome : {"pending", "resolved", "rejected"},
             seen : Seq(Notice), sent : BOOLEAN, chain : {"waiting", "ready", "broken"},
             pushed : Nat, chained : Nat, cancel : {"no", "wanted", "sent"}]
QueueType == [buffer : Seq(Message), flight : Seq(Message), executing : BOOLEAN, ended : BOOLEAN]
ClientType == [hub : HubType, call : [Calls -> CallType], queue : [Life -> QueueType]]
ServerType == [state : {"no", "running", "done"}, id : Id, items : 0 .. MaxItems,
               heard : Seq(Life \X Nat)]
AskType == [pc : {"no", "coming", "running", "done"}, left : 0 .. MaxMethods,
            res : BOOLEAN, threw : BOOLEAN, several : BOOLEAN,
            replies : Seq({"result", "several", "threw", "none"})]
NetType == [up : Seq(Message), down : Seq(Message)]

LEMMA Bounds ==
  /\ MaxLives \in Nat \ {0} /\ MaxMethods \in Nat \ {0}
  /\ MaxItems \in Nat /\ MaxCalls \in Nat /\ MaxAsks \in Nat
BY BoundsAssumption

LEMMA SetupFacts ==
  ASSUME setup \in Setups
  PROVE  /\ setup.calls \in Seq([kind : Kind, upload : Nat])
         /\ Len(setup.calls) \in Nat /\ Calls = 1 .. Len(setup.calls)
         /\ setup.posts \in BOOLEAN /\ setup.expects \in BOOLEAN /\ setup.asks \in Nat
         /\ \A c \in Calls : c \in Nat /\ KindOf(c) \in Kind /\ Upload(c) \in Nat
<1>1. Setup(setup)
  BY SetupsAssumption
<1>2. setup.calls \in Seq([kind : Kind, upload : Nat])
  BY <1>1 DEF Setup
<1>3. Len(setup.calls) \in Nat /\ DOMAIN setup.calls = 1 .. Len(setup.calls)
      /\ \A c \in 1 .. Len(setup.calls) : setup.calls[c] \in [kind : Kind, upload : Nat]
  BY <1>2, LenProperties
<1>4. setup.posts \in BOOLEAN /\ setup.expects \in BOOLEAN /\ setup.asks \in Nat
  BY <1>1, Bounds DEF Setup
<1>5. \A c \in 1 .. Len(setup.calls) : c \in Nat /\ KindOf(c) \in Kind /\ Upload(c) \in Nat
  BY <1>3 DEF KindOf, Upload
<1>6. QED
  BY <1>2, <1>3, <1>4, <1>5 DEF Calls

\* Nothing is set up anew.
LEMMA Fixed ==
  ASSUME setup' = setup
  PROVE  /\ Calls' = Calls /\ Asks' = Asks /\ Id' = Id
         /\ \A c : KindOf(c)' = KindOf(c) /\ Upload(c)' = Upload(c)
BY DEF Calls, Asks, Id, KindOf, Upload

LEMMA Typed ==
  ASSUME TypeOK
  PROVE  /\ hub \in HubType /\ call \in [Calls -> CallType] /\ queue \in [Life -> QueueType]
         /\ net \in NetType /\ server \in [Calls -> ServerType] /\ ask \in [Asks -> AskType]
         /\ setup \in Setups /\ Client \in ClientType
         /\ Client.hub = hub /\ Client.call = call /\ Client.queue = queue
<1>1. /\ hub \in HubType /\ call \in [Calls -> CallType] /\ queue \in [Life -> QueueType]
      /\ net \in NetType /\ server \in [Calls -> ServerType] /\ ask \in [Asks -> AskType]
      /\ setup \in Setups
  BY DEF TypeOK, HubType, CallType, QueueType, NetType, ServerType, AskType
<1>2. QED
  BY <1>1 DEF Client, ClientType

\* The client after a step.
LEMMA BecomesFacts ==
  ASSUME NEW c \in ClientType, Becomes(c)
  PROVE  hub' = c.hub /\ call' = c.call /\ queue' = c.queue /\ Client' = c
BY DEF Becomes, Client, ClientType

LEMMA TypedNext ==
  ASSUME setup' = setup, setup \in Setups, Client' \in ClientType,
         net' \in NetType, server' \in [Calls -> ServerType], ask' \in [Asks -> AskType]
  PROVE  TypeOK'
<1>1. hub' \in HubType /\ call' \in [Calls -> CallType] /\ queue' \in [Life -> QueueType]
  BY DEF Client, ClientType
<1>2. QED
  BY <1>1, Fixed DEF TypeOK, HubType, CallType, QueueType, NetType, ServerType, AskType

LEMMA IdFacts ==
  ASSUME setup \in Setups
  PROVE  NoId \in Id /\ \A i \in Id : i \in Int
BY SetupFacts DEF Id, NoId

LEMMA ClientFields ==
  ASSUME NEW c \in ClientType
  PROVE  /\ c.hub \in HubType /\ c.call \in [Calls -> CallType] /\ c.queue \in [Life -> QueueType]
         /\ c = [hub |-> c.hub, call |-> c.call, queue |-> c.queue]
BY DEF ClientType

LEMMA NoticeFacts ==
  /\ Failed \in Notice /\ Completed \in Notice /\ Failed \in End /\ Completed \in End
  /\ Failed # Completed
  /\ \A n \in 1 .. MaxItems : Item(n) \in Notice
  /\ \A n : Item(n) \notin End
BY DEF Failed, Completed, Notice, End, Item

-----------------------------------------------------------------------------
(* The functions of the client                                             *)

LEMMA EnqueueFacts ==
  ASSUME NEW c \in ClientType, NEW m \in Message
  PROVE  LET q == c.queue[c.hub.life]   d == Enqueue(c, m) IN
         /\ d \in ClientType /\ d.hub = c.hub /\ d.call = c.call
         /\ d.queue = [c.queue EXCEPT ![c.hub.life] = [q EXCEPT !.buffer = Append(q.buffer, m)]]
<1> DEFINE q == c.queue[c.hub.life]
           n == [q EXCEPT !.buffer = Append(q.buffer, m)]
           d == Enqueue(c, m)
<1>1. c.hub.life \in Life /\ q \in QueueType
  BY ClientFields DEF HubType
<1>2. Append(q.buffer, m) \in Seq(Message)
  BY <1>1, AppendProperties DEF QueueType
<1>3. n \in QueueType
  BY <1>1, <1>2 DEF QueueType
<1>4. d = [hub |-> c.hub, call |-> c.call, queue |-> [c.queue EXCEPT ![c.hub.life] = n]]
  BY DEF Enqueue, ClientType
<1> HIDE DEF n, d
<1>5. [c.queue EXCEPT ![c.hub.life] = n] \in [Life -> QueueType]
  BY <1>1, <1>3, ClientFields
<1>6. d \in ClientType
  BY <1>4, <1>5, ClientFields DEF ClientType
<1>7. QED
  BY <1>4, <1>6 DEF n, d

\* The fields of a call after a send, one by one.
Called(batch, x) == Has(batch, "Invocation", x)
Uploaded(batch, x) == Has(batch, "StreamItem", x) \/ Has(batch, "Completion", x)

LEMMA AfterSendFacts ==
  ASSUME NEW x \in Calls, NEW r \in CallType, NEW batch, NEW ok \in BOOLEAN
  PROVE  LET s == AfterSend(r, x, batch, ok) IN
  /\ s \in CallType
  /\ s.made = r.made /\ s.id = r.id /\ s.pushed = r.pushed /\ s.chained = r.chained
  /\ s.cancel = r.cancel
  /\ s.chain = IF Uploaded(batch, x) \/ (Called(batch, x) /\ KindOf(x) = "send")
               THEN (IF ok THEN "ready" ELSE "broken")
               ELSE IF Called(batch, x) THEN "ready" ELSE r.chain
  /\ s.outcome = IF ~Called(batch, x) \/ r.outcome # "pending" THEN r.outcome
                 ELSE IF KindOf(x) = "send" THEN (IF ok THEN "resolved" ELSE "rejected")
                 ELSE IF ok \/ KindOf(x) = "stream" THEN r.outcome ELSE "rejected"
  /\ LET failed == ~ok /\ Called(batch, x) /\ KindOf(x) = "stream" /\ r.cancel = "no"
     IN  (failed => s.seen = Append(r.seen, Failed)) /\ (~failed => s.seen = r.seen)
<1>1. Append(r.seen, Failed) \in Seq(Notice)
  BY NoticeFacts, AppendProperties DEF CallType
<1>2. Called(batch, x) \in BOOLEAN
  BY DEF Called, Has
<1>3. (r.sent \/ Called(batch, x)) \in BOOLEAN
  OBVIOUS
<1> DEFINE chain == IF Uploaded(batch, x) \/ (Called(batch, x) /\ KindOf(x) = "send")
                    THEN (IF ok THEN "ready" ELSE "broken")
                    ELSE IF Called(batch, x) THEN "ready" ELSE r.chain
           outcome == IF ~Called(batch, x) \/ r.outcome # "pending" THEN r.outcome
                      ELSE IF KindOf(x) = "send" THEN (IF ok THEN "resolved" ELSE "rejected")
                      ELSE IF ok \/ KindOf(x) = "stream" THEN r.outcome ELSE "rejected"
           seen == IF ~ok /\ Called(batch, x) /\ KindOf(x) = "stream" /\ r.cancel = "no"
                   THEN Append(r.seen, Failed) ELSE r.seen
<1>4. AfterSend(r, x, batch, ok) =
        [r EXCEPT !.sent = r.sent \/ Called(batch, x), !.chain = chain, !.outcome = outcome,
                  !.seen = seen]
  BY DEF AfterSend, Called, Uploaded, CallType
<1>5. chain \in {"waiting", "ready", "broken"} /\ outcome \in {"pending", "resolved", "rejected"}
      /\ seen \in Seq(Notice)
  BY <1>1 DEF CallType
<1> HIDE DEF chain, outcome, seen
<1>6. AfterSend(r, x, batch, ok) \in CallType
  BY <1>3, <1>4, <1>5 DEF CallType
<1>7. QED
  BY <1>4, <1>6 DEF CallType, chain, outcome, seen

\* d is what settling the batch makes of c; the queues are not looked at.
Kept(c, batch, ok) ==
  {p \in c.hub.callbacks : \A x \in Calls :
     ~ok /\ Called(batch, x) /\ KindOf(x) # "send" => p[1] # c.call[x].id}

Settles(c, d, batch, ok) ==
  /\ d.hub = [c.hub EXCEPT !.callbacks = Kept(c, batch, ok)]
  /\ \A x \in Calls : d.call[x] = AfterSend(c.call[x], x, batch, ok)

LEMMA SettleFacts ==
  ASSUME NEW c \in ClientType, NEW batch, NEW ok \in BOOLEAN
  PROVE  LET d == Settle(c, batch, ok) IN
         d \in ClientType /\ d.queue = c.queue /\ Settles(c, d, batch, ok)
<1> DEFINE d == Settle(c, batch, ok)
           f == [x \in Calls |-> AfterSend(c.call[x], x, batch, ok)]
           k == {p \in c.hub.callbacks : \A x \in Lost(c, batch, ok) : p[1] # c.call[x].id}
<1>1. k = Kept(c, batch, ok)
  BY DEF Lost, Kept, Called
<1>2. d = [hub |-> [c.hub EXCEPT !.callbacks = k], call |-> f, queue |-> c.queue]
  BY DEF Settle
<1>3. k \in SUBSET (Id \X Calls)
  BY ClientFields DEF HubType
<1>4. f \in [Calls -> CallType]
  BY ClientFields, AfterSendFacts
<1> HIDE DEF k, d, f
<1>5. [c.hub EXCEPT !.callbacks = k] \in HubType
  BY <1>3, ClientFields DEF HubType
<1>6. d \in ClientType
  BY <1>2, <1>4, <1>5, ClientFields DEF ClientType
<1>7. Settles(c, d, batch, ok)
  BY <1>1, <1>2 DEF Settles, f
<1>8. QED
  BY <1>2, <1>6, <1>7 DEF d

\* Nothing settles with an empty batch.
LEMMA NothingSettles ==
  ASSUME NEW c \in ClientType, NEW d \in ClientType, d.hub = c.hub, d.call = c.call,
         NEW ok \in BOOLEAN
  PROVE  Settles(c, d, <<>>, ok)
<1>1. \A x : ~Called(<<>>, x) /\ ~Uploaded(<<>>, x)
  BY DEF Called, Uploaded, Has
<1>2. Kept(c, <<>>, ok) = c.hub.callbacks
  BY <1>1 DEF Kept
<1>3. c.hub = [c.hub EXCEPT !.callbacks = c.hub.callbacks]
  BY ClientFields DEF HubType
<1>4. ASSUME NEW x \in Calls PROVE c.call[x] = AfterSend(c.call[x], x, <<>>, ok)
  <2>1. c.call[x] \in CallType
    BY ClientFields
  <2>2. ~Has(<<>>, "Invocation", x) /\ ~Has(<<>>, "StreamItem", x) /\ ~Has(<<>>, "Completion", x)
    BY DEF Has
  <2> HIDE DEF Has
  <2>3. QED
    BY <2>1, <2>2 DEF AfterSend, CallType
<1>5. QED
  BY <1>2, <1>3, <1>4 DEF Settles

\* A message is put into the queue, or settles at once.
Enqueued(c, d, m) ==
  LET q == c.queue[c.hub.life]
  IN d.queue = [c.queue EXCEPT ![c.hub.life] = [q EXCEPT !.buffer = Append(q.buffer, m)]]

Sends(c, d, m) ==
  IF c.hub.connected THEN Settles(c, d, <<>>, FALSE) /\ Enqueued(c, d, m)
  ELSE Settles(c, d, <<m>>, FALSE) /\ d.queue = c.queue

LEMMA SendFacts ==
  ASSUME NEW c \in ClientType, NEW m \in Message
  PROVE  Send(c, m) \in ClientType /\ Sends(c, Send(c, m), m)
<1>1. CASE c.hub.connected
  <2> DEFINE d == Enqueue(c, m)
             no == FALSE
  <2>1. Send(c, m) = d
    BY <1>1 DEF Send
  <2>2. d \in ClientType /\ d.hub = c.hub /\ d.call = c.call /\ Enqueued(c, d, m)
    BY EnqueueFacts DEF Enqueued
  <2> HIDE DEF d
  <2>3. no \in BOOLEAN
    OBVIOUS
  <2>4. Settles(c, d, <<>>, no)
    <3> HIDE DEF no
    <3>1. QED
      BY <2>2, <2>3, NothingSettles
  <2>5. Sends(c, d, m)
    BY <1>1, <2>2, <2>4 DEF Sends
  <2>6. QED
    BY <2>1, <2>2, <2>5
<1>2. CASE ~c.hub.connected
  <2>1. Send(c, m) = Settle(c, <<m>>, FALSE)
    BY <1>2 DEF Send
  <2>2. QED
    BY <1>2, <2>1, SettleFacts DEF Sends
<1>3. QED
  BY <1>1, <1>2

-----------------------------------------------------------------------------
(* Ids and callbacks                                                       *)

EndedIn(seen) == \E i \in DOMAIN seen : seen[i] \in End

PendingCall(r, x) ==
  /\ r.made
  /\ IF KindOf(x) = "stream" THEN r.cancel = "no" /\ ~EndedIn(r.seen)
     ELSE r.outcome = "pending"

\* A call nothing has happened to.
Fresh(r) ==
  /\ r.chain = "waiting" /\ r.chained = 0 /\ r.seen = <<>>
  /\ r.outcome = "pending" /\ r.cancel = "no"

\* Calls are made in their order and get ids of their own.
IdsInv(c) ==
  /\ \A x \in Calls : c.call[x].made => \A y \in 1 .. x - 1 : c.call[y].made
  /\ \A x \in Calls : ~c.call[x].made => c.hub.nextId <= 2 * (x - 1) /\ Fresh(c.call[x])
  /\ \A x \in Calls : c.call[x].made =>
       IF KindOf(x) = "send" THEN c.call[x].id = NoId
       ELSE c.call[x].id \in 0 .. c.hub.nextId - 1
  /\ \A x, y \in Calls : c.call[x].made /\ c.call[y].made /\ c.call[x].id = c.call[y].id
                         /\ KindOf(x) # "send" => x = y

\* The callbacks are those of the pending calls that wait for an answer.
CallbacksInv(c) ==
  \A x \in Calls, i \in Id :
    <<i, x>> \in c.hub.callbacks <=>
      i = c.call[x].id /\ PendingCall(c.call[x], x) /\ KindOf(x) # "send"

\* What is sent is about calls that were made.
BatchMade(c, batch) ==
  \A i \in DOMAIN batch :
    batch[i].type # "Reply" => batch[i].of \in Calls /\ c.call[batch[i].of].made

LEMMA MadeCalls ==
  ASSUME NEW c, NEW batch, BatchMade(c, batch), NEW x \in Calls,
         Called(batch, x) \/ Uploaded(batch, x)
  PROVE  c.call[x].made
BY DEF BatchMade, Called, Uploaded, Has

LEMMA SettlesKeepsIds ==
  ASSUME NEW c \in ClientType, NEW d \in ClientType, NEW batch, NEW ok \in BOOLEAN,
         Settles(c, d, batch, ok), BatchMade(c, batch), IdsInv(c), setup \in Setups
  PROVE  IdsInv(d)
<1>1. d.hub.nextId = c.hub.nextId
  BY ClientFields DEF Settles, HubType
<1>2. \A x \in Calls : d.call[x].made = c.call[x].made /\ d.call[x].id = c.call[x].id
  BY ClientFields, AfterSendFacts DEF Settles
<1>3. ASSUME NEW x \in Calls, ~c.call[x].made, Fresh(c.call[x]) PROVE Fresh(d.call[x])
  <2>1. ~Called(batch, x) /\ ~Uploaded(batch, x)
    BY <1>3, MadeCalls
  <2>2. QED
    BY <1>3, <2>1, ClientFields, AfterSendFacts DEF Settles, Fresh
<1>4. \A x \in Calls : \A y \in 1 .. x - 1 : c.call[x].made /\ c.call[y].made => d.call[y].made
  <2> SUFFICES ASSUME NEW x \in Calls, NEW y \in 1 .. x - 1, c.call[y].made, c.call[x].made
               PROVE  d.call[y].made
    OBVIOUS
  <2>1. y \in Calls
    BY SetupFacts
  <2>2. QED
    BY <2>1, <1>2
<1>5. QED
  BY <1>1, <1>2, <1>3, <1>4 DEF IdsInv

LEMMA EndedByAppend ==
  ASSUME NEW seen \in Seq(Notice), NEW what \in Notice
  PROVE  EndedIn(Append(seen, what)) <=> EndedIn(seen) \/ what \in End
<1> DEFINE s == Append(seen, what)
<1>1. /\ Len(seen) \in Nat /\ DOMAIN seen = 1 .. Len(seen) /\ DOMAIN s = 1 .. Len(seen) + 1
      /\ s[Len(seen) + 1] = what /\ \A i \in 1 .. Len(seen) : s[i] = seen[i]
  BY AppendProperties, LenProperties
<1> HIDE DEF s
<1>2. ASSUME EndedIn(s) PROVE EndedIn(seen) \/ what \in End
  BY <1>1, <1>2 DEF EndedIn
<1>3. ASSUME EndedIn(seen) PROVE EndedIn(s)
  BY <1>1, <1>3 DEF EndedIn
<1>4. ASSUME what \in End PROVE EndedIn(s)
  BY <1>1, <1>4 DEF EndedIn
<1>5. QED
  BY <1>2, <1>3, <1>4 DEF s

LEMMA SettledPending ==
  ASSUME NEW c \in ClientType, NEW d \in ClientType, NEW batch, NEW ok \in BOOLEAN,
         Settles(c, d, batch, ok), NEW x \in Calls, KindOf(x) # "send"
  PROVE  PendingCall(d.call[x], x) <=>
           PendingCall(c.call[x], x) /\ ~(~ok /\ Called(batch, x))
<1>1. c.call[x] \in CallType /\ d.call[x] \in CallType
  BY ClientFields
<1>2. d.call[x] = AfterSend(c.call[x], x, batch, ok)
  BY DEF Settles
<1>3. d.call[x].made = c.call[x].made /\ d.call[x].cancel = c.call[x].cancel
  BY <1>1, <1>2, AfterSendFacts
<1>4. CASE KindOf(x) = "stream"
  <2>0. LET failed == ~ok /\ Called(batch, x) /\ c.call[x].cancel = "no"
        IN  /\ failed => d.call[x].seen = Append(c.call[x].seen, Failed)
            /\ ~failed => d.call[x].seen = c.call[x].seen
    BY <1>1, <1>2, <1>4, AfterSendFacts
  <2>1. CASE ~ok /\ Called(batch, x) /\ c.call[x].cancel = "no"
    <3>1. d.call[x].seen = Append(c.call[x].seen, Failed)
      BY <2>0, <2>1
    <3>2. EndedIn(d.call[x].seen)
      BY <1>1, <3>1, EndedByAppend, NoticeFacts DEF CallType
    <3>3. QED
      BY <1>4, <2>1, <3>2 DEF PendingCall
  <2>2. CASE ~(~ok /\ Called(batch, x) /\ c.call[x].cancel = "no")
    <3>1. d.call[x].seen = c.call[x].seen
      BY <2>0, <2>2
    <3>2. QED
      BY <1>3, <1>4, <2>2, <3>1 DEF PendingCall
  <2>3. QED
    BY <2>1, <2>2
<1>5. CASE KindOf(x) # "stream"
  <2>1. d.call[x].outcome = IF ~Called(batch, x) \/ c.call[x].outcome # "pending"
                            THEN c.call[x].outcome
                            ELSE IF ok THEN c.call[x].outcome ELSE "rejected"
    BY <1>1, <1>2, <1>5, AfterSendFacts
  <2>2. QED
    BY <1>3, <1>5, <2>1 DEF PendingCall
<1>6. QED
  BY <1>4, <1>5

LEMMA SettlesKeepsCallbacks ==
  ASSUME NEW c \in ClientType, NEW d \in ClientType, NEW batch, NEW ok \in BOOLEAN,
         Settles(c, d, batch, ok), BatchMade(c, batch), IdsInv(c), CallbacksInv(c)
  PROVE  CallbacksInv(d)
<1>1. d.hub.callbacks = Kept(c, batch, ok)
  BY ClientFields DEF Settles, HubType
<1>2. \A x \in Calls : d.call[x].id = c.call[x].id
  BY ClientFields, AfterSendFacts DEF Settles
<1>3. ASSUME NEW x \in Calls, NEW i \in Id
      PROVE  <<i, x>> \in d.hub.callbacks <=>
               i = d.call[x].id /\ PendingCall(d.call[x], x) /\ KindOf(x) # "send"
  <2>1. CASE ~(i = c.call[x].id /\ PendingCall(c.call[x], x) /\ KindOf(x) # "send")
    <3>1. <<i, x>> \notin d.hub.callbacks
      BY <1>1, <2>1 DEF CallbacksInv, Kept
    <3>2. QED
      BY <1>2, <2>1, <3>1, SettledPending
  <2>2. CASE i = c.call[x].id /\ PendingCall(c.call[x], x) /\ KindOf(x) # "send"
    <3>1. <<i, x>> \in c.hub.callbacks
      BY <2>2 DEF CallbacksInv
    <3>2. <<i, x>> \in d.hub.callbacks <=>
            \A y \in Calls : ~ok /\ Called(batch, y) /\ KindOf(y) # "send" => i # c.call[y].id
      BY <1>1, <3>1 DEF Kept
    <3>3. \A y \in Calls : Called(batch, y) /\ KindOf(y) # "send" /\ i = c.call[y].id => x = y
      BY <2>2, MadeCalls DEF IdsInv, PendingCall
    <3>4. <<i, x>> \in d.hub.callbacks <=> ~(~ok /\ Called(batch, x))
      BY <2>2, <3>2, <3>3
    <3>5. QED
      BY <1>2, <2>2, <3>4, SettledPending
  <2>3. QED
    BY <2>1, <2>2
<1>4. QED
  BY <1>3 DEF CallbacksInv

-----------------------------------------------------------------------------
(* Messages                                                                *)

\* A message of the client is about a call that was made and carries its id, or
\* it is the reply to an ask whose handlers have all run.
UpWell(m) ==
  \/ /\ m.type \in {"Invocation", "StreamItem", "Completion", "CancelInvocation"}
     /\ m.of \in Calls /\ call[m.of].made /\ m.id = call[m.of].id
     /\ m.type = "Invocation" => m.n = 0
     /\ m.type \in {"StreamItem", "Completion"} => m.n \in 1 .. Upload(m.of)
     /\ m.type = "CancelInvocation" => KindOf(m.of) = "stream"
  \/ /\ m.type = "Reply" /\ m.of \in Asks /\ m.n \in DOMAIN Replies
     /\ setup.expects /\ ask[m.of].pc = "done"

\* A message of the server is an item or the end of a call it runs, or an ask.
DownWell(m) ==
  \/ /\ m.type \in {"StreamItem", "Completion"}
     /\ m.of \in Calls /\ m.id = call[m.of].id /\ KindOf(m.of) # "send"
     /\ m.type = "StreamItem" => KindOf(m.of) = "stream" /\ m.n \in 1 .. server[m.of].items
     /\ m.type = "Completion" => server[m.of].state = "done"
     /\ server[m.of].state # "no"
  \/ m.type = "Invocation" /\ m.of \in Asks /\ ask[m.of].pc = "coming"

AllUp(s) == \A i \in DOMAIN s : UpWell(s[i])

MessagesInv ==
  /\ \A l \in Life : AllUp(queue[l].flight) /\ AllUp(queue[l].buffer)
  /\ AllUp(net.up)
  /\ \A i \in DOMAIN net.down : DownWell(net.down[i])

\* An ask that runs has handlers left; it is on its way once.
AsksInv ==
  /\ \A a \in Asks : ask[a].pc = "running" => ask[a].left > 0
  /\ \A i, j \in DOMAIN net.down :
       net.down[i].type = "Invocation" /\ net.down[j].type = "Invocation"
         /\ net.down[i].of = net.down[j].of => i = j

LEMMA AllUpMade ==
  ASSUME NEW s, AllUp(s), NEW c \in ClientType, \A x \in Calls : call[x].made => c.call[x].made
  PROVE  BatchMade(c, s)
BY DEF AllUp, UpWell, BatchMade

-----------------------------------------------------------------------------
(* What the actions do to the client                                       *)

CallWith(x, r) == [hub |-> hub, call |-> [call EXCEPT ![x] = r], queue |-> queue]
QueueWith(l, q) == [queue EXCEPT ![l] = q]

LEMMA CallWithFacts ==
  ASSUME TypeOK, NEW x \in Calls, NEW r \in CallType
  PROVE  CallWith(x, r) \in ClientType
BY Typed DEF CallWith, ClientType

LEMMA QueueWithFacts ==
  ASSUME TypeOK, NEW l \in Life, NEW q \in QueueType
  PROVE  /\ QueueWith(l, q) \in [Life -> QueueType]
         /\ [hub |-> hub, call |-> call, queue |-> QueueWith(l, q)] \in ClientType
<1>1. QueueWith(l, q) \in [Life -> QueueType]
  BY Typed DEF QueueWith
<1>2. QED
  BY <1>1, Typed DEF ClientType

LEMMA LoopFacts ==
  ASSUME TypeOK, NEW l \in Life, LoopGoesOn(l)
  PROVE  LET q == queue[l] IN
    /\ Client' \in ClientType /\ net' \in NetType /\ net'.down = net.down
    /\ q.flight = <<>> /\ UNCHANGED <<server, ask, setup>>
    /\ \/ /\ ~q.executing /\ Settles(Client, Client', q.buffer, FALSE) /\ net' = net
          /\ queue' = QueueWith(l, [q EXCEPT !.buffer = <<>>, !.ended = TRUE])
       \/ /\ q.executing /\ setup.posts /\ hub' = hub /\ call' = call
          /\ Settles(Client, Client', <<>>, TRUE) /\ net'.up = net.up \o q.buffer
          /\ queue' = QueueWith(l, [q EXCEPT !.buffer = <<>>, !.flight = q.buffer])
       \/ /\ q.executing /\ ~setup.posts /\ Settles(Client, Client', q.buffer, TRUE)
          /\ net'.up = net.up \o q.buffer
          /\ queue' = QueueWith(l, [q EXCEPT !.buffer = <<>>])
<1> DEFINE q == queue[l]
           t == [q EXCEPT !.buffer = <<>>]
           e == [q EXCEPT !.buffer = <<>>, !.ended = TRUE]
           f == [q EXCEPT !.buffer = <<>>, !.flight = q.buffer]
           Mid(p) == [hub |-> hub, call |-> call, queue |-> QueueWith(l, p)]
<1>1. q \in QueueType /\ net \in NetType /\ setup \in Setups
  BY Typed
<1>2. t \in QueueType /\ e \in QueueType /\ f \in QueueType
  <2>1. <<>> \in Seq(Message)
    OBVIOUS
  <2>2. QED
    BY <1>1, <2>1 DEF QueueType
<1>3. Mid(t) \in ClientType /\ Mid(e) \in ClientType /\ Mid(f) \in ClientType
  BY <1>2, QueueWithFacts
<1>4. q.flight = <<>> /\ UNCHANGED <<server, ask, setup>>
  BY DEF LoopGoesOn, CanLoop
<1>5. TakeBatch(Client, l) = Mid(t)
  BY DEF TakeBatch, Client, QueueWith
<1>6. [Mid(t) EXCEPT !.queue[l].ended = TRUE] = Mid(e)
  <2>1. [t EXCEPT !.ended = TRUE] = e
    BY <1>1 DEF QueueType
  <2> HIDE DEF t, e
  <2> DEFINE v == TRUE
  <2>2. [QueueWith(l, t) EXCEPT ![l].ended = v] = QueueWith(l, e)
    BY <2>1, Typed DEF QueueWith
  <2>3. SUFFICES [Mid(t) EXCEPT !.queue[l].ended = v] = Mid(e)
    OBVIOUS
  <2> HIDE DEF v
  <2>4. QED
    BY <2>2
<1>7. [Mid(t) EXCEPT !.queue[l].flight = q.buffer] = Mid(f)
  <2>1. [t EXCEPT !.flight = q.buffer] = f
    BY <1>1 DEF QueueType
  <2> HIDE DEF t, f
  <2>2. [QueueWith(l, t) EXCEPT ![l].flight = q.buffer] = QueueWith(l, f)
    BY <2>1, Typed DEF QueueWith
  <2>3. QED
    BY <2>2
<1>8. [net EXCEPT !.up = net.up \o q.buffer] \in NetType
      /\ [net EXCEPT !.up = net.up \o q.buffer].up = net.up \o q.buffer
      /\ [net EXCEPT !.up = net.up \o q.buffer].down = net.down
  <2>1. net.up \o q.buffer \in Seq(Message)
    BY <1>1, ConcatProperties DEF QueueType, NetType
  <2>2. QED
    BY <1>1, <2>1 DEF NetType
<1>9. ASSUME NEW p \in QueueType, NEW batch, NEW ok \in BOOLEAN,
             Becomes(Settle(Mid(p), batch, ok))
      PROVE  Client' \in ClientType /\ queue' = QueueWith(l, p)
             /\ Settles(Client, Client', batch, ok)
  <2>1. Mid(p) \in ClientType
    BY QueueWithFacts
  <2> DEFINE d == Settle(Mid(p), batch, ok)
  <2>2. d \in ClientType /\ d.queue = Mid(p).queue /\ Settles(Mid(p), d, batch, ok)
    BY <2>1, SettleFacts
  <2> HIDE DEF d
  <2>3. Client' = d /\ queue' = d.queue
    BY <1>9, <2>2, BecomesFacts DEF d
  <2>4. Settles(Client, d, batch, ok)
    BY <2>2 DEF Settles, Kept, Client
  <2>5. QED
    BY <2>2, <2>3, <2>4
<1>10. CASE ~q.executing /\ Becomes(EndsLoop(TakeBatch(Client, l), l, q.buffer)) /\ UNCHANGED net
  <2>1. Becomes(Settle(Mid(e), q.buffer, FALSE))
    BY <1>5, <1>6, <1>10 DEF EndsLoop
  <2>2. QED
    BY <1>1, <1>2, <1>4, <1>9, <1>10, <2>1
<1>11. CASE /\ q.executing /\ setup.posts
            /\ Becomes([TakeBatch(Client, l) EXCEPT !.queue[l].flight = q.buffer])
            /\ net' = [net EXCEPT !.up = net.up \o q.buffer]
  <2>1. Becomes(Mid(f))
    BY <1>5, <1>7, <1>11
  <2> DEFINE d == Mid(f)
  <2>2. d.hub = hub /\ d.call = call /\ d.queue = QueueWith(l, f)
    OBVIOUS
  <2> HIDE DEF d
  <2>3. Client' = d /\ hub' = hub /\ call' = call /\ queue' = QueueWith(l, f)
    BY <1>3, <2>1, <2>2, BecomesFacts DEF d
  <2>4. Settles(Client, Client', <<>>, TRUE)
    BY <1>3, <2>2, <2>3, Typed, NothingSettles DEF d
  <2>5. QED
    BY <1>3, <1>4, <1>8, <1>11, <2>3, <2>4 DEF d
<1>12. CASE /\ q.executing /\ ~setup.posts
            /\ Becomes(Settle(TakeBatch(Client, l), q.buffer, TRUE))
            /\ net' = [net EXCEPT !.up = net.up \o q.buffer]
  BY <1>2, <1>4, <1>5, <1>8, <1>9, <1>12
<1>13. QED
  BY <1>10, <1>11, <1>12 DEF LoopGoesOn

LEMMA SendStep ==
  ASSUME NEW c \in ClientType, NEW m \in Message, Becomes(Send(c, m))
  PROVE  Client' \in ClientType /\ Sends(c, Client', m)
BY SendFacts, BecomesFacts

ChainStep(x) ==
  CallWith(x, [call[x] EXCEPT !.chained = call[x].chained + 1, !.chain = "waiting"])
CancelStep(x) == CallWith(x, [call[x] EXCEPT !.cancel = "sent"])

LEMMA ChainFacts ==
  ASSUME TypeOK, NEW x \in Calls, ChainGoesOn(x)
  PROVE  LET m == UploadItem(x, call[x].chained + 1) IN
    /\ CanChain(x) /\ UNCHANGED <<net, server, ask, setup>>
    /\ ChainStep(x) \in ClientType /\ m \in Message
    /\ Client' \in ClientType /\ Sends(ChainStep(x), Client', m)
<1> DEFINE m == UploadItem(x, call[x].chained + 1)
           r == [call[x] EXCEPT !.chained = call[x].chained + 1, !.chain = "waiting"]
<1>1. call[x] \in CallType /\ setup \in Setups /\ x \in Nat
  BY Typed, SetupFacts
<1>2. r \in CallType
  <2>1. call[x].chained + 1 \in Nat
    BY <1>1 DEF CallType
  <2>2. QED
    BY <1>1, <2>1 DEF CallType
<1>3. m \in Message
  BY <1>1, IdFacts DEF UploadItem, Message, CallType
<1>4. ChainStep(x) \in ClientType
  BY <1>2, CallWithFacts DEF ChainStep
<1>5. Becomes(Send(ChainStep(x), m))
  BY DEF ChainGoesOn, ChainStep, CallWith, Client
<1>6. CanChain(x) /\ UNCHANGED <<net, server, ask, setup>>
  BY DEF ChainGoesOn
<1>7. QED
  BY <1>3, <1>4, <1>5, <1>6, SendStep

LEMMA CancelFacts ==
  ASSUME TypeOK, NEW x \in Calls, CancelGoesOn(x)
  PROVE  LET m == CancelInvocation(x) IN
    /\ CanCancel(x) /\ UNCHANGED <<net, server, ask, setup>>
    /\ CancelStep(x) \in ClientType /\ m \in Message
    /\ Client' \in ClientType /\ Sends(CancelStep(x), Client', m)
<1> DEFINE m == CancelInvocation(x)
           r == [call[x] EXCEPT !.cancel = "sent"]
<1>1. call[x] \in CallType /\ setup \in Setups /\ x \in Nat
  BY Typed, SetupFacts
<1>2. r \in CallType
  BY <1>1 DEF CallType
<1>3. m \in Message
  BY <1>1, IdFacts DEF CancelInvocation, Message, CallType
<1>4. CancelStep(x) \in ClientType
  BY <1>2, CallWithFacts DEF CancelStep
<1>5. Becomes(Send(CancelStep(x), m))
  BY Typed DEF CancelGoesOn, CancelStep, CallWith, Client
<1>6. CanCancel(x) /\ UNCHANGED <<net, server, ask, setup>>
  BY DEF CancelGoesOn
<1>7. QED
  BY <1>3, <1>4, <1>5, <1>6, SendStep

NextId(x) == hub.nextId + StreamIds(x) + (IF InvocationId(x) = NoId THEN 0 ELSE 1)
CallStep(x) ==
  LET id == InvocationId(x)
  IN [hub |-> [hub EXCEPT !.nextId = NextId(x), !.callbacks = Register(hub.callbacks, id, x)],
      call |-> [call EXCEPT ![x] = [call[x] EXCEPT !.made = TRUE, !.id = id]],
      queue |-> queue]
CallMessage(x) == [type |-> "Invocation", of |-> x, id |-> InvocationId(x), n |-> 0]

\* The id of a call that is made now.
LEMMA InvocationIdFacts ==
  ASSUME TypeOK, IdsInv(Client), NEW x \in Calls, ~call[x].made
  PROVE  LET id == InvocationId(x) IN
         /\ id \in Id /\ hub.nextId <= NextId(x) /\ NextId(x) <= 2 * x /\ NextId(x) \in Nat
         /\ IF KindOf(x) = "send" THEN id = NoId
            ELSE id \in Nat /\ id >= hub.nextId /\ id < NextId(x)
<1>1. hub.nextId \in Nat /\ setup \in Setups
  BY Typed DEF HubType
<1>2. x \in Nat /\ x >= 1 /\ x <= Len(setup.calls) /\ Len(setup.calls) \in Nat
  BY <1>1, SetupFacts
<1>3. hub.nextId <= 2 * (x - 1)
  BY Typed DEF IdsInv
<1>4. StreamIds(x) \in {0, 1}
  BY DEF StreamIds
<1>5. QED
  BY <1>1, <1>2, <1>3, <1>4 DEF InvocationId, NextId, Id, NoId

LEMMA CallFacts ==
  ASSUME TypeOK, IdsInv(Client), NEW x \in Calls, Call(x)
  PROVE
    /\ ~call[x].made /\ \A y \in 1 .. x - 1 : call[y].made
    /\ UNCHANGED <<net, server, ask, setup>>
    /\ CallStep(x) \in ClientType /\ CallMessage(x) \in Message
    /\ Client' \in ClientType /\ Sends(CallStep(x), Client', CallMessage(x))
<1> DEFINE id == InvocationId(x)
           r == [call[x] EXCEPT !.made = TRUE, !.id = id]
           h == [hub EXCEPT !.nextId = NextId(x), !.callbacks = Register(hub.callbacks, id, x)]
<1>1. ~call[x].made /\ (\A y \in 1 .. x - 1 : call[y].made) /\ UNCHANGED <<net, server, ask, setup>>
  BY DEF Call
<1>2. call[x] \in CallType /\ setup \in Setups /\ x \in Nat /\ hub \in HubType
  BY Typed, SetupFacts
<1>3. id \in Id /\ NextId(x) \in Nat /\ id \in Int
  BY <1>1, <1>2, InvocationIdFacts, IdFacts
<1>4. r \in CallType
  BY <1>2, <1>3 DEF CallType
<1>5. Register(hub.callbacks, id, x) \in SUBSET (Id \X Calls)
  BY <1>2, <1>3 DEF Register, HubType
<1>6. h \in HubType
  BY <1>2, <1>3, <1>5 DEF HubType
<1>7. [call EXCEPT ![x] = r] \in [Calls -> CallType]
  BY <1>4, Typed
<1>8. CallStep(x) = [hub |-> h, call |-> [call EXCEPT ![x] = r], queue |-> queue]
  BY DEF CallStep
<1> HIDE DEF h, r
<1>9. CallStep(x) \in ClientType
  BY <1>6, <1>7, <1>8, Typed DEF ClientType
<1>10. CallMessage(x) \in Message
  BY <1>2, <1>3 DEF CallMessage, Message
<1>11. Becomes(Send(CallStep(x), CallMessage(x)))
  BY DEF Call, CallStep, CallMessage, NextId
<1>12. QED
  BY <1>1, <1>9, <1>10, <1>11, SendStep

LEMMA PushFacts ==
  ASSUME TypeOK, NEW x \in Calls, Push(x)
  PROVE
    /\ call[x].made /\ UNCHANGED <<hub, queue, net, server, ask, setup>>
    /\ Client' = CallWith(x, [call[x] EXCEPT !.pushed = call[x].pushed + 1])
    /\ Client' \in ClientType
<1> DEFINE r == [call[x] EXCEPT !.pushed = call[x].pushed + 1]
<1>1. call[x] \in CallType
  BY Typed
<1>2. r \in CallType
  BY <1>1 DEF CallType
<1>3. call' = [call EXCEPT ![x] = r] /\ call[x].made /\ UNCHANGED <<hub, queue, net, server, ask, setup>>
  BY DEF Push
<1>4. Client' = CallWith(x, r)
  BY <1>3 DEF Client, CallWith
<1>5. QED
  BY <1>2, <1>3, <1>4, CallWithFacts

LEMMA DisposeFacts ==
  ASSUME TypeOK, NEW x \in Calls, Dispose(x)
  PROVE
    /\ KindOf(x) = "stream" /\ call[x].made /\ call[x].cancel = "no"
    /\ UNCHANGED <<queue, net, server, ask, setup>>
    /\ hub' = [hub EXCEPT !.callbacks = {p \in hub.callbacks : p[1] # call[x].id}]
    /\ call' = [call EXCEPT ![x] = [call[x] EXCEPT !.cancel = "wanted"]]
    /\ Client' \in ClientType
<1> DEFINE r == [call[x] EXCEPT !.cancel = "wanted"]
           k == {p \in hub.callbacks : p[1] # call[x].id}
<1>1. call[x] \in CallType /\ hub \in HubType
  BY Typed
<1>2. r \in CallType
  BY <1>1 DEF CallType
<1>3. k \in SUBSET (Id \X Calls)
  BY <1>1 DEF HubType
<1>4. /\ hub' = [hub EXCEPT !.callbacks = k] /\ call' = [call EXCEPT ![x] = r]
      /\ KindOf(x) = "stream" /\ call[x].made /\ call[x].cancel = "no"
      /\ UNCHANGED <<queue, net, server, ask, setup>>
  BY DEF Dispose
<1> HIDE DEF k, r
<1>5. hub' \in HubType
  BY <1>1, <1>3, <1>4 DEF HubType
<1>6. call' \in [Calls -> CallType]
  BY <1>2, <1>4, Typed
<1>7. Client' \in ClientType
  BY <1>4, <1>5, <1>6, Typed DEF Client, ClientType
<1>8. QED
  BY <1>4, <1>7 DEF k, r

\* On, Off.
LEMMA MethodsFacts ==
  ASSUME TypeOK, On \/ Off
  PROVE
    /\ UNCHANGED <<call, queue, net, server, ask, setup>>
    /\ \E n \in 0 .. MaxMethods : hub' = [hub EXCEPT !.methods = n]
    /\ Client' \in ClientType
<1>1. hub \in HubType /\ hub.methods \in 0 .. MaxMethods /\ MaxMethods \in Nat
  BY Typed, Bounds DEF HubType
<1>2. UNCHANGED <<call, queue, net, server, ask, setup>>
  BY DEF On, Off
<1>3. PICK n \in 0 .. MaxMethods : hub' = [hub EXCEPT !.methods = n]
  BY <1>1 DEF On, Off
<1>4. hub' \in HubType
  BY <1>1, <1>3 DEF HubType
<1>5. Client' \in ClientType
  BY <1>2, <1>4, Typed DEF Client, ClientType
<1>6. QED
  BY <1>2, <1>3, <1>5

\* What an ask becomes when a handler of it ends.
Rest(r) == IF r.left = 0 THEN [r EXCEPT !.pc = "done"] ELSE r

LEMMA VerdictFacts ==
  ASSUME NEW r \in AskType, NEW a \in Nat
  PROVE  Reply(a, r) \in Message /\ Reply(a, r).type = "Reply" /\ Reply(a, r).of = a
         /\ Reply(a, r).n \in DOMAIN Replies
<1>1. DOMAIN Replies = 1 .. 4
  BY DEF Replies
<1>2. \E n \in DOMAIN Replies : Replies[n] = Verdict(r)
  <2>1. Replies[1] = "result" /\ Replies[2] = "several" /\ Replies[3] = "threw" /\ Replies[4] = "none"
    BY DEF Replies
  <2>2. Verdict(r) \in {"result", "several", "threw", "none"}
    BY DEF Verdict
  <2>3. QED
    BY <1>1, <2>1, <2>2
<1> DEFINE k == CHOOSE n \in DOMAIN Replies : Replies[n] = Verdict(r)
<1>3. k \in DOMAIN Replies /\ k \in Nat
  BY <1>1, <1>2
<1>4. Reply(a, r) = [type |-> "Reply", of |-> a, id |-> 0, n |-> k]
  BY DEF Reply
<1> HIDE DEF k
<1>5. QED
  BY <1>3, <1>4 DEF Message

LEMMA RanFacts ==
  ASSUME TypeOK, NEW a \in Asks, NEW r \in AskType, Ran(a, r)
  PROVE
    /\ ask' = [ask EXCEPT ![a] = Rest(r)] /\ ask' \in [Asks -> AskType]
    /\ Client' \in ClientType
    /\ IF r.left = 0 /\ setup.expects
       THEN Reply(a, r) \in Message /\ Sends(Client, Client', Reply(a, r))
       ELSE Client' = Client
<1>1. a \in Nat /\ setup \in Setups
  BY Typed, SetupFacts DEF Asks
<1>2. ask' = [ask EXCEPT ![a] = Rest(r)]
  BY DEF Ran, Rest
<1>3. Rest(r) \in AskType
  BY DEF Rest, AskType
<1>4. ask' \in [Asks -> AskType]
  BY <1>2, <1>3, Typed
<1>5. CASE r.left = 0 /\ setup.expects
  <2>1. Reply(a, r) \in Message
    BY <1>1, VerdictFacts
  <2>2. Becomes(Send(Client, Reply(a, r)))
    BY <1>5 DEF Ran
  <2>3. QED
    BY <1>2, <1>4, <1>5, <2>1, <2>2, SendStep, Typed
<1>6. CASE ~(r.left = 0 /\ setup.expects)
  <2>1. Client' = Client
    BY <1>6 DEF Ran, Client
  <2>2. QED
    BY <1>2, <1>4, <1>6, <2>1, Typed
<1>7. QED
  BY <1>5, <1>6

LEMMA HandlerFacts ==
  ASSUME TypeOK, AsksInv, NEW a \in Asks, NEW how, HandlerEnds(a, how)
  PROVE
    /\ ask[a].pc = "running" /\ UNCHANGED <<net, server, setup>>
    /\ \E r \in AskType : r.pc = "running" /\ r.replies = ask[a].replies /\ Ran(a, r)
<1> DEFINE s == [ask[a] EXCEPT !.left = ask[a].left - 1]
           t == [s EXCEPT !.threw = TRUE]
           u == [s EXCEPT !.threw = FALSE, !.res = (how = "value"),
                          !.several = s.several \/ (setup.expects /\ how = "value" /\ s.res)]
<1>1. ask[a] \in AskType /\ ask[a].pc = "running" /\ ask[a].left > 0
  BY Typed DEF HandlerEnds, AsksInv
<1>2. UNCHANGED <<net, server, setup>>
  BY DEF HandlerEnds
<1>3. s \in AskType /\ s.pc = "running" /\ s.replies = ask[a].replies
  <2>1. ask[a].left - 1 \in 0 .. MaxMethods
    BY <1>1, Bounds DEF AskType
  <2>2. QED
    BY <1>1, <2>1 DEF AskType
<1>4. Ran(a, IF how = "throws" THEN t ELSE u)
  BY DEF HandlerEnds
<1> HIDE DEF s
<1>5. t \in AskType /\ t.pc = "running" /\ t.replies = ask[a].replies
  BY <1>3 DEF AskType
<1>6. u \in AskType /\ u.pc = "running" /\ u.replies = ask[a].replies
  <2> DEFINE v == (how = "value")
             w == (s.several \/ (setup.expects /\ how = "value" /\ s.res))
  <2>1. v \in BOOLEAN /\ w \in BOOLEAN
    OBVIOUS
  <2>2. u = [s EXCEPT !.threw = FALSE, !.res = v, !.several = w]
    OBVIOUS
  <2> HIDE DEF u, v, w
  <2>3. QED
    BY <1>3, <2>1, <2>2 DEF AskType
<1>7. QED
  BY <1>1, <1>2, <1>4, <1>5, <1>6

LEMMA InvokeFacts ==
  ASSUME TypeOK, NEW a \in Asks, Invoke(a)
  PROVE  \E r \in AskType : r.pc = "running" /\ r.replies = ask[a].replies /\ Ran(a, r)
<1> DEFINE r == [ask[a] EXCEPT !.pc = "running", !.left = hub.methods]
<1>1. r \in AskType /\ r.pc = "running" /\ r.replies = ask[a].replies
  <2>1. hub.methods \in 0 .. MaxMethods
    BY Typed DEF HubType
  <2>2. ask[a] \in AskType
    BY Typed
  <2>3. QED
    BY <2>1, <2>2 DEF AskType
<1>2. Ran(a, r)
  BY DEF Invoke
<1>3. QED
  BY <1>1, <1>2

\* The call whose callback is registered for a message.
LEMMA RegisteredFacts ==
  ASSUME TypeOK, NEW m
  PROVE  \/ Registered(m) = NoCall /\ \A x \in Calls : <<m.id, x>> \notin hub.callbacks
         \/ Registered(m) \in Calls /\ <<m.id, Registered(m)>> \in hub.callbacks
<1>1. hub.callbacks \subseteq Id \X Calls
  BY Typed DEF HubType
<1>2. CASE \E p \in hub.callbacks : p[1] = m.id
  <2> DEFINE p == CHOOSE p \in hub.callbacks : p[1] = m.id
  <2>1. p \in hub.callbacks /\ p[1] = m.id
    BY <1>2
  <2>2. Registered(m) = p[2]
    BY <1>2 DEF Registered
  <2> HIDE DEF p
  <2>3. p = <<p[1], p[2]>> /\ p[2] \in Calls
    BY <1>1, <2>1
  <2>4. QED
    BY <2>1, <2>2, <2>3
<1>3. CASE ~\E p \in hub.callbacks : p[1] = m.id
  BY <1>3 DEF Registered
<1>4. QED
  BY <1>2, <1>3

LEMMA CallStepTyped ==
  ASSUME TypeOK, NEW x \in Calls, NEW r \in CallType,
         hub' \in HubType, queue' = queue, call' = [call EXCEPT ![x] = r]
  PROVE  Client' \in ClientType
<1>1. call' \in [Calls -> CallType]
  BY Typed
<1>2. QED
  BY <1>1, Typed DEF Client, ClientType

WithoutId(id) == {p \in hub.callbacks : p[1] # id}
AfterItem(r, m) == [r EXCEPT !.seen = Append(r.seen, Item(m.n))]
AfterCompletion(r, x, m) ==
  IF KindOf(x) = "stream"
  THEN [r EXCEPT !.seen = Append(r.seen, IF m.n = 0 THEN Failed ELSE Completed)]
  ELSE [r EXCEPT !.outcome = IF r.outcome # "pending" THEN r.outcome
                             ELSE IF m.n = 0 THEN "rejected" ELSE "resolved"]

\* An answer is for the call that is registered, or for none.
LEMMA ItemFacts ==
  ASSUME TypeOK, NEW m, m.n \in 1 .. MaxItems, StreamItem(m)
  PROVE
    /\ UNCHANGED <<hub, queue, ask>> /\ Client' \in ClientType
    /\ \/ Client' = Client /\ \A x \in Calls : <<m.id, x>> \notin hub.callbacks
       \/ \E x \in Calls : /\ <<m.id, x>> \in hub.callbacks
                           /\ call' = [call EXCEPT ![x] = AfterItem(call[x], m)]
<1>1. UNCHANGED <<hub, queue, ask>>
  BY DEF StreamItem
<1>2. CASE Registered(m) = NoCall /\ \A x \in Calls : <<m.id, x>> \notin hub.callbacks
  <2>1. Client' = Client
    BY <1>1, <1>2 DEF StreamItem, Client
  <2>2. QED
    BY <1>1, <1>2, <2>1, Typed
<1>3. CASE Registered(m) \in Calls /\ <<m.id, Registered(m)>> \in hub.callbacks
  <2> DEFINE x == Registered(m)
  <2>1. x # NoCall
    BY <1>3, Typed, SetupFacts DEF NoCall
  <2>2. call' = [call EXCEPT ![x] = AfterItem(call[x], m)]
    BY <2>1 DEF StreamItem, Observe, AfterItem
  <2>3. AfterItem(call[x], m) \in CallType
    <3>1. call[x] \in CallType
      BY <1>3, Typed
    <3>2. Append(call[x].seen, Item(m.n)) \in Seq(Notice)
      BY <3>1, NoticeFacts, AppendProperties DEF CallType
    <3>3. QED
      BY <3>1, <3>2 DEF AfterItem, CallType
  <2>4. Client' \in ClientType
    BY <1>1, <1>3, <2>2, <2>3, CallStepTyped, Typed
  <2>5. QED
    BY <1>1, <1>3, <2>2, <2>4
<1>4. QED
  BY <1>2, <1>3, RegisteredFacts

LEMMA CompletionFacts ==
  ASSUME TypeOK, NEW m, Complete(m)
  PROVE
    /\ UNCHANGED <<queue, ask>> /\ Client' \in ClientType
    /\ \/ Client' = Client /\ \A x \in Calls : <<m.id, x>> \notin hub.callbacks
       \/ \E x \in Calls :
            /\ <<m.id, x>> \in hub.callbacks
            /\ hub' = [hub EXCEPT !.callbacks = WithoutId(m.id)]
            /\ call' = [call EXCEPT ![x] = AfterCompletion(call[x], x, m)]
<1>1. UNCHANGED <<queue, ask>> /\ hub' = [hub EXCEPT !.callbacks = WithoutId(m.id)]
  BY DEF Complete, WithoutId
<1>2. hub \in HubType /\ hub.callbacks \subseteq Id \X Calls
  BY Typed DEF HubType
<1>3. CASE Registered(m) = NoCall /\ \A x \in Calls : <<m.id, x>> \notin hub.callbacks
  <2>1. \A p \in hub.callbacks : p[1] # m.id
    <3>1. \A p \in hub.callbacks : p = <<p[1], p[2]>> /\ p[2] \in Calls
      BY <1>2
    <3>2. QED
      BY <1>3, <3>1
  <2>2. WithoutId(m.id) = hub.callbacks
    BY <2>1 DEF WithoutId
  <2>3. hub' = hub
    BY <1>1, <1>2, <2>2 DEF HubType
  <2>4. Client' = Client
    BY <1>1, <1>3, <2>3 DEF Complete, Client
  <2>5. QED
    BY <1>1, <1>3, <2>4, Typed
<1>4. CASE Registered(m) \in Calls /\ <<m.id, Registered(m)>> \in hub.callbacks
  <2> DEFINE x == Registered(m)
             what == IF m.n = 0 THEN Failed ELSE Completed
             outcome == IF call[x].outcome # "pending" THEN call[x].outcome
                        ELSE IF m.n = 0 THEN "rejected" ELSE "resolved"
  <2>1. x # NoCall /\ call[x] \in CallType
    BY <1>4, Typed, SetupFacts DEF NoCall
  <2>2. call' = [call EXCEPT ![x] = AfterCompletion(call[x], x, m)]
    BY <2>1 DEF Complete, Observe, AfterCompletion
  <2>3. AfterCompletion(call[x], x, m) \in CallType
    <3>1. Append(call[x].seen, what) \in Seq(Notice)
      BY <2>1, NoticeFacts, AppendProperties DEF CallType
    <3>2. outcome \in {"pending", "resolved", "rejected"}
      BY <2>1 DEF CallType
    <3>3. AfterCompletion(call[x], x, m) =
            IF KindOf(x) = "stream" THEN [call[x] EXCEPT !.seen = Append(call[x].seen, what)]
            ELSE [call[x] EXCEPT !.outcome = outcome]
      BY DEF AfterCompletion
    <3> HIDE DEF what, outcome
    <3>4. QED
      BY <2>1, <3>1, <3>2, <3>3 DEF CallType
  <2>4. hub' \in HubType
    BY <1>1, <1>2 DEF WithoutId, HubType
  <2>5. Client' \in ClientType
    BY <1>1, <1>4, <2>2, <2>3, <2>4, CallStepTyped
  <2>6. QED
    BY <1>1, <1>4, <2>2, <2>5
<1>5. QED
  BY <1>3, <1>4, RegisteredFacts

LEMMA PostFacts ==
  ASSUME TypeOK, NEW l \in Life, NEW ok \in BOOLEAN, NEW arrived \in BOOLEAN,
         PostEnds(l, ok, arrived)
  PROVE
    /\ queue[l].flight # <<>> /\ (ok => arrived) /\ UNCHANGED <<server, ask, setup>>
    /\ Client' \in ClientType /\ net' \in NetType /\ net'.down = net.down
    /\ Settles(Client, Client', queue[l].flight, ok)
    /\ queue' = QueueWith(l, [queue[l] EXCEPT !.flight = <<>>])
    /\ net'.up = IF arrived \/ l # hub.life THEN net.up ELSE SubSeq(net.up, 1, Unheard(l))
<1> DEFINE q == [queue[l] EXCEPT !.flight = <<>>]
           mid == [hub |-> hub, call |-> call, queue |-> QueueWith(l, q)]
           d == Settle(mid, queue[l].flight, ok)
<1>1. queue[l] \in QueueType /\ net \in NetType /\ hub \in HubType
  BY Typed
<1>2. q \in QueueType
  <2>1. <<>> \in Seq(Message)
    OBVIOUS
  <2>2. QED
    BY <1>1, <2>1 DEF QueueType
<1>3. mid \in ClientType
  BY <1>2, QueueWithFacts
<1>4. Becomes(d)
  BY DEF PostEnds, Client, QueueWith
<1>5. d \in ClientType /\ d.queue = QueueWith(l, q) /\ Settles(mid, d, queue[l].flight, ok)
  BY <1>3, SettleFacts
<1>6. Settles(Client, d, queue[l].flight, ok)
  BY <1>5 DEF Settles, Kept, Client
<1> HIDE DEF d
<1>7. /\ Client' \in ClientType /\ queue' = QueueWith(l, q)
      /\ Settles(Client, Client', queue[l].flight, ok)
  BY <1>4, <1>5, <1>6, BecomesFacts
<1>8. /\ queue[l].flight # <<>> /\ (ok => arrived) /\ UNCHANGED <<server, ask, setup>>
      /\ net' = IF arrived \/ l # hub.life THEN net
                ELSE [net EXCEPT !.up = SubSeq(net.up, 1, Unheard(l))]
  BY DEF PostEnds
<1>9. Len(net.up) \in Nat /\ Len(queue[l].flight) \in Nat
  BY <1>1, LenProperties DEF NetType, QueueType
<1>10. Unheard(l) \in 0 .. Len(net.up)
  <2> DEFINE a == Len(net.up)
             b == Len(queue[l].flight)
  <2>1. Unheard(l) = IF a < b THEN 0 ELSE a - b
    BY DEF Unheard
  <2>0. a \in Nat /\ b \in Nat
    BY <1>9
  <2> HIDE DEF a, b
  <2>2. Unheard(l) \in 0 .. a
    BY <2>0, <2>1
  <2>3. QED
    BY <2>2 DEF a
<1>11. SubSeq(net.up, 1, Unheard(l)) \in Seq(Message)
  BY <1>1, <1>9, <1>10, SubSeqProperties DEF NetType
<1>12. /\ net' \in NetType /\ net'.down = net.down
       /\ net'.up = IF arrived \/ l # hub.life THEN net.up ELSE SubSeq(net.up, 1, Unheard(l))
  BY <1>1, <1>8, <1>11 DEF NetType
<1>13. QED
  BY <1>7, <1>8, <1>12

\* The calls after their callbacks were cancelled.
Told == {x \in Calls : \E i \in Id : <<i, x>> \in hub.callbacks}

LEMMA CloseFacts ==
  ASSUME TypeOK, Close
  PROVE
    /\ hub.connected /\ UNCHANGED <<server, setup>>
    /\ Client' \in ClientType
    /\ hub' = [hub EXCEPT !.connected = FALSE, !.callbacks = {}]
    /\ call' = [x \in Calls |-> IF x \in Told THEN AfterCancel(call[x], x) ELSE call[x]]
    /\ queue' = QueueWith(hub.life, [queue[hub.life] EXCEPT !.executing = FALSE])
    /\ net' \in NetType /\ net'.up = <<>> /\ net'.down = <<>>
    /\ ask' = [a \in Asks |-> IF ask[a].pc = "coming" THEN [ask[a] EXCEPT !.pc = "done"] ELSE ask[a]]
    /\ ask' \in [Asks -> AskType]
<1> DEFINE q == [queue[hub.life] EXCEPT !.executing = FALSE]
           h == [hub EXCEPT !.connected = FALSE, !.callbacks = {}]
           f == [x \in Calls |-> IF x \in Told THEN AfterCancel(call[x], x) ELSE call[x]]
           e == [queue EXCEPT ![hub.life].executing = FALSE]
           mid == [hub |-> [hub EXCEPT !.connected = FALSE], call |-> call, queue |-> e]
           d == [hub |-> h, call |-> f, queue |-> e]
<1>1. hub \in HubType /\ hub.life \in Life /\ hub.callbacks \subseteq Id \X Calls
  BY Typed DEF HubType
<1>2. e = QueueWith(hub.life, q)
  BY <1>1, Typed DEF QueueWith
<1>3. q \in QueueType
  BY <1>1, Typed DEF QueueType
<1>4. {p[2] : p \in hub.callbacks} = Told
  <2>1. \A p \in hub.callbacks : p = <<p[1], p[2]>> /\ p[1] \in Id /\ p[2] \in Calls
    BY <1>1
  <2>2. QED
    BY <2>1 DEF Told
<1>5. CancelCallbacks(mid) = d
  <2>1. mid.hub.callbacks = hub.callbacks
    BY <1>1 DEF HubType
  <2>2. [mid.hub EXCEPT !.callbacks = {}] = h
    BY <1>1 DEF HubType
  <2>3. QED
    BY <1>4, <2>1, <2>2 DEF CancelCallbacks
<1>6. ASSUME NEW x \in Calls PROVE AfterCancel(call[x], x) \in CallType
  <2>1. call[x] \in CallType
    BY Typed
  <2>2. Append(call[x].seen, Failed) \in Seq(Notice)
    BY <2>1, NoticeFacts, AppendProperties DEF CallType
  <2>3. QED
    BY <2>1, <2>2 DEF AfterCancel, CallType
<1>7. f \in [Calls -> CallType]
  BY <1>6, Typed
<1>8. h \in HubType
  BY <1>1 DEF HubType
<1>9. e \in [Life -> QueueType]
  BY <1>1, <1>2, <1>3, QueueWithFacts
<1>10. d \in ClientType
  BY <1>7, <1>8, <1>9 DEF ClientType
<1>11. Becomes(d)
  BY <1>5 DEF Close
<1>12. Client' \in ClientType /\ hub' = h /\ call' = f /\ queue' = e
  <2>1. d.hub = h /\ d.call = f /\ d.queue = e
    OBVIOUS
  <2> HIDE DEF d, h, f, e
  <2>2. QED
    BY <1>10, <1>11, <2>1, BecomesFacts
<1>13. /\ hub.connected /\ UNCHANGED <<server, setup>>
       /\ net' = [up |-> <<>>, down |-> <<>>]
       /\ ask' = [a \in Asks |-> IF ask[a].pc = "coming" THEN [ask[a] EXCEPT !.pc = "done"] ELSE ask[a]]
  BY DEF Close
<1>14. net' \in NetType
  BY <1>13 DEF NetType
<1>15. ask' \in [Asks -> AskType]
  BY <1>13, Typed DEF AskType
<1>16. QED
  BY <1>2, <1>12, <1>13, <1>14, <1>15

LEMMA ReopenFacts ==
  ASSUME TypeOK, Reopen
  PROVE
    /\ ~hub.connected /\ hub.life < MaxLives
    /\ UNCHANGED <<call, queue, net, server, ask, setup>>
    /\ hub' = [hub EXCEPT !.connected = TRUE, !.life = hub.life + 1]
    /\ Client' \in ClientType
<1>1. hub \in HubType /\ hub.life \in Life /\ MaxLives \in Nat
  BY Typed, Bounds DEF HubType
<1>2. /\ ~hub.connected /\ hub.life < MaxLives
      /\ UNCHANGED <<call, queue, net, server, ask, setup>>
      /\ hub' = [hub EXCEPT !.connected = TRUE, !.life = hub.life + 1]
  BY DEF Reopen
<1>3. hub.life + 1 \in Life
  BY <1>1, <1>2 DEF Life
<1>4. hub' \in HubType
  BY <1>1, <1>2, <1>3 DEF HubType
<1>5. Client' \in ClientType
  BY <1>2, <1>4, Typed DEF Client, ClientType
<1>6. QED
  BY <1>2, <1>5

-----------------------------------------------------------------------------
(* What the actions do to the server                                       *)

\* The server knows a call by the id it was made with.
ServerInv ==
  \A x \in Calls :
    /\ IF server[x].state = "no" THEN server[x].items = 0
       ELSE call[x].made /\ server[x].id = call[x].id
    /\ server[x].heard # <<>> => call[x].made

Begun(x, m) ==
  [server[x] EXCEPT !.state = "running", !.id = m.id, !.items = 0,
                    !.heard = Append(server[x].heard, At(0))]
Hearing(x, n) == [server[x] EXCEPT !.heard = Append(server[x].heard, At(n))]
Done(x) == [server[x] EXCEPT !.state = "done"]
ServerWith(x, r) == [server EXCEPT ![x] = r]
Answered(a, m) == [ask[a] EXCEPT !.replies = Append(ask[a].replies, Replies[m.n])]

LEMMA HeardFacts ==
  ASSUME TypeOK, NEW x \in Calls, NEW n \in Nat
  PROVE  /\ At(n) = <<hub.life, n>> /\ Append(server[x].heard, At(n)) \in Seq(Life \X Nat)
         /\ Hearing(x, n) \in ServerType
<1>1. hub.life \in Life /\ server[x] \in ServerType
  BY Typed DEF HubType
<1>2. At(n) = <<hub.life, n>> /\ At(n) \in Life \X Nat
  BY <1>1 DEF At
<1>3. Append(server[x].heard, At(n)) \in Seq(Life \X Nat)
  BY <1>1, <1>2, AppendProperties DEF ServerType
<1>4. Hearing(x, n) \in ServerType
  BY <1>1, <1>3 DEF Hearing, ServerType
<1>5. QED
  BY <1>2, <1>3, <1>4

LEMMA HeadFacts ==
  ASSUME NEW S, NEW s \in Seq(S), s # <<>>
  PROVE  /\ Head(s) \in S /\ Head(s) = s[1] /\ 1 \in DOMAIN s
         /\ Tail(s) \in Seq(S) /\ Len(Tail(s)) = Len(s) - 1 /\ Len(s) \in Nat \ {0}
         /\ DOMAIN s = 1 .. Len(s) /\ DOMAIN Tail(s) = 1 .. Len(s) - 1
         /\ \A i \in 1 .. Len(s) - 1 : Tail(s)[i] = s[i + 1]
<1>1. Len(s) \in Nat /\ Len(s) # 0 /\ DOMAIN s = 1 .. Len(s)
  BY LenProperties, EmptySeq
<1>2. Head(s) \in S /\ Tail(s) \in Seq(S) /\ Len(Tail(s)) = Len(s) - 1 /\ Head(s) = s[1]
      /\ \A i \in 1 .. Len(s) - 1 : Tail(s)[i] = s[i + 1]
  BY <1>1, HeadTailProperties
<1>3. DOMAIN Tail(s) = 1 .. Len(s) - 1
  BY <1>2, LenProperties
<1>4. QED
  BY <1>1, <1>2, <1>3

LEMMA ServerReceivesFacts ==
  ASSUME TypeOK, IdsInv(Client), ServerInv, MessagesInv, ServerReceives
  PROVE  LET m == Head(net.up)   x == m.of IN
    /\ hub.connected /\ net.up # <<>> /\ UNCHANGED <<hub, call, queue, setup>>
    /\ net' \in NetType /\ net'.up = Tail(net.up) /\ net'.down = net.down
    /\ m \in Message /\ UpWell(m) /\ m = net.up[1]
    /\ server' \in [Calls -> ServerType] /\ ask' \in [Asks -> AskType]
    /\ \/ /\ m.type = "Invocation" /\ server' = ServerWith(x, Begun(x, m)) /\ ask' = ask
       \/ /\ m.type \in {"StreamItem", "Completion"} /\ server' = ServerWith(x, Hearing(x, m.n))
          /\ ask' = ask
       \/ /\ m.type = "CancelInvocation" /\ ask' = ask
          /\ server' = IF server[x].state = "running" THEN ServerWith(x, Done(x)) ELSE server
       \/ /\ m.type = "Reply" /\ server' = server /\ ask' = [ask EXCEPT ![x] = Answered(x, m)]
<1> DEFINE m == Head(net.up)
           x == m.of
<1>1. net \in NetType /\ hub.connected /\ net.up # <<>> /\ UNCHANGED <<hub, call, queue, setup>>
      /\ net' = [net EXCEPT !.up = Tail(net.up)]
  BY Typed DEF ServerReceives
<1>2. m \in Message /\ m = net.up[1] /\ 1 \in DOMAIN net.up /\ Tail(net.up) \in Seq(Message)
  BY <1>1, HeadFacts DEF NetType
<1>3. UpWell(m)
  BY <1>2 DEF MessagesInv, AllUp
<1>4. net' \in NetType /\ net'.up = Tail(net.up) /\ net'.down = net.down
  BY <1>1, <1>2 DEF NetType
<1> HIDE DEF m
<1>5. m.of \in Nat /\ m.id \in Int /\ m.n \in Nat
  BY <1>2 DEF Message
<1>6. CASE m.type = "Invocation"
  <2>1. x \in Calls /\ m.id = call[x].id
    BY <1>3, <1>6 DEF UpWell
  <2>2. server' = ServerWith(x, Begun(x, m)) /\ ask' = ask
    BY <1>6, Typed, <2>1 DEF ServerReceives, m, ServerWith, Begun
  <2>3. Begun(x, m) \in ServerType
    <3>1. server[x] \in ServerType /\ m.id \in Id /\ 0 \in 0 .. MaxItems
      BY <2>1, Typed, Bounds DEF CallType
    <3>2. Append(server[x].heard, At(0)) \in Seq(Life \X Nat)
      BY <2>1, HeardFacts
    <3>3. QED
      BY <3>1, <3>2 DEF Begun, ServerType
  <2>4. server' \in [Calls -> ServerType]
    BY <2>1, <2>2, <2>3, Typed DEF ServerWith
  <2>5. QED
    BY <1>1, <1>2, <1>3, <1>4, <1>6, <2>2, <2>4, Typed DEF m
<1>7. CASE m.type \in {"StreamItem", "Completion"}
  <2>1. x \in Calls
    BY <1>3, <1>7 DEF UpWell
  <2>2. server' = ServerWith(x, Hearing(x, m.n)) /\ ask' = ask
    BY <1>7, Typed, <2>1 DEF ServerReceives, m, ServerWith, Hearing
  <2>3. Hearing(x, m.n) \in ServerType
    BY <1>5, <2>1, HeardFacts
  <2>4. server' \in [Calls -> ServerType]
    BY <2>1, <2>2, <2>3, Typed DEF ServerWith
  <2>5. QED
    BY <1>1, <1>2, <1>3, <1>4, <1>7, <2>2, <2>4, Typed DEF m
<1>8. CASE m.type = "CancelInvocation"
  <2>1. x \in Calls /\ call[x].made /\ m.id = call[x].id /\ KindOf(x) = "stream"
    BY <1>3, <1>8 DEF UpWell
  <2>2. \A y \in Calls : server[y].state = "running" /\ server[y].id = m.id <=>
                           y = x /\ server[y].state = "running"
    <3>1. ASSUME NEW y \in Calls, server[y].state = "running", server[y].id = m.id PROVE y = x
      <4>1. call[y].made /\ call[y].id = m.id
        BY <3>1 DEF ServerInv
      <4>2. QED
        BY <2>1, <4>1, Typed DEF IdsInv
    <3>2. ASSUME server[x].state = "running" PROVE server[x].id = m.id
      BY <2>1, <3>2 DEF ServerInv
    <3>3. QED
      BY <3>1, <3>2
  <2>3. server' = [c \in Calls |-> IF server[c].state = "running" /\ server[c].id = m.id
                                   THEN [server[c] EXCEPT !.state = "done"] ELSE server[c]]
        /\ ask' = ask
    BY <1>8 DEF ServerReceives, m
  <2>4. server' = IF server[x].state = "running" THEN ServerWith(x, Done(x)) ELSE server
    BY <2>1, <2>2, <2>3, Typed DEF ServerWith, Done
  <2>5. Done(x) \in ServerType
    <3>1. server[x] \in ServerType
      BY <2>1, Typed
    <3>2. QED
      BY <3>1 DEF Done, ServerType
  <2>6. server' \in [Calls -> ServerType]
    BY <2>1, <2>4, <2>5, Typed DEF ServerWith
  <2>7. QED
    BY <1>1, <1>2, <1>3, <1>4, <1>8, <2>3, <2>4, <2>6, Typed DEF m
<1>9. CASE m.type = "Reply"
  <2>1. x \in Asks /\ m.n \in DOMAIN Replies
    BY <1>3, <1>9 DEF UpWell
  <2>2. server' = server /\ ask' = [ask EXCEPT ![x] = Answered(x, m)]
    BY <1>9, Typed, <2>1 DEF ServerReceives, m, Answered
  <2>3. Replies[m.n] \in {"result", "several", "threw", "none"}
    BY <2>1 DEF Replies
  <2>4. ask[x] \in AskType
    BY <2>1, Typed
  <2>5. Append(ask[x].replies, Replies[m.n]) \in Seq({"result", "several", "threw", "none"})
    BY <2>3, <2>4, AppendProperties DEF AskType
  <2>6. Answered(x, m) \in AskType
    BY <2>4, <2>5 DEF Answered, AskType
  <2>7. ask' \in [Asks -> AskType]
    BY <2>1, <2>2, <2>6, Typed
  <2>8. QED
    BY <1>1, <1>2, <1>3, <1>4, <1>9, <2>2, <2>7, Typed DEF m
<1>10. QED
  BY <1>3, <1>6, <1>7, <1>8, <1>9 DEF UpWell

LEMMA DownFacts ==
  ASSUME TypeOK, NEW m \in Message, Down(m)
  PROVE  net' \in NetType /\ net'.up = net.up /\ net'.down = Append(net.down, m)
<1>1. net \in NetType
  BY Typed
<1>2. Append(net.down, m) \in Seq(Message)
  BY <1>1, AppendProperties DEF NetType
<1>3. QED
  BY <1>1, <1>2 DEF NetType, Down

ItemMessage(x) == [type |-> "StreamItem", of |-> x, id |-> server[x].id, n |-> server[x].items + 1]
EndMessage(x, ok) == [type |-> "Completion", of |-> x, id |-> server[x].id, n |-> IF ok THEN 1 ELSE 0]
AskMessage(a) == [type |-> "Invocation", of |-> a, id |-> 0, n |-> 0]

LEMMA YieldsFacts ==
  ASSUME TypeOK, NEW x \in Calls, ServerYields(x)
  PROVE
    /\ hub.connected /\ server[x].state = "running" /\ KindOf(x) = "stream"
    /\ UNCHANGED <<hub, call, queue, ask, setup>>
    /\ server' = ServerWith(x, [server[x] EXCEPT !.items = server[x].items + 1])
    /\ server' \in [Calls -> ServerType] /\ ItemMessage(x) \in Message
    /\ net' \in NetType /\ net'.up = net.up /\ net'.down = Append(net.down, ItemMessage(x))
<1> DEFINE r == [server[x] EXCEPT !.items = server[x].items + 1]
<1>1. server[x] \in ServerType /\ x \in Nat /\ setup \in Setups
  BY Typed, SetupFacts
<1>2. server[x].items \in Nat /\ server[x].items < MaxItems /\ server[x].items + 1 \in 0 .. MaxItems
  BY <1>1, Bounds DEF ServerType, ServerYields
<1>3. r \in ServerType
  BY <1>1, <1>2 DEF ServerType
<1>4. ItemMessage(x) \in Message
  BY <1>1, <1>2, IdFacts DEF ItemMessage, Message, ServerType
<1>5. /\ hub.connected /\ server[x].state = "running" /\ KindOf(x) = "stream"
      /\ UNCHANGED <<hub, call, queue, ask, setup>> /\ Down(ItemMessage(x))
      /\ server' = ServerWith(x, r)
  BY DEF ServerYields, ItemMessage, ServerWith
<1>6. server' \in [Calls -> ServerType]
  BY <1>3, <1>5, Typed DEF ServerWith
<1>7. QED
  BY <1>4, <1>5, <1>6, DownFacts

LEMMA CompletesFacts ==
  ASSUME TypeOK, NEW x \in Calls, NEW ok \in BOOLEAN, ServerCompletes(x, ok)
  PROVE
    /\ hub.connected /\ server[x].state = "running"
    /\ UNCHANGED <<hub, call, queue, ask, setup>>
    /\ server' = ServerWith(x, Done(x)) /\ server' \in [Calls -> ServerType]
    /\ \/ KindOf(x) = "send" /\ net' = net
       \/ /\ KindOf(x) # "send" /\ EndMessage(x, ok) \in Message
          /\ net' \in NetType /\ net'.up = net.up
          /\ net'.down = Append(net.down, EndMessage(x, ok))
<1>1. server[x] \in ServerType /\ x \in Nat /\ setup \in Setups
  BY Typed, SetupFacts
<1>2. Done(x) \in ServerType
  BY <1>1 DEF Done, ServerType
<1>3. EndMessage(x, ok) \in Message
  BY <1>1, IdFacts DEF EndMessage, Message, ServerType
<1>4. /\ hub.connected /\ server[x].state = "running"
      /\ UNCHANGED <<hub, call, queue, ask, setup>> /\ server' = ServerWith(x, Done(x))
      /\ IF KindOf(x) = "send" THEN net' = net ELSE Down(EndMessage(x, ok))
  BY DEF ServerCompletes, EndMessage, ServerWith, Done
<1>5. server' \in [Calls -> ServerType]
  BY <1>2, <1>4, Typed DEF ServerWith
<1>6. QED
  BY <1>3, <1>4, <1>5, DownFacts

LEMMA AsksFacts ==
  ASSUME TypeOK, NEW a \in Asks, ServerAsks(a)
  PROVE
    /\ hub.connected /\ ask[a].pc = "no" /\ UNCHANGED <<hub, call, queue, server, setup>>
    /\ ask' = [ask EXCEPT ![a] = [ask[a] EXCEPT !.pc = "coming"]] /\ ask' \in [Asks -> AskType]
    /\ AskMessage(a) \in Message
    /\ net' \in NetType /\ net'.up = net.up /\ net'.down = Append(net.down, AskMessage(a))
<1> DEFINE r == [ask[a] EXCEPT !.pc = "coming"]
<1>1. ask[a] \in AskType /\ a \in Nat
  BY Typed, SetupFacts DEF Asks
<1>2. r \in AskType
  BY <1>1 DEF AskType
<1>3. AskMessage(a) \in Message
  BY <1>1 DEF AskMessage, Message
<1>4. /\ hub.connected /\ ask[a].pc = "no" /\ UNCHANGED <<hub, call, queue, server, setup>>
      /\ ask' = [ask EXCEPT ![a] = r] /\ Down(AskMessage(a))
  BY DEF ServerAsks, AskMessage
<1>5. ask' \in [Asks -> AskType]
  BY <1>2, <1>4, Typed
<1>6. QED
  BY <1>3, <1>4, <1>5, DownFacts

LEMMA ReceiveFacts ==
  ASSUME TypeOK, MessagesInv, Receive
  PROVE  LET m == Head(net.down) IN
    /\ hub.connected /\ net.down # <<>> /\ UNCHANGED <<server, setup>>
    /\ net' \in NetType /\ net'.up = net.up /\ net'.down = Tail(net.down)
    /\ m \in Message /\ m = net.down[1] /\ DownWell(m)
    /\ \/ m.type = "Completion" /\ Complete(m)
       \/ m.type = "StreamItem" /\ StreamItem(m) /\ m.n \in 1 .. MaxItems
       \/ m.type = "Invocation" /\ Invoke(m.of)
<1> DEFINE m == Head(net.down)
<1>1. net \in NetType /\ hub.connected /\ net.down # <<>> /\ UNCHANGED <<server, setup>>
      /\ net' = [net EXCEPT !.down = Tail(net.down)]
  BY Typed DEF Receive
<1>2. m \in Message /\ m = net.down[1] /\ 1 \in DOMAIN net.down /\ Tail(net.down) \in Seq(Message)
  BY <1>1, HeadFacts DEF NetType
<1>3. DownWell(m)
  BY <1>2 DEF MessagesInv
<1>4. net' \in NetType /\ net'.up = net.up /\ net'.down = Tail(net.down)
  BY <1>1, <1>2 DEF NetType
<1>5. \/ m.type = "Completion" /\ Complete(m)
      \/ m.type = "StreamItem" /\ StreamItem(m)
      \/ m.type = "Invocation" /\ Invoke(m.of)
  BY DEF Receive
<1> HIDE DEF m
<1>6. ASSUME m.type = "StreamItem" PROVE m.n \in 1 .. MaxItems
  <2>1. m.of \in Calls /\ m.n \in 1 .. server[m.of].items
    BY <1>3, <1>6 DEF DownWell
  <2>2. server[m.of].items \in 0 .. MaxItems /\ MaxItems \in Nat
    BY <2>1, Typed, Bounds DEF ServerType
  <2>3. QED
    BY <2>1, <2>2
<1>7. QED
  BY <1>1, <1>2, <1>3, <1>4, <1>5, <1>6 DEF m

LEMMA NextTypeOK ==
  ASSUME TypeOK, IdsInv(Client), ServerInv, MessagesInv, AsksInv, [Next]_vars
  PROVE  TypeOK'
<1> USE Typed, TypedNext
<1>1. ASSUME NEW l \in Life, LoopGoesOn(l) PROVE TypeOK'
  BY <1>1, LoopFacts
<1>2. ASSUME NEW x \in Calls, ChainGoesOn(x) PROVE TypeOK'
  BY <1>2, ChainFacts
<1>3. ASSUME NEW x \in Calls, CancelGoesOn(x) PROVE TypeOK'
  BY <1>3, CancelFacts
<1>4. ASSUME NEW x \in Calls, Call(x) PROVE TypeOK'
  BY <1>4, CallFacts
<1>5. ASSUME NEW x \in Calls, Push(x) PROVE TypeOK'
  BY <1>5, PushFacts
<1>6. ASSUME NEW x \in Calls, Dispose(x) PROVE TypeOK'
  BY <1>6, DisposeFacts
<1>7. ASSUME On \/ Off PROVE TypeOK'
  BY <1>7, MethodsFacts
<1>8. ASSUME NEW a \in Asks, NEW how, HandlerEnds(a, how) PROVE TypeOK'
  <2>1. UNCHANGED <<net, server, setup>> /\ \E r \in AskType : Ran(a, r)
    BY <1>8, HandlerFacts
  <2>2. QED
    BY <2>1, RanFacts
<1>9. ASSUME Receive PROVE TypeOK'
  <2> DEFINE m == Head(net.down)
  <2>1. net' \in NetType /\ UNCHANGED <<server, setup>> /\ DownWell(m)
    BY <1>9, ReceiveFacts
  <2>2. \/ m.type = "Completion" /\ Complete(m)
        \/ m.type = "StreamItem" /\ StreamItem(m) /\ m.n \in 1 .. MaxItems
        \/ m.type = "Invocation" /\ Invoke(m.of)
    BY <1>9, ReceiveFacts
  <2> HIDE DEF m
  <2>3. CASE m.type = "Completion" /\ Complete(m)
    BY <2>1, <2>3, CompletionFacts
  <2>4. CASE m.type = "StreamItem" /\ StreamItem(m) /\ m.n \in 1 .. MaxItems
    BY <2>1, <2>4, ItemFacts
  <2>5. CASE m.type = "Invocation" /\ Invoke(m.of)
    <3>1. m.of \in Asks
      BY <2>1, <2>5 DEF DownWell
    <3>2. \E r \in AskType : Ran(m.of, r)
      BY <2>5, <3>1, InvokeFacts
    <3>3. QED
      BY <2>1, <3>1, <3>2, RanFacts
  <2>6. QED
    BY <2>2, <2>3, <2>4, <2>5
<1>10. ASSUME NEW l \in Life, NEW ok \in BOOLEAN, NEW arrived \in BOOLEAN, PostEnds(l, ok, arrived)
       PROVE  TypeOK'
  BY <1>10, PostFacts
<1>11. ASSUME Close PROVE TypeOK'
  BY <1>11, CloseFacts
<1>12. ASSUME Reopen PROVE TypeOK'
  BY <1>12, ReopenFacts
<1>13. ASSUME ServerReceives PROVE TypeOK'
  <2>1. Client' = Client /\ UNCHANGED setup /\ net' \in NetType
        /\ server' \in [Calls -> ServerType] /\ ask' \in [Asks -> AskType]
    BY <1>13, ServerReceivesFacts DEF Client
  <2>2. QED
    BY <2>1
<1>14. ASSUME NEW x \in Calls, NEW ok \in BOOLEAN, ServerCompletes(x, ok) PROVE TypeOK'
  BY <1>14, CompletesFacts DEF Client
<1>15. ASSUME NEW x \in Calls, ServerYields(x) PROVE TypeOK'
  BY <1>15, YieldsFacts DEF Client
<1>16. ASSUME NEW a \in Asks, ServerAsks(a) PROVE TypeOK'
  BY <1>16, AsksFacts DEF Client
<1>17. CASE UNCHANGED vars
  BY <1>17 DEF vars, Client
<1>18. QED
  BY <1>1, <1>2, <1>3, <1>4, <1>5, <1>6, <1>7, <1>8, <1>9, <1>10, <1>11, <1>12, <1>13, <1>14,
     <1>15, <1>16, <1>17
  DEF Next, GoesOn, Page, Handlers, Posts, Server, Completes, Yields

-----------------------------------------------------------------------------
(* Ids and callbacks stay right                                            *)

ClientInv(c) ==
  IdsInv(c) /\ CallbacksInv(c) /\ (~c.hub.connected => c.hub.callbacks = {})

LEMMA CallbacksAfterSettles ==
  ASSUME NEW c \in ClientType, NEW d \in ClientType, NEW batch, NEW ok, Settles(c, d, batch, ok)
  PROVE  d.hub.callbacks = Kept(c, batch, ok) /\ d.hub.callbacks \subseteq c.hub.callbacks
         /\ d.hub.connected = c.hub.connected /\ d.hub.life = c.hub.life
         /\ d.hub.methods = c.hub.methods /\ d.hub.nextId = c.hub.nextId
BY ClientFields DEF Settles, HubType, Kept

LEMMA SettlesKeepsClient ==
  ASSUME NEW c \in ClientType, NEW d \in ClientType, NEW batch, NEW ok \in BOOLEAN,
         Settles(c, d, batch, ok), BatchMade(c, batch), ClientInv(c), setup \in Setups
  PROVE  ClientInv(d)
BY SettlesKeepsIds, SettlesKeepsCallbacks, CallbacksAfterSettles DEF ClientInv

LEMMA MessageMade ==
  ASSUME NEW c, NEW m, m.type # "Reply" => m.of \in Calls /\ c.call[m.of].made
  PROVE  BatchMade(c, <<m>>) /\ BatchMade(c, <<>>)
BY DEF BatchMade

LEMMA SendsKeepsClient ==
  ASSUME NEW c \in ClientType, NEW d \in ClientType, NEW m, Sends(c, d, m),
         m.type # "Reply" => m.of \in Calls /\ c.call[m.of].made,
         ClientInv(c), setup \in Setups
  PROVE  ClientInv(d)
<1>1. BatchMade(c, <<m>>) /\ BatchMade(c, <<>>)
  BY MessageMade
<1>2. QED
  BY <1>1, SettlesKeepsClient DEF Sends

\* Nothing happens to the ids and the callbacks but that calls in G are settled.
SameIds(c, d) ==
  /\ d.hub.nextId = c.hub.nextId
  /\ \A x \in Calls : /\ d.call[x].made <=> c.call[x].made
                      /\ d.call[x].id = c.call[x].id
                      /\ ~c.call[x].made => d.call[x] = c.call[x]
CallbacksBut(c, d, G) ==
  \A x \in Calls, i \in Id :
    <<i, x>> \in d.hub.callbacks <=> <<i, x>> \in c.hub.callbacks /\ x \notin G
PendingBut(c, d, G) ==
  \A x \in Calls : KindOf(x) # "send" =>
    (PendingCall(d.call[x], x) <=> PendingCall(c.call[x], x) /\ x \notin G)

LEMMA ClientInvKept ==
  ASSUME NEW c \in ClientType, NEW d \in ClientType, NEW G, ClientInv(c), setup \in Setups,
         SameIds(c, d), CallbacksBut(c, d, G), PendingBut(c, d, G),
         ~d.hub.connected => d.hub.callbacks = {}
  PROVE  ClientInv(d)
<1> USE DEF SameIds, CallbacksBut, PendingBut
<1>1. ASSUME NEW x \in Calls, d.call[x].made, NEW y \in 1 .. x - 1 PROVE d.call[y].made
  <2>1. y \in Calls
    BY SetupFacts
  <2>2. QED
    BY <1>1, <2>1 DEF ClientInv, IdsInv
<1>2. IdsInv(d)
  BY <1>1 DEF ClientInv, IdsInv
<1>3. CallbacksInv(d)
  <2> SUFFICES ASSUME NEW x \in Calls, NEW i \in Id
               PROVE  <<i, x>> \in d.hub.callbacks <=>
                        i = d.call[x].id /\ PendingCall(d.call[x], x) /\ KindOf(x) # "send"
    BY DEF CallbacksInv
  <2>1. <<i, x>> \in c.hub.callbacks <=>
          i = c.call[x].id /\ PendingCall(c.call[x], x) /\ KindOf(x) # "send"
    BY DEF ClientInv, CallbacksInv
  <2>2. QED
    BY <2>1
<1>4. QED
  BY <1>2, <1>3 DEF ClientInv

\* The callbacks that are left once an id is deleted.
LEMMA WithoutIdFacts ==
  ASSUME TypeOK, ClientInv(Client), NEW x \in Calls, call[x].made, KindOf(x) # "send"
  PROVE  \A y \in Calls, i \in Id :
           <<i, y>> \in WithoutId(call[x].id) <=> <<i, y>> \in hub.callbacks /\ y \notin {x}
<1> SUFFICES ASSUME NEW y \in Calls, NEW i \in Id, <<i, y>> \in hub.callbacks
             PROVE  <<i, y>> \in WithoutId(call[x].id) <=> y # x
  BY DEF WithoutId
<1>1. i = call[y].id /\ call[y].made
  BY Typed DEF ClientInv, CallbacksInv, PendingCall
<1>2. call[x].id = call[y].id <=> x = y
  BY <1>1, Typed DEF ClientInv, IdsInv
<1>3. QED
  BY <1>1, <1>2 DEF WithoutId

\* A registered callback is that of a pending call.
LEMMA CallbackOwner ==
  ASSUME TypeOK, ClientInv(Client), NEW x \in Calls, NEW i, <<i, x>> \in hub.callbacks
  PROVE  /\ i \in Id /\ i = call[x].id /\ PendingCall(call[x], x) /\ KindOf(x) # "send"
         /\ call[x].made /\ call[x] \in CallType
<1>1. i \in Id
  BY Typed DEF HubType
<1>2. i = call[x].id /\ PendingCall(call[x], x) /\ KindOf(x) # "send"
  BY <1>1, Typed DEF ClientInv, CallbacksInv
<1>3. QED
  BY <1>1, <1>2, Typed DEF PendingCall

LEMMA CallWithKept ==
  ASSUME TypeOK, ClientInv(Client), NEW x \in Calls, NEW r \in CallType, call[x].made, r.made,
         r.id = call[x].id, KindOf(x) # "send" => (PendingCall(r, x) <=> PendingCall(call[x], x))
  PROVE  ClientInv(CallWith(x, r))
<1> DEFINE d == CallWith(x, r)
           G == {y \in Calls : FALSE}
<1>1. d \in ClientType /\ d.hub = hub /\ d.call[x] = r
      /\ \A y \in Calls : y # x => d.call[y] = call[y]
  BY CallWithFacts, Typed DEF CallWith
<1> HIDE DEF d
<1>2. ~d.hub.connected => d.hub.callbacks = {}
  BY <1>1, Typed DEF ClientInv
<1>3. SameIds(Client, d)
  BY <1>1, Typed DEF SameIds
<1>4. CallbacksBut(Client, d, G)
  BY <1>1, Typed DEF CallbacksBut
<1>5. PendingBut(Client, d, G)
  BY <1>1, Typed DEF PendingBut
<1> HIDE DEF G
<1>6. ClientInv(d)
  BY <1>1, <1>2, <1>3, <1>4, <1>5, Typed, ClientInvKept
<1>7. QED
  BY <1>6 DEF d

\* A call whose upload goes on was made.
LEMMA ReadyIsMade ==
  ASSUME IdsInv(Client), NEW x \in Calls, call[x].chain # "waiting" \/ call[x].cancel # "no"
  PROVE  call[x].made
BY DEF IdsInv, Fresh, Client

LEMMA ChainKeepsClient ==
  ASSUME TypeOK, ClientInv(Client), NEW x \in Calls, ChainGoesOn(x)
  PROVE  ClientInv(Client')
<1> DEFINE m == UploadItem(x, call[x].chained + 1)
           r == [call[x] EXCEPT !.chained = call[x].chained + 1, !.chain = "waiting"]
<1>1. CanChain(x) /\ ChainStep(x) \in ClientType /\ Client' \in ClientType
      /\ Sends(ChainStep(x), Client', m)
  BY ChainFacts
<1>2. call[x].made /\ call[x] \in CallType /\ setup \in Setups
  BY <1>1, ReadyIsMade, Typed DEF CanChain, ClientInv
<1>3. /\ r.made /\ r.id = call[x].id /\ r.outcome = call[x].outcome /\ r.seen = call[x].seen
      /\ r.cancel = call[x].cancel /\ ChainStep(x).call[x] = r
  BY <1>2, Typed DEF CallType, ChainStep, CallWith
<1>4. r \in CallType
  BY <1>1, <1>3 DEF ClientType
<1> HIDE DEF r
<1>5. PendingCall(r, x) <=> PendingCall(call[x], x)
  BY <1>2, <1>3 DEF PendingCall
<1>6. ClientInv(ChainStep(x))
  <2>1. ChainStep(x) = CallWith(x, r)
    BY DEF ChainStep, r
  <2>2. QED
    BY <1>2, <1>3, <1>4, <1>5, <2>1, CallWithKept
<1>7. m.of = x
  BY DEF UploadItem
<1>8. QED
  BY <1>1, <1>2, <1>3, <1>6, <1>7, SendsKeepsClient

LEMMA CancelKeepsClient ==
  ASSUME TypeOK, ClientInv(Client), NEW x \in Calls, CancelGoesOn(x)
  PROVE  ClientInv(Client')
<1> DEFINE m == CancelInvocation(x)
           r == [call[x] EXCEPT !.cancel = "sent"]
<1>1. CanCancel(x) /\ CancelStep(x) \in ClientType /\ Client' \in ClientType
      /\ Sends(CancelStep(x), Client', m)
  BY CancelFacts
<1>2. call[x].made /\ call[x] \in CallType /\ setup \in Setups /\ call[x].cancel = "wanted"
  BY <1>1, ReadyIsMade, Typed DEF CanCancel, ClientInv
<1>3. /\ r.made /\ r.id = call[x].id /\ r.outcome = call[x].outcome /\ r.seen = call[x].seen
      /\ r.cancel = "sent" /\ CancelStep(x).call[x] = r
  BY <1>2, Typed DEF CallType, CancelStep, CallWith
<1>4. r \in CallType
  BY <1>1, <1>3 DEF ClientType
<1> HIDE DEF r
<1>5. PendingCall(r, x) <=> PendingCall(call[x], x)
  BY <1>2, <1>3 DEF PendingCall
<1>6. ClientInv(CancelStep(x))
  <2>1. CancelStep(x) = CallWith(x, r)
    BY DEF CancelStep, r
  <2>2. QED
    BY <1>2, <1>3, <1>4, <1>5, <2>1, CallWithKept
<1>7. m.of = x
  BY DEF CancelInvocation
<1>8. QED
  BY <1>1, <1>2, <1>3, <1>6, <1>7, SendsKeepsClient

\* The callback of a new call replaces none.
LEMMA RegisterFacts ==
  ASSUME TypeOK, ClientInv(Client), NEW x \in Calls, ~call[x].made
  PROVE  \A y \in Calls, i \in Id :
           <<i, y>> \in Register(hub.callbacks, InvocationId(x), x) <=>
             \/ y # x /\ <<i, y>> \in hub.callbacks
             \/ y = x /\ i = InvocationId(x) /\ KindOf(x) # "send"
<1> DEFINE id == InvocationId(x)
<1>1. IF KindOf(x) = "send" THEN id = NoId ELSE id \in Nat /\ id >= hub.nextId
  BY InvocationIdFacts DEF ClientInv
<1>2. \A y \in Calls, i \in Id : <<i, y>> \in hub.callbacks =>
        call[y].made /\ i = call[y].id /\ i \in 0 .. hub.nextId - 1
  BY CallbackOwner, Typed DEF ClientInv, IdsInv
<1>3. hub.nextId \in Nat
  BY Typed DEF HubType
<1>4. CASE KindOf(x) = "send"
  BY <1>1, <1>2, <1>4 DEF Register
<1>5. CASE KindOf(x) # "send"
  <2>1. id # NoId
    BY <1>1, <1>5 DEF NoId
  <2>2. \A p : p \in Register(hub.callbacks, id, x) <=>
                 (p \in hub.callbacks /\ p[1] # id) \/ p = <<id, x>>
    BY <2>1 DEF Register
  <2>3. \A y \in Calls, i \in Id : <<i, y>> \in hub.callbacks => i # id /\ y # x
    BY <1>1, <1>2, <1>3, <1>5
  <2> HIDE DEF id
  <2>4. QED
    BY <1>5, <2>2, <2>3 DEF id
<1>6. QED
  BY <1>4, <1>5

LEMMA CallKeepsClient ==
  ASSUME TypeOK, ClientInv(Client), NEW x \in Calls, Call(x)
  PROVE  ClientInv(Client')
<1> DEFINE id == InvocationId(x)
           m == CallMessage(x)
           c == CallStep(x)
<1>1. /\ ~call[x].made /\ (\A y \in 1 .. x - 1 : call[y].made)
      /\ c \in ClientType /\ m \in Message /\ Client' \in ClientType /\ Sends(c, Client', m)
  BY CallFacts DEF ClientInv
<1>2. /\ id \in Id /\ hub.nextId <= NextId(x) /\ NextId(x) <= 2 * x /\ NextId(x) \in Nat
      /\ IF KindOf(x) = "send" THEN id = NoId ELSE id \in Nat /\ id >= hub.nextId /\ id < NextId(x)
  BY <1>1, InvocationIdFacts DEF ClientInv
<1>3. setup \in Setups /\ hub \in HubType /\ call[x] \in CallType
  BY Typed
<1>4. /\ c.hub.nextId = NextId(x) /\ c.hub.connected = hub.connected
      /\ c.hub.callbacks = Register(hub.callbacks, id, x)
      /\ \A y \in Calls : y # x => c.call[y] = call[y]
      /\ c.call[x] = [call[x] EXCEPT !.made = TRUE, !.id = id]
  BY <1>3, Typed DEF CallStep, HubType
<1>5. c.call[x].made /\ c.call[x].id = id /\ c.call[x].cancel = "no"
      /\ c.call[x].seen = <<>> /\ c.call[x].outcome = "pending"
  <2>1. Fresh(call[x])
    BY <1>1, Typed DEF ClientInv, IdsInv
  <2>2. QED
    BY <1>3, <1>4, <2>1 DEF CallType, Fresh
<1> HIDE DEF c, id, m
<1>6. IdsInv(c)
  <2>1. ASSUME NEW y \in Calls, c.call[y].made, NEW z \in 1 .. y - 1 PROVE c.call[z].made
    <3>1. z \in Calls
      BY <1>3, SetupFacts
    <3>2. QED
      BY <1>1, <1>4, <1>5, <2>1, <3>1, Typed DEF ClientInv, IdsInv
  <2>2. ASSUME NEW y \in Calls, ~c.call[y].made PROVE c.hub.nextId <= 2 * (y - 1) /\ Fresh(c.call[y])
    <3>0. y \in Nat /\ x \in Nat /\ y >= 1
      BY <1>3, SetupFacts
    <3>1. y # x /\ ~call[y].made /\ y \in Nat /\ x \in Nat /\ y >= 1
      BY <3>0, <1>4, <1>5, <2>2
    <3>2. y > x
      BY <1>1, <3>1
    <3>3. Fresh(c.call[y])
      BY <1>4, <3>1, Typed DEF ClientInv, IdsInv
    <3>4. QED
      BY <1>2, <1>4, <3>1, <3>2, <3>3
  <2>3. hub.nextId \in Nat
    BY <1>3 DEF HubType
  <2>4. ASSUME NEW y \in Calls, c.call[y].made
        PROVE  IF KindOf(y) = "send" THEN c.call[y].id = NoId ELSE c.call[y].id \in 0 .. c.hub.nextId - 1
    <3>1. CASE y = x
      <4>1. CASE KindOf(x) = "send"
        BY <1>2, <1>5, <3>1, <4>1
      <4>2. CASE KindOf(x) # "send"
        <5>1. id \in 0 .. NextId(x) - 1
          BY <1>2, <4>2
        <5>2. QED
          BY <1>4, <1>5, <3>1, <4>2, <5>1
      <4>3. QED
        BY <4>1, <4>2
    <3>2. CASE y # x
      BY <1>2, <1>4, <2>3, <2>4, <3>2, Typed DEF ClientInv, IdsInv
    <3>3. QED
      BY <3>1, <3>2
  <2>5. ASSUME NEW y \in Calls, NEW z \in Calls, c.call[y].made, c.call[z].made,
               c.call[y].id = c.call[z].id, KindOf(y) # "send"
        PROVE  y = z
    <3>1. \A w \in Calls : w # x /\ c.call[w].made =>
            call[w].made /\ c.call[w] = call[w]
            /\ (IF KindOf(w) = "send" THEN call[w].id = NoId ELSE call[w].id \in 0 .. hub.nextId - 1)
      BY <1>4, Typed DEF ClientInv, IdsInv
    <3>2. CASE y # x /\ z # x
      BY <2>5, <3>1, <3>2, Typed DEF ClientInv, IdsInv
    <3>3. ASSUME NEW w \in Calls, w # x, c.call[w].made, KindOf(x) # "send" PROVE c.call[w].id # id
      <4>1. hub.nextId \in Nat
        BY <1>3 DEF HubType
      <4>2. c.call[w].id < hub.nextId
        BY <3>1, <3>3, <4>1 DEF NoId
      <4>3. QED
        BY <1>2, <3>3, <4>1, <4>2
    <3>4. y = x => z = x
      BY <1>5, <2>5, <3>3
    <3>5. ASSUME y # x, z = x PROVE FALSE
      <4>1. c.call[y].id = call[y].id /\ call[y].id \in 0 .. hub.nextId - 1
        BY <2>5, <3>1, <3>5
      <4>2. c.call[y].id = id
        BY <1>5, <2>5, <3>5
      <4>3. KindOf(x) # "send"
        BY <1>2, <4>1, <4>2 DEF NoId
      <4>4. QED
        BY <2>5, <3>3, <3>5, <4>2, <4>3
    <3>6. QED
      BY <3>2, <3>4, <3>5
  <2>6. QED
    BY <2>1, <2>2, <2>4, <2>5 DEF IdsInv
<1>7. CallbacksInv(c)
  <2> SUFFICES ASSUME NEW y \in Calls, NEW i \in Id
               PROVE  <<i, y>> \in c.hub.callbacks <=>
                        i = c.call[y].id /\ PendingCall(c.call[y], y) /\ KindOf(y) # "send"
    BY DEF CallbacksInv
  <2>1. <<i, y>> \in c.hub.callbacks <=> \/ y # x /\ <<i, y>> \in hub.callbacks
                                         \/ y = x /\ i = id /\ KindOf(x) # "send"
    BY <1>1, <1>4, RegisterFacts DEF id
  <2>2. CASE y # x
    BY <1>4, <2>1, <2>2, Typed DEF ClientInv, CallbacksInv
  <2>3. CASE y = x
    <3>1. PendingCall(c.call[x], x)
      BY <1>5 DEF PendingCall, EndedIn
    <3>2. QED
      BY <1>5, <2>1, <2>3, <3>1
  <2>4. QED
    BY <2>2, <2>3
<1>8. m.of = x /\ m.type = "Invocation"
  BY DEF m, CallMessage
<1>9. CASE hub.connected
  <2>1. ClientInv(c)
    BY <1>4, <1>6, <1>7, <1>9 DEF ClientInv
  <2>2. QED
    BY <1>1, <1>3, <1>5, <1>8, <2>1, SendsKeepsClient
<1>10. CASE ~hub.connected
  <2> DEFINE ok == FALSE
  <2>1. Settles(c, Client', <<m>>, ok) /\ BatchMade(c, <<m>>)
    BY <1>1, <1>4, <1>5, <1>8, <1>10, MessageMade DEF Sends
  <2>0. ok \in BOOLEAN /\ ~ok
    OBVIOUS
  <2> HIDE DEF ok
  <2>2. IdsInv(Client') /\ CallbacksInv(Client')
    BY <1>1, <1>3, <1>6, <1>7, <2>0, <2>1, SettlesKeepsIds, SettlesKeepsCallbacks
  <2>3. Called(<<m>>, x)
    BY <1>8 DEF Called, Has
  <2>4. ASSUME NEW p \in Client'.hub.callbacks PROVE FALSE
    <3>0. p \in Kept(c, <<m>>, ok)
      BY <1>1, <2>1, CallbacksAfterSettles
    <3>1. p \in c.hub.callbacks /\ (KindOf(x) # "send" => p[1] # id)
      BY <1>5, <2>0, <2>3, <3>0 DEF Kept
    <3>2. p \in Id \X Calls
      BY <1>1, <3>1 DEF ClientType, HubType
    <3>3. hub.callbacks = {}
      BY <1>10, Typed DEF ClientInv
    <3>4. p[2] = x /\ p[1] = id /\ KindOf(x) # "send"
      BY <1>1, <1>4, <3>1, <3>2, <3>3, RegisterFacts DEF id
    <3>5. QED
      BY <3>1, <3>4
  <2>5. QED
    BY <2>2, <2>4 DEF ClientInv
<1>11. QED
  BY <1>9, <1>10

LEMMA PushKeepsClient ==
  ASSUME TypeOK, ClientInv(Client), NEW x \in Calls, Push(x)
  PROVE  ClientInv(Client')
<1> DEFINE r == [call[x] EXCEPT !.pushed = call[x].pushed + 1]
<1>1. call[x].made /\ Client' = CallWith(x, r) /\ Client' \in ClientType
  BY PushFacts
<1>2. call[x] \in CallType
  BY Typed
<1>3. /\ r.made = call[x].made /\ r.id = call[x].id /\ r.outcome = call[x].outcome
      /\ r.seen = call[x].seen /\ r.cancel = call[x].cancel
  BY <1>2 DEF CallType
<1>4. r \in CallType
  BY <1>2 DEF CallType
<1> HIDE DEF r
<1>5. PendingCall(r, x) <=> PendingCall(call[x], x)
  BY <1>3 DEF PendingCall
<1>6. QED
  BY <1>1, <1>3, <1>4, <1>5, CallWithKept

LEMMA DisposeKeepsClient ==
  ASSUME TypeOK, ClientInv(Client), NEW x \in Calls, Dispose(x)
  PROVE  ClientInv(Client')
<1> DEFINE d == Client'
           G == {x}
<1>1. /\ KindOf(x) = "stream" /\ call[x].made /\ d \in ClientType
      /\ hub' = [hub EXCEPT !.callbacks = WithoutId(call[x].id)]
      /\ call' = [call EXCEPT ![x] = [call[x] EXCEPT !.cancel = "wanted"]]
  BY DisposeFacts DEF WithoutId
<1>2. d.hub = hub' /\ d.call = call'
  BY DEF Client
<1>3. hub \in HubType /\ call[x] \in CallType /\ setup \in Setups
  BY Typed
<1> HIDE DEF d
<1>4. /\ d.hub.callbacks = WithoutId(call[x].id) /\ d.hub.nextId = hub.nextId
      /\ d.hub.connected = hub.connected
      /\ d.call[x] = [call[x] EXCEPT !.cancel = "wanted"]
      /\ \A y \in Calls : y # x => d.call[y] = call[y]
  BY <1>1, <1>2, <1>3, Typed DEF HubType
<1>5. /\ d.call[x].made = call[x].made /\ d.call[x].id = call[x].id
      /\ d.call[x].cancel = "wanted"
  BY <1>3, <1>4 DEF CallType
<1>6. SameIds(Client, d)
  BY <1>1, <1>4, <1>5, Typed DEF SameIds
<1>7. CallbacksBut(Client, d, G)
  <2>1. \A y \in Calls, i \in Id :
          <<i, y>> \in WithoutId(call[x].id) <=> <<i, y>> \in hub.callbacks /\ y \notin G
    BY <1>1, WithoutIdFacts
  <2>2. Client.hub.callbacks = hub.callbacks /\ d.hub.callbacks = WithoutId(call[x].id)
    BY <1>4, Typed
  <2> HIDE DEF G
  <2>3. QED
    BY <2>1, <2>2 DEF CallbacksBut
<1>8. ~PendingCall(d.call[x], x)
  BY <1>1, <1>5 DEF PendingCall
<1>9. PendingBut(Client, d, G)
  BY <1>4, <1>8, Typed DEF PendingBut
<1>10. ~d.hub.connected => d.hub.callbacks = {}
  BY <1>4, Typed DEF ClientInv, WithoutId
<1> HIDE DEF G
<1>11. ClientInv(d)
  BY <1>1, <1>6, <1>7, <1>9, <1>10, Typed, ClientInvKept
<1>12. QED
  BY <1>11 DEF d

\* Steps that leave the calls and the callbacks alone.
LEMMA SameCallsKeepClient ==
  ASSUME TypeOK, ClientInv(Client), Client' \in ClientType, call' = call,
         hub'.nextId = hub.nextId, hub'.callbacks = hub.callbacks,
         hub.connected => hub'.connected
  PROVE  ClientInv(Client')
<1> DEFINE d == Client'
           G == {y \in Calls : FALSE}
<1>1. d.hub = hub' /\ d.call = call /\ d \in ClientType
  BY DEF Client
<1> HIDE DEF d
<1>2. SameIds(Client, d) /\ CallbacksBut(Client, d, G) /\ PendingBut(Client, d, G)
  BY <1>1, Typed DEF SameIds, CallbacksBut, PendingBut
<1>3. ~d.hub.connected => d.hub.callbacks = {}
  BY <1>1, Typed DEF ClientInv
<1> HIDE DEF G
<1>4. ClientInv(d)
  BY <1>1, <1>2, <1>3, Typed, ClientInvKept
<1>5. QED
  BY <1>4 DEF d

LEMMA LoopKeepsClient ==
  ASSUME TypeOK, ClientInv(Client), MessagesInv, NEW l \in Life, LoopGoesOn(l)
  PROVE  ClientInv(Client')
<1>1. BatchMade(Client, queue[l].buffer) /\ BatchMade(Client, <<>>)
  BY AllUpMade, Typed DEF MessagesInv, BatchMade
<1>2. Client' \in ClientType /\ setup \in Setups
  BY LoopFacts, Typed
<1>3. \E batch \in {queue[l].buffer, <<>>}, ok \in BOOLEAN : Settles(Client, Client', batch, ok)
  BY LoopFacts
<1>4. QED
  BY <1>1, <1>2, <1>3, Typed, SettlesKeepsClient

LEMMA PostKeepsClient ==
  ASSUME TypeOK, ClientInv(Client), MessagesInv, NEW l \in Life, NEW ok \in BOOLEAN,
         NEW arrived \in BOOLEAN, PostEnds(l, ok, arrived)
  PROVE  ClientInv(Client')
<1>1. BatchMade(Client, queue[l].flight)
  BY AllUpMade, Typed DEF MessagesInv
<1>2. Client' \in ClientType /\ setup \in Setups /\ Settles(Client, Client', queue[l].flight, ok)
  BY PostFacts, Typed
<1>3. QED
  BY <1>1, <1>2, Typed, SettlesKeepsClient

LEMMA RanKeepsClient ==
  ASSUME TypeOK, ClientInv(Client), NEW a \in Asks, NEW r \in AskType, Ran(a, r)
  PROVE  ClientInv(Client')
<1>1. CASE r.left = 0 /\ setup.expects
  <2>1. Client' \in ClientType /\ Sends(Client, Client', Reply(a, r))
    BY <1>1, RanFacts
  <2>2. Reply(a, r).type = "Reply"
    BY DEF Reply
  <2>3. QED
    BY <2>1, <2>2, Typed, SendsKeepsClient
<1>2. CASE ~(r.left = 0 /\ setup.expects)
  BY <1>2, RanFacts
<1>3. QED
  BY <1>1, <1>2

LEMMA ItemKeepsClient ==
  ASSUME TypeOK, ClientInv(Client), NEW m, m.n \in 1 .. MaxItems, StreamItem(m),
         \A x \in Calls : <<m.id, x>> \in hub.callbacks => KindOf(x) = "stream"
  PROVE  ClientInv(Client')
<1>1. CASE Client' = Client
  BY <1>1
<1>2. ASSUME NEW x \in Calls, <<m.id, x>> \in hub.callbacks,
             call' = [call EXCEPT ![x] = AfterItem(call[x], m)]
      PROVE  ClientInv(Client')
  <2> DEFINE r == AfterItem(call[x], m)
  <2>1. call[x] \in CallType /\ call[x].made /\ PendingCall(call[x], x) /\ KindOf(x) = "stream"
    BY <1>2, CallbackOwner
  <2>2. /\ r.made = call[x].made /\ r.id = call[x].id /\ r.cancel = call[x].cancel
        /\ r.seen = Append(call[x].seen, Item(m.n)) /\ r.outcome = call[x].outcome
    BY <2>1 DEF AfterItem, CallType
  <2>3. r \in CallType
    <3>1. Client' \in ClientType
      BY ItemFacts
    <3>2. call'[x] = r
      BY <1>2, Typed
    <3>3. QED
      BY <3>1, <3>2 DEF Client, ClientType
  <2>4. EndedIn(r.seen) <=> EndedIn(call[x].seen)
    BY <2>1, <2>2, NoticeFacts, EndedByAppend DEF CallType
  <2> HIDE DEF r
  <2>5. PendingCall(r, x) <=> PendingCall(call[x], x)
    BY <2>2, <2>4 DEF PendingCall
  <2>6. Client' = CallWith(x, r)
    BY <1>2, ItemFacts DEF Client, CallWith, r
  <2>7. QED
    BY <2>1, <2>2, <2>3, <2>5, <2>6, CallWithKept
<1>3. QED
  BY <1>1, <1>2, ItemFacts

LEMMA CompletionSettles ==
  ASSUME NEW x \in Calls, NEW r \in CallType, NEW m
  PROVE  LET s == AfterCompletion(r, x, m) IN
         /\ s.made = r.made /\ s.id = r.id /\ ~PendingCall(s, x) /\ s.cancel = r.cancel
         /\ s.chain = r.chain /\ s.chained = r.chained
         /\ s.seen = IF KindOf(x) = "stream"
                     THEN Append(r.seen, IF m.n = 0 THEN Failed ELSE Completed) ELSE r.seen
         /\ s.outcome = IF KindOf(x) = "stream" \/ r.outcome # "pending" THEN r.outcome
                        ELSE IF m.n = 0 THEN "rejected" ELSE "resolved"
<1> DEFINE what == IF m.n = 0 THEN Failed ELSE Completed
           s == AfterCompletion(r, x, m)
<1>0. what \in Notice /\ what \in End
  BY NoticeFacts
<1> HIDE DEF what
<1>1. CASE KindOf(x) = "stream"
  <2>1. s = [r EXCEPT !.seen = Append(r.seen, what)]
    BY <1>1 DEF AfterCompletion, what
  <2>2. /\ s.made = r.made /\ s.id = r.id /\ s.outcome = r.outcome /\ s.cancel = r.cancel
        /\ s.seen = Append(r.seen, what) /\ s.chain = r.chain /\ s.chained = r.chained
    BY <2>1 DEF CallType
  <2>3. EndedIn(s.seen)
    BY <1>0, <2>2, EndedByAppend DEF CallType
  <2> HIDE DEF s
  <2>4. ~PendingCall(s, x)
    BY <1>1, <2>3 DEF PendingCall
  <2>5. QED
    BY <1>1, <2>2, <2>4 DEF s, what
<1>2. CASE KindOf(x) # "stream"
  <2> DEFINE outcome == IF r.outcome # "pending" THEN r.outcome
                        ELSE IF m.n = 0 THEN "rejected" ELSE "resolved"
  <2>1. s = [r EXCEPT !.outcome = outcome]
    BY <1>2 DEF AfterCompletion
  <2>2. outcome # "pending"
    OBVIOUS
  <2>3. /\ s.made = r.made /\ s.id = r.id /\ s.outcome = outcome /\ s.seen = r.seen
        /\ s.cancel = r.cancel /\ s.chain = r.chain /\ s.chained = r.chained
    BY <2>1 DEF CallType
  <2> HIDE DEF s
  <2>4. ~PendingCall(s, x)
    BY <1>2, <2>2, <2>3 DEF PendingCall
  <2>5. QED
    BY <1>2, <2>3, <2>4 DEF s
<1>3. QED
  BY <1>1, <1>2

LEMMA CompletionKeepsClient ==
  ASSUME TypeOK, ClientInv(Client), NEW m, Complete(m)
  PROVE  ClientInv(Client')
<1>1. CASE Client' = Client
  BY <1>1
<1>2. ASSUME NEW x \in Calls, <<m.id, x>> \in hub.callbacks,
             hub' = [hub EXCEPT !.callbacks = WithoutId(m.id)],
             call' = [call EXCEPT ![x] = AfterCompletion(call[x], x, m)]
      PROVE  ClientInv(Client')
  <2> DEFINE d == Client'
             G == {x}
  <2>1. call[x] \in CallType /\ call[x].made /\ KindOf(x) # "send" /\ m.id = call[x].id
    BY <1>2, CallbackOwner
  <2>2. d.hub = hub' /\ d.call = call' /\ d \in ClientType
    BY CompletionFacts DEF Client
  <2> HIDE DEF d
  <2>3. /\ d.hub.callbacks = WithoutId(call[x].id) /\ d.hub.nextId = hub.nextId
        /\ d.hub.connected = hub.connected
        /\ d.call[x] = AfterCompletion(call[x], x, m)
        /\ \A y \in Calls : y # x => d.call[y] = call[y]
    BY <1>2, <2>1, <2>2, Typed DEF HubType
  <2>4. d.call[x].made = call[x].made /\ d.call[x].id = call[x].id /\ ~PendingCall(d.call[x], x)
    <3> DEFINE s == AfterCompletion(call[x], x, m)
    <3>1. s.made = call[x].made /\ s.id = call[x].id /\ ~PendingCall(s, x)
      BY <2>1, CompletionSettles
    <3> HIDE DEF s
    <3>2. d.call[x] = s
      BY <2>3 DEF s
    <3>3. QED
      BY <3>1, <3>2
  <2>5. SameIds(Client, d)
    BY <2>1, <2>3, <2>4, Typed DEF SameIds
  <2>6. CallbacksBut(Client, d, G)
    <3>1. \A y \in Calls, i \in Id :
            <<i, y>> \in WithoutId(call[x].id) <=> <<i, y>> \in hub.callbacks /\ y \notin G
      BY <2>1, WithoutIdFacts
    <3>2. Client.hub = hub
      BY Typed
    <3>3. QED
      BY <2>3, <3>1, <3>2 DEF CallbacksBut
  <2>7. PendingBut(Client, d, G)
    BY <2>3, <2>4, Typed DEF PendingBut
  <2>8. ~d.hub.connected => d.hub.callbacks = {}
    BY <2>3, Typed DEF ClientInv, WithoutId
  <2> HIDE DEF G
  <2>9. ClientInv(d)
    BY <2>2, <2>5, <2>6, <2>7, <2>8, Typed, ClientInvKept
  <2>10. QED
    BY <2>9 DEF d
<1>3. QED
  BY <1>1, <1>2, CompletionFacts

LEMMA CancelSettles ==
  ASSUME NEW x \in Calls, NEW r \in CallType
  PROVE  LET s == AfterCancel(r, x) IN
         /\ s.made = r.made /\ s.id = r.id /\ ~PendingCall(s, x) /\ s.cancel = r.cancel
         /\ s.chain = r.chain /\ s.chained = r.chained
         /\ s.seen = IF KindOf(x) = "stream" THEN Append(r.seen, Failed) ELSE r.seen
         /\ s.outcome = IF KindOf(x) = "stream" \/ r.outcome # "pending" THEN r.outcome
                        ELSE "rejected"
<1> DEFINE s == AfterCancel(r, x)
<1>1. CASE KindOf(x) = "stream"
  <2>1. s = [r EXCEPT !.seen = Append(r.seen, Failed)]
    BY <1>1 DEF AfterCancel
  <2>2. /\ s.made = r.made /\ s.id = r.id /\ s.outcome = r.outcome /\ s.cancel = r.cancel
        /\ s.seen = Append(r.seen, Failed) /\ s.chain = r.chain /\ s.chained = r.chained
    BY <2>1 DEF CallType
  <2>3. EndedIn(s.seen)
    BY <2>2, EndedByAppend, NoticeFacts DEF CallType
  <2> HIDE DEF s
  <2>4. ~PendingCall(s, x)
    BY <1>1, <2>3 DEF PendingCall
  <2>5. QED
    BY <1>1, <2>2, <2>4 DEF s
<1>2. CASE KindOf(x) # "stream"
  <2> DEFINE outcome == IF r.outcome = "pending" THEN "rejected" ELSE r.outcome
  <2>1. s = [r EXCEPT !.outcome = outcome]
    BY <1>2 DEF AfterCancel
  <2>2. outcome # "pending"
    OBVIOUS
  <2>3. /\ s.made = r.made /\ s.id = r.id /\ s.outcome = outcome /\ s.seen = r.seen
        /\ s.cancel = r.cancel /\ s.chain = r.chain /\ s.chained = r.chained
    BY <2>1 DEF CallType
  <2> HIDE DEF s
  <2>4. ~PendingCall(s, x)
    BY <1>2, <2>2, <2>3 DEF PendingCall
  <2>5. QED
    BY <1>2, <2>3, <2>4 DEF s
<1>3. QED
  BY <1>1, <1>2

LEMMA CloseKeepsClient ==
  ASSUME TypeOK, ClientInv(Client), Close
  PROVE  ClientInv(Client')
<1> DEFINE d == Client'
           G == Told
<1>1. /\ d \in ClientType /\ hub' = [hub EXCEPT !.connected = FALSE, !.callbacks = {}]
      /\ call' = [x \in Calls |-> IF x \in Told THEN AfterCancel(call[x], x) ELSE call[x]]
  BY CloseFacts
<1>2. d.hub = hub' /\ d.call = call'
  BY DEF Client
<1>3. hub \in HubType /\ call \in [Calls -> CallType] /\ setup \in Setups
      /\ Client.hub = hub /\ Client.call = call
  BY Typed
<1> HIDE DEF d
<1>4. d.hub.callbacks = {} /\ d.hub.nextId = hub.nextId
  BY <1>1, <1>2, <1>3 DEF HubType
<1>5. \A x \in Calls : d.call[x] = IF x \in Told THEN AfterCancel(call[x], x) ELSE call[x]
  BY <1>1, <1>2
<1>6. \A x \in Told : x \in Calls /\ call[x].made
  BY CallbackOwner DEF Told
<1>7. SameIds(Client, d)
  <2> SUFFICES ASSUME NEW x \in Calls
               PROVE  /\ d.call[x].made <=> call[x].made
                      /\ d.call[x].id = call[x].id
                      /\ ~call[x].made => d.call[x] = call[x]
    BY <1>3, <1>4 DEF SameIds
  <2>1. CASE x \in Told
    <3> DEFINE s == AfterCancel(call[x], x)
    <3>1. s.made = call[x].made /\ s.id = call[x].id
      BY <1>3, CancelSettles
    <3> HIDE DEF s
    <3>2. d.call[x] = s
      BY <1>5, <2>1 DEF s
    <3>3. QED
      BY <1>6, <2>1, <3>1, <3>2
  <2>2. CASE x \notin Told
    BY <1>5, <2>2
  <2>3. QED
    BY <2>1, <2>2
<1>8. CallbacksBut(Client, d, G)
  BY <1>3, <1>4 DEF CallbacksBut, Told
<1>9. PendingBut(Client, d, G)
  <2> SUFFICES ASSUME NEW x \in Calls
               PROVE  PendingCall(d.call[x], x) <=> PendingCall(call[x], x) /\ x \notin Told
    BY <1>3 DEF PendingBut
  <2>1. CASE x \in Told
    <3> DEFINE s == AfterCancel(call[x], x)
    <3>1. ~PendingCall(s, x)
      BY <1>3, CancelSettles
    <3> HIDE DEF s
    <3>2. d.call[x] = s
      BY <1>5, <2>1 DEF s
    <3>3. QED
      BY <2>1, <3>1, <3>2
  <2>2. CASE x \notin Told
    BY <1>5, <2>2
  <2>3. QED
    BY <2>1, <2>2
<1> HIDE DEF G
<1>10. ClientInv(d)
  BY <1>1, <1>3, <1>4, <1>7, <1>8, <1>9, Typed, ClientInvKept
<1>11. QED
  BY <1>10 DEF d

\* What is received is for the call it is about.
LEMMA AnsweredCall ==
  ASSUME TypeOK, ClientInv(Client), ServerInv, NEW m, DownWell(m),
         m.type \in {"StreamItem", "Completion"}, NEW x \in Calls, <<m.id, x>> \in hub.callbacks
  PROVE  x = m.of
<1>1. m.of \in Calls /\ m.id = call[m.of].id /\ KindOf(m.of) # "send" /\ server[m.of].state # "no"
  BY DEF DownWell
<1>2. call[m.of].made
  BY <1>1 DEF ServerInv
<1>3. call[x].made /\ m.id = call[x].id
  BY CallbackOwner
<1>4. QED
  BY <1>1, <1>2, <1>3, Typed DEF ClientInv, IdsInv

LEMMA NextClientInv ==
  ASSUME TypeOK, ClientInv(Client), ServerInv, MessagesInv, AsksInv, [Next]_vars
  PROVE  ClientInv(Client')
<1>0. IdsInv(Client)
  BY DEF ClientInv
<1>1. ASSUME NEW l \in Life, LoopGoesOn(l) PROVE ClientInv(Client')
  BY <1>1, LoopKeepsClient
<1>2. ASSUME NEW x \in Calls, ChainGoesOn(x) PROVE ClientInv(Client')
  BY <1>2, ChainKeepsClient
<1>3. ASSUME NEW x \in Calls, CancelGoesOn(x) PROVE ClientInv(Client')
  BY <1>3, CancelKeepsClient
<1>4. ASSUME NEW x \in Calls, Call(x) PROVE ClientInv(Client')
  BY <1>4, CallKeepsClient
<1>5. ASSUME NEW x \in Calls, Push(x) PROVE ClientInv(Client')
  BY <1>5, PushKeepsClient
<1>6. ASSUME NEW x \in Calls, Dispose(x) PROVE ClientInv(Client')
  BY <1>6, DisposeKeepsClient
<1>7. ASSUME On \/ Off PROVE ClientInv(Client')
  <2>1. PICK n \in 0 .. MaxMethods : hub' = [hub EXCEPT !.methods = n]
    BY <1>7, MethodsFacts
  <2>2. hub'.nextId = hub.nextId /\ hub'.callbacks = hub.callbacks /\ hub'.connected = hub.connected
    BY <2>1, Typed DEF HubType
  <2>3. QED
    BY <1>7, <2>2, MethodsFacts, SameCallsKeepClient
<1>8. ASSUME NEW a \in Asks, NEW how, HandlerEnds(a, how) PROVE ClientInv(Client')
  BY <1>8, HandlerFacts, RanKeepsClient
<1>9. ASSUME Receive PROVE ClientInv(Client')
  <2> DEFINE m == Head(net.down)
  <2>1. DownWell(m) /\ \/ m.type = "Completion" /\ Complete(m)
                       \/ m.type = "StreamItem" /\ StreamItem(m) /\ m.n \in 1 .. MaxItems
                       \/ m.type = "Invocation" /\ Invoke(m.of)
    BY <1>9, ReceiveFacts
  <2> HIDE DEF m
  <2>2. CASE m.type = "Completion" /\ Complete(m)
    BY <2>2, CompletionKeepsClient
  <2>3. CASE m.type = "StreamItem" /\ StreamItem(m) /\ m.n \in 1 .. MaxItems
    <3>1. m.of \in Calls /\ KindOf(m.of) = "stream"
      BY <2>1, <2>3 DEF DownWell
    <3>2. \A x \in Calls : <<m.id, x>> \in hub.callbacks => KindOf(x) = "stream"
      BY <2>1, <2>3, <3>1, AnsweredCall
    <3>3. QED
      BY <2>3, <3>2, ItemKeepsClient
  <2>4. CASE m.type = "Invocation" /\ Invoke(m.of)
    <3>1. m.of \in Asks
      BY <2>1, <2>4 DEF DownWell
    <3>2. QED
      BY <2>4, <3>1, InvokeFacts, RanKeepsClient
  <2>5. QED
    BY <2>1, <2>2, <2>3, <2>4
<1>10. ASSUME NEW l \in Life, NEW ok \in BOOLEAN, NEW arrived \in BOOLEAN, PostEnds(l, ok, arrived)
       PROVE  ClientInv(Client')
  BY <1>10, PostKeepsClient
<1>11. ASSUME Close PROVE ClientInv(Client')
  BY <1>11, CloseKeepsClient
<1>12. ASSUME Reopen PROVE ClientInv(Client')
  <2>1. /\ hub' = [hub EXCEPT !.connected = TRUE, !.life = hub.life + 1]
        /\ call' = call /\ Client' \in ClientType
    BY <1>12, ReopenFacts
  <2>2. hub'.nextId = hub.nextId /\ hub'.callbacks = hub.callbacks /\ hub'.connected
    BY <2>1, Typed DEF HubType
  <2>3. QED
    BY <2>1, <2>2, SameCallsKeepClient
<1>13. ASSUME UNCHANGED <<hub, call, queue>> PROVE ClientInv(Client')
  BY <1>13 DEF Client
<1>14. ASSUME ServerReceives PROVE ClientInv(Client')
  BY <1>0, <1>13, <1>14, ServerReceivesFacts
<1>15. ASSUME NEW x \in Calls, NEW ok \in BOOLEAN, ServerCompletes(x, ok) PROVE ClientInv(Client')
  BY <1>13, <1>15, CompletesFacts
<1>16. ASSUME NEW x \in Calls, ServerYields(x) PROVE ClientInv(Client')
  BY <1>13, <1>16, YieldsFacts
<1>17. ASSUME NEW a \in Asks, ServerAsks(a) PROVE ClientInv(Client')
  BY <1>13, <1>17, AsksFacts
<1>18. CASE UNCHANGED vars
  BY <1>13, <1>18 DEF vars
<1>19. QED
  BY <1>1, <1>2, <1>3, <1>4, <1>5, <1>6, <1>7, <1>8, <1>9, <1>10, <1>11, <1>12, <1>14,
     <1>15, <1>16, <1>17, <1>18
  DEF Next, GoesOn, Page, Handlers, Posts, Server, Completes, Yields

-----------------------------------------------------------------------------
(* What stays                                                              *)

\* A call keeps its id once it was made, and what was pushed and asked of it.
Keeps(r, s) ==
  /\ r.made => s.made /\ s.id = r.id
  /\ s.chained = r.chained /\ s.pushed = r.pushed /\ s.cancel = r.cancel

LEMMA SettlesKeeps ==
  ASSUME NEW c \in ClientType, NEW d \in ClientType, NEW batch, NEW ok \in BOOLEAN,
         Settles(c, d, batch, ok), NEW x \in Calls
  PROVE  Keeps(c.call[x], d.call[x])
<1>1. c.call[x] \in CallType /\ d.call[x] = AfterSend(c.call[x], x, batch, ok)
  BY ClientFields DEF Settles
<1>2. QED
  BY <1>1, AfterSendFacts DEF Keeps

LEMMA SendsKeeps ==
  ASSUME NEW c \in ClientType, NEW d \in ClientType, NEW m, Sends(c, d, m), NEW x \in Calls
  PROVE  Keeps(c.call[x], d.call[x])
<1>1. \E batch \in {<<>>, <<m>>} : \E ok \in BOOLEAN : Settles(c, d, batch, ok)
  BY DEF Sends
<1>2. QED
  BY <1>1, SettlesKeeps

CallsPersist == \A x \in Calls : call[x].made => call'[x].made /\ call'[x].id = call[x].id

PageInv(c) ==
  \A x \in Calls : /\ c.call[x].pushed <= Upload(x)
                   /\ c.call[x].cancel # "no" => KindOf(x) = "stream"

LEMMA KeepsPage ==
  ASSUME NEW c, NEW d, \A x \in Calls : Keeps(c.call[x], d.call[x]), PageInv(c)
  PROVE  PageInv(d)
BY DEF Keeps, PageInv

LEMMA KeepsPersist ==
  ASSUME TypeOK, PageInv(Client), Client' \in ClientType,
         \A x \in Calls : Keeps(call[x], call'[x])
  PROVE  CallsPersist /\ PageInv(Client')
<1>1. Client.call = call /\ Client'.call = call'
  BY DEF Client
<1>2. PageInv(Client')
  BY <1>1, KeepsPage
<1>3. QED
  BY <1>2 DEF Keeps, CallsPersist

LEMMA RanKeeps ==
  ASSUME TypeOK, NEW a \in Asks, NEW r \in AskType, Ran(a, r)
  PROVE  Client' \in ClientType /\ \A x \in Calls : Keeps(call[x], call'[x])
<1>1. CASE r.left = 0 /\ setup.expects
  <2>1. Client' \in ClientType /\ Sends(Client, Client', Reply(a, r))
    BY <1>1, RanFacts
  <2>2. Client.call = call /\ Client'.call = call'
    BY DEF Client
  <2>3. QED
    BY <2>1, <2>2, SendsKeeps, Typed
<1>2. CASE ~(r.left = 0 /\ setup.expects)
  <2>1. Client' = Client
    BY <1>2, RanFacts
  <2>2. call' = call
    BY <2>1 DEF Client
  <2>3. QED
    BY <2>1, <2>2, Typed DEF Keeps
<1>3. QED
  BY <1>1, <1>2

LEMMA NextPersists ==
  ASSUME TypeOK, ClientInv(Client), ServerInv, MessagesInv, AsksInv, PageInv(Client), [Next]_vars
  PROVE  CallsPersist /\ PageInv(Client')
<1>0. IdsInv(Client) /\ Client.call = call /\ Client'.call = call'
  BY DEF ClientInv, Client
<1>1. ASSUME NEW l \in Life, LoopGoesOn(l) PROVE CallsPersist /\ PageInv(Client')
  <2>1. Client' \in ClientType
        /\ \E batch \in {queue[l].buffer, <<>>}, ok \in BOOLEAN : Settles(Client, Client', batch, ok)
    BY <1>1, LoopFacts
  <2>2. QED
    BY <1>0, <2>1, Typed, SettlesKeeps, KeepsPersist
<1>2. ASSUME NEW x \in Calls, ChainGoesOn(x) PROVE CallsPersist /\ PageInv(Client')
  <2> DEFINE c == ChainStep(x)
             m == UploadItem(x, call[x].chained + 1)
  <2>1. c \in ClientType /\ Client' \in ClientType /\ Sends(c, Client', m)
    BY <1>2, ChainFacts
  <2>2. \A y \in Calls : /\ c.call[y].made = call[y].made /\ c.call[y].id = call[y].id
                         /\ c.call[y].pushed = call[y].pushed /\ c.call[y].cancel = call[y].cancel
    BY Typed DEF ChainStep, CallWith, CallType
  <2> HIDE DEF c, m
  <2>3. PageInv(c)
    BY <1>0, <2>2 DEF PageInv
  <2>4. \A y \in Calls : Keeps(c.call[y], Client'.call[y])
    BY <2>1, SendsKeeps
  <2>5. PageInv(Client')
    BY <2>3, <2>4, KeepsPage
  <2>6. QED
    BY <1>0, <2>2, <2>4, <2>5 DEF CallsPersist, Keeps
<1>3. ASSUME NEW x \in Calls, CancelGoesOn(x) PROVE CallsPersist /\ PageInv(Client')
  <2> DEFINE c == CancelStep(x)
             m == CancelInvocation(x)
  <2>1. c \in ClientType /\ Client' \in ClientType /\ Sends(c, Client', m) /\ call[x].cancel = "wanted"
    BY <1>3, CancelFacts DEF CanCancel
  <2>2. \A y \in Calls : /\ c.call[y].made = call[y].made /\ c.call[y].id = call[y].id
                         /\ c.call[y].pushed = call[y].pushed
                         /\ y # x => c.call[y].cancel = call[y].cancel
    BY Typed DEF CancelStep, CallWith, CallType
  <2> HIDE DEF c, m
  <2>3. PageInv(c)
    BY <1>0, <2>1, <2>2 DEF PageInv
  <2>4. \A y \in Calls : Keeps(c.call[y], Client'.call[y])
    BY <2>1, SendsKeeps
  <2>5. PageInv(Client')
    BY <2>3, <2>4, KeepsPage
  <2>6. QED
    BY <1>0, <2>2, <2>4, <2>5 DEF CallsPersist, Keeps
<1>4. ASSUME NEW x \in Calls, Call(x) PROVE CallsPersist /\ PageInv(Client')
  <2> DEFINE c == CallStep(x)
             m == CallMessage(x)
  <2>1. c \in ClientType /\ Client' \in ClientType /\ Sends(c, Client', m) /\ ~call[x].made
    BY <1>0, <1>4, CallFacts
  <2>2. \A y \in Calls : /\ y # x => c.call[y] = call[y]
                         /\ c.call[y].pushed = call[y].pushed /\ c.call[y].cancel = call[y].cancel
    BY Typed DEF CallStep, CallType
  <2> HIDE DEF c, m
  <2>3. PageInv(c)
    BY <1>0, <2>1, <2>2 DEF PageInv
  <2>4. \A y \in Calls : Keeps(c.call[y], Client'.call[y])
    BY <2>1, SendsKeeps
  <2>5. PageInv(Client')
    BY <2>3, <2>4, KeepsPage
  <2>6. QED
    BY <1>0, <2>1, <2>2, <2>4, <2>5 DEF CallsPersist, Keeps
<1>5. ASSUME NEW x \in Calls, Push(x) PROVE CallsPersist /\ PageInv(Client')
  <2>1. call[x].pushed < Upload(x) /\ call' = [call EXCEPT ![x].pushed = call[x].pushed + 1]
    BY <1>5 DEF Push
  <2>2. call[x].pushed \in Nat /\ Upload(x) \in Nat
    BY Typed, SetupFacts DEF CallType
  <2>3. \A y \in Calls : /\ call'[y].made = call[y].made /\ call'[y].id = call[y].id
                         /\ call'[y].cancel = call[y].cancel
                         /\ call'[y].pushed = IF y = x THEN call[y].pushed + 1 ELSE call[y].pushed
    BY <2>1, Typed DEF CallType
  <2>4. QED
    BY <1>0, <2>1, <2>2, <2>3 DEF CallsPersist, PageInv
<1>6. ASSUME NEW x \in Calls, Dispose(x) PROVE CallsPersist /\ PageInv(Client')
  <2>1. KindOf(x) = "stream" /\ call' = [call EXCEPT ![x] = [call[x] EXCEPT !.cancel = "wanted"]]
    BY <1>6, DisposeFacts
  <2>2. \A y \in Calls : /\ call'[y].made = call[y].made /\ call'[y].id = call[y].id
                         /\ y # x => call'[y].cancel = call[y].cancel
                         /\ call'[y].pushed = call[y].pushed
    BY <2>1, Typed DEF CallType
  <2>3. QED
    BY <1>0, <2>1, <2>2 DEF CallsPersist, PageInv
<1>7. ASSUME call' = call PROVE CallsPersist /\ PageInv(Client')
  BY <1>0, <1>7 DEF CallsPersist, PageInv
<1>8. ASSUME NEW a \in Asks, NEW how, HandlerEnds(a, how) PROVE CallsPersist /\ PageInv(Client')
  BY <1>8, HandlerFacts, RanKeeps, KeepsPersist
<1>9. ASSUME Receive PROVE CallsPersist /\ PageInv(Client')
  <2> DEFINE m == Head(net.down)
  <2>1. DownWell(m) /\ \/ m.type = "Completion" /\ Complete(m)
                       \/ m.type = "StreamItem" /\ StreamItem(m) /\ m.n \in 1 .. MaxItems
                       \/ m.type = "Invocation" /\ Invoke(m.of)
    BY <1>9, ReceiveFacts
  <2> HIDE DEF m
  <2>2. ASSUME Client' = Client PROVE CallsPersist /\ PageInv(Client')
    BY <1>0, <1>7, <2>2
  <2>3. ASSUME NEW x \in Calls, NEW s, call' = [call EXCEPT ![x] = s], Keeps(call[x], s),
               Client' \in ClientType
        PROVE  CallsPersist /\ PageInv(Client')
    <3>1. \A y \in Calls : Keeps(call[y], call'[y])
      BY <2>3, Typed DEF Keeps
    <3>2. QED
      BY <2>3, <3>1, KeepsPersist
  <2>4. CASE m.type = "Completion" /\ Complete(m)
    <3>1. ASSUME NEW x \in Calls, call' = [call EXCEPT ![x] = AfterCompletion(call[x], x, m)]
          PROVE  CallsPersist /\ PageInv(Client')
      <4>1. call[x] \in CallType
        BY Typed
      <4>2. Keeps(call[x], AfterCompletion(call[x], x, m))
        BY <4>1 DEF AfterCompletion, Keeps, CallType
      <4>3. QED
        BY <2>3, <2>4, <3>1, <4>2, CompletionFacts
    <3>2. QED
      BY <2>2, <2>4, <3>1, CompletionFacts
  <2>5. CASE m.type = "StreamItem" /\ StreamItem(m) /\ m.n \in 1 .. MaxItems
    <3>1. ASSUME NEW x \in Calls, call' = [call EXCEPT ![x] = AfterItem(call[x], m)]
          PROVE  CallsPersist /\ PageInv(Client')
      <4>1. call[x] \in CallType
        BY Typed
      <4>2. Keeps(call[x], AfterItem(call[x], m))
        BY <4>1 DEF AfterItem, Keeps, CallType
      <4>3. QED
        BY <2>3, <2>5, <3>1, <4>2, ItemFacts
    <3>2. QED
      BY <2>2, <2>5, <3>1, ItemFacts
  <2>6. CASE m.type = "Invocation" /\ Invoke(m.of)
    <3>1. m.of \in Asks
      BY <2>1, <2>6 DEF DownWell
    <3>2. QED
      BY <2>6, <3>1, InvokeFacts, RanKeeps, KeepsPersist
  <2>7. QED
    BY <2>1, <2>4, <2>5, <2>6
<1>10. ASSUME NEW l \in Life, NEW ok \in BOOLEAN, NEW arrived \in BOOLEAN, PostEnds(l, ok, arrived)
       PROVE  CallsPersist /\ PageInv(Client')
  <2>1. Client' \in ClientType /\ Settles(Client, Client', queue[l].flight, ok)
    BY <1>10, PostFacts
  <2>2. QED
    BY <1>0, <2>1, Typed, SettlesKeeps, KeepsPersist
<1>11. ASSUME Close PROVE CallsPersist /\ PageInv(Client')
  <2>1. Client' \in ClientType
        /\ call' = [x \in Calls |-> IF x \in Told THEN AfterCancel(call[x], x) ELSE call[x]]
    BY <1>11, CloseFacts
  <2>2. ASSUME NEW x \in Calls PROVE Keeps(call[x], call'[x])
    <3>1. call[x] \in CallType /\ call'[x] \in {call[x], AfterCancel(call[x], x)}
      BY <2>1, Typed
    <3>2. Keeps(call[x], AfterCancel(call[x], x))
      BY <3>1 DEF AfterCancel, Keeps, CallType
    <3>3. QED
      BY <3>1, <3>2 DEF Keeps
  <2>3. QED
    BY <2>1, <2>2, KeepsPersist
<1>12. ASSUME ServerReceives PROVE CallsPersist /\ PageInv(Client')
  BY <1>0, <1>7, <1>12, ServerReceivesFacts
<1>13. ASSUME NEW x \in Calls, NEW ok \in BOOLEAN, ServerCompletes(x, ok)
       PROVE  CallsPersist /\ PageInv(Client')
  BY <1>7, <1>13, CompletesFacts
<1>14. ASSUME NEW x \in Calls, ServerYields(x) PROVE CallsPersist /\ PageInv(Client')
  BY <1>7, <1>14, YieldsFacts
<1>15. ASSUME NEW a \in Asks, ServerAsks(a) PROVE CallsPersist /\ PageInv(Client')
  BY <1>7, <1>15, AsksFacts
<1>16. ASSUME On \/ Off \/ Reopen PROVE CallsPersist /\ PageInv(Client')
  BY <1>7, <1>16 DEF On, Off, Reopen
<1>17. CASE UNCHANGED vars
  BY <1>7, <1>17 DEF vars
<1>18. QED
  BY <1>1, <1>2, <1>3, <1>4, <1>5, <1>6, <1>8, <1>9, <1>10, <1>11, <1>12, <1>13, <1>14,
     <1>15, <1>16, <1>17
  DEF Next, GoesOn, Page, Handlers, Posts, Server, Completes, Yields

-----------------------------------------------------------------------------
(* Queues and messages stay right                                          *)

Unused == [buffer |-> <<>>, flight |-> <<>>, executing |-> TRUE, ended |-> FALSE]

\* Only the queue of the present connection is executed; what is in transit is of it.
QueueInv ==
  /\ \A l \in Life : /\ l > hub.life => queue[l] = Unused
                     /\ l <= hub.life => (queue[l].executing <=> hub.connected /\ l = hub.life)
  /\ ~hub.connected => net.up = <<>> /\ net.down = <<>>

\* What the server has not got yet, in the order in which it gets it.
Wire == IF hub.connected THEN net.up \o queue[hub.life].buffer ELSE <<>>

\* A call is begun once, an ask is answered once.
OnceInv ==
  /\ \A i \in DOMAIN Wire : Wire[i].type = "Invocation" => server[Wire[i].of].state = "no"
  /\ \A i, j \in DOMAIN Wire : Wire[i].type \in {"Invocation", "Reply"}
         /\ Wire[j].type = Wire[i].type /\ Wire[j].of = Wire[i].of => i = j
  /\ \A i \in DOMAIN Wire : Wire[i].type = "Reply" => ask[Wire[i].of].replies = <<>>

RepliesInv ==
  \A a \in Asks : ask[a].pc # "done" \/ ~setup.expects => ask[a].replies = <<>>

LEMMA ConcatFacts ==
  ASSUME NEW S, NEW s \in Seq(S), NEW t \in Seq(S)
  PROVE  /\ s \o t \in Seq(S) /\ Len(s) \in Nat /\ Len(t) \in Nat
         /\ DOMAIN s = 1 .. Len(s) /\ DOMAIN t = 1 .. Len(t)
         /\ Len(s \o t) = Len(s) + Len(t) /\ DOMAIN (s \o t) = 1 .. Len(s) + Len(t)
         /\ \A i \in 1 .. Len(s) : (s \o t)[i] = s[i]
         /\ \A i \in 1 .. Len(t) : (s \o t)[Len(s) + i] = t[i]
<1>1. s \o t \in Seq(S) /\ Len(s \o t) = Len(s) + Len(t)
      /\ \A i \in 1 .. Len(s) + Len(t) : (s \o t)[i] = IF i <= Len(s) THEN s[i] ELSE t[i - Len(s)]
  BY ConcatProperties
<1>2. Len(s) \in Nat /\ Len(t) \in Nat /\ DOMAIN s = 1 .. Len(s) /\ DOMAIN t = 1 .. Len(t)
  BY LenProperties
<1>3. DOMAIN (s \o t) = 1 .. Len(s) + Len(t)
  BY <1>1, LenProperties
<1> DEFINE n == Len(s)
           k == Len(t)
           u == s \o t
<1>4. \A i \in 1 .. n : u[i] = s[i]
  BY <1>1, <1>2
<1>5. \A i \in 1 .. k : u[n + i] = t[i]
  <2> SUFFICES ASSUME NEW i \in 1 .. k PROVE u[n + i] = t[i]
    OBVIOUS
  <2>1. n + i \in 1 .. n + k /\ ~(n + i <= n) /\ (n + i) - n = i
    BY <1>2
  <2>2. u[n + i] = t[(n + i) - n]
    BY <1>1, <2>1
  <2>3. QED
    BY <2>1, <2>2
<1>6. QED
  BY <1>1, <1>2, <1>3, <1>4, <1>5

LEMMA AppendFacts ==
  ASSUME NEW S, NEW s \in Seq(S), NEW e \in S
  PROVE  /\ Append(s, e) \in Seq(S) /\ Len(s) \in Nat /\ DOMAIN s = 1 .. Len(s)
         /\ DOMAIN Append(s, e) = 1 .. Len(s) + 1 /\ Len(Append(s, e)) = Len(s) + 1
         /\ Append(s, e)[Len(s) + 1] = e
         /\ \A i \in 1 .. Len(s) : Append(s, e)[i] = s[i]
BY AppendProperties, LenProperties

LEMMA WireFacts ==
  ASSUME TypeOK
  PROVE  LET b == queue[hub.life].buffer IN
         /\ Wire \in Seq(Message) /\ net.up \in Seq(Message) /\ b \in Seq(Message)
         /\ hub.life \in Life
         /\ hub.connected => Wire = net.up \o b
         /\ ~hub.connected => Wire = <<>>
<1>1. hub.life \in Life /\ net.up \in Seq(Message) /\ queue[hub.life].buffer \in Seq(Message)
  BY Typed DEF HubType, NetType, QueueType
<1>2. <<>> \in Seq(Message)
  OBVIOUS
<1>3. QED
  BY <1>1, <1>2, ConcatFacts DEF Wire

\* The message the server takes is the first on the wire.
LEMMA WireHead ==
  ASSUME TypeOK, hub.connected, net.up # <<>>
  PROVE  Head(net.up) = Wire[1] /\ 1 \in DOMAIN Wire
<1> DEFINE u == net.up
           b == queue[hub.life].buffer
<1>1. u \in Seq(Message) /\ b \in Seq(Message) /\ Wire = u \o b
  BY WireFacts
<1> HIDE DEF b
<1>2. Head(u) = u[1] /\ Len(u) \in Nat \ {0}
  BY <1>1, HeadFacts
<1>3. /\ DOMAIN (u \o b) = 1 .. Len(u) + Len(b) /\ Len(b) \in Nat
      /\ \A i \in 1 .. Len(u) : (u \o b)[i] = u[i]
  BY <1>1, ConcatFacts
<1>4. QED
  BY <1>1, <1>2, <1>3

AsksPersist ==
  \A a \in Asks : ask[a].pc = "done" => ask'[a].pc = "done"

ServerGoesOn ==
  \A x \in Calls : /\ server[x].items <= server'[x].items
                   /\ server[x].state = "done" =>
                        server'[x].state = "done" /\ server'[x].items = server[x].items
                   /\ server[x].state # "no" => server'[x].state # "no"

LEMMA SameServer ==
  ASSUME TypeOK, server' = server
  PROVE  ServerGoesOn
BY Typed, Bounds DEF ServerGoesOn, ServerType

LEMMA ReceivesGoesOn ==
  ASSUME TypeOK, ClientInv(Client), ServerInv, MessagesInv, OnceInv, ServerReceives
  PROVE  ServerGoesOn /\ ServerInv' /\ AsksPersist
<1> DEFINE m == Head(net.up)
           x == m.of
<1>1. /\ hub.connected /\ net.up # <<>> /\ UNCHANGED <<hub, call, queue, setup>>
      /\ m \in Message /\ UpWell(m)
      /\ \/ m.type = "Invocation" /\ server' = ServerWith(x, Begun(x, m)) /\ ask' = ask
         \/ /\ m.type \in {"StreamItem", "Completion"} /\ server' = ServerWith(x, Hearing(x, m.n))
            /\ ask' = ask
         \/ /\ m.type = "CancelInvocation" /\ ask' = ask
            /\ server' = IF server[x].state = "running" THEN ServerWith(x, Done(x)) ELSE server
         \/ m.type = "Reply" /\ server' = server /\ ask' = [ask EXCEPT ![x] = Answered(x, m)]
  BY ServerReceivesFacts DEF ClientInv
<1>2. m = Wire[1] /\ 1 \in DOMAIN Wire
  BY <1>1, WireHead
<1>3. server \in [Calls -> ServerType] /\ call' = call /\ Calls' = Calls
      /\ \A y \in Calls : server[y].items \in Nat
  BY <1>1, Typed, Fixed, Bounds DEF ServerType
<1> HIDE DEF m
<1>4. CASE m.type = "Invocation" /\ server' = ServerWith(x, Begun(x, m)) /\ ask' = ask
  <2>1. x \in Calls /\ call[x].made /\ m.id = call[x].id
    BY <1>1, <1>4 DEF UpWell
  <2>2. server[x].state = "no"
    BY <1>2, <1>4 DEF OnceInv
  <2>3. server[x].items = 0
    BY <2>1, <2>2 DEF ServerInv
  <2>4. server'[x] = Begun(x, m) /\ \A y \in Calls : y # x => server'[y] = server[y]
    BY <1>3, <1>4, <2>1 DEF ServerWith
  <2>5. server'[x].state = "running" /\ server'[x].id = m.id /\ server'[x].items = 0
    BY <1>3, <2>1, <2>4 DEF Begun, ServerType
  <2>6. ServerGoesOn
    BY <1>3, <2>2, <2>3, <2>4, <2>5 DEF ServerGoesOn
  <2>7. ServerInv'
    BY <1>3, <2>1, <2>4, <2>5 DEF ServerInv
  <2>8. QED
    BY <1>4, <2>6, <2>7 DEF AsksPersist
<1>5. CASE /\ m.type \in {"StreamItem", "Completion"} /\ server' = ServerWith(x, Hearing(x, m.n))
           /\ ask' = ask
  <2>1. x \in Calls /\ call[x].made
    BY <1>1, <1>5 DEF UpWell
  <2>2. server'[x] = Hearing(x, m.n) /\ \A y \in Calls : y # x => server'[y] = server[y]
    BY <1>3, <1>5, <2>1 DEF ServerWith
  <2>3. server'[x].state = server[x].state /\ server'[x].id = server[x].id
        /\ server'[x].items = server[x].items
    BY <1>3, <2>1, <2>2 DEF Hearing, ServerType
  <2>4. ServerGoesOn
    BY <1>3, <2>2, <2>3 DEF ServerGoesOn
  <2>5. ServerInv'
    BY <1>3, <2>1, <2>2, <2>3 DEF ServerInv
  <2>6. QED
    BY <1>5, <2>4, <2>5 DEF AsksPersist
<1>6. CASE server' = server
  <2>1. ServerInv'
    BY <1>3, <1>6 DEF ServerInv
  <2>2. AsksPersist
    <3>0. m.type = "Reply" => x \in Asks
      BY <1>1 DEF UpWell
    <3>1. ask' = ask \/ (x \in Asks /\ ask' = [ask EXCEPT ![x] = Answered(x, m)])
      <4>1. ask' = ask \/ (m.type = "Reply" /\ ask' = [ask EXCEPT ![x] = Answered(x, m)])
        BY <1>1
      <4>2. QED
        BY <3>0, <4>1
    <3>2. ASSUME NEW a \in Asks, ask' = [ask EXCEPT ![x] = Answered(x, m)], x \in Asks
          PROVE  ask'[a].pc = ask[a].pc
      BY <3>2, Typed DEF Answered, AskType
    <3>3. QED
      BY <3>1, <3>2 DEF AsksPersist
  <2>3. QED
    BY <1>6, <2>1, <2>2, SameServer
<1>7. CASE m.type = "CancelInvocation" /\ ask' = ask /\ server[x].state = "running"
           /\ server' = ServerWith(x, Done(x))
  <2>1. x \in Calls
    BY <1>1, <1>7 DEF UpWell
  <2>2. server'[x] = Done(x) /\ \A y \in Calls : y # x => server'[y] = server[y]
    BY <1>3, <1>7, <2>1 DEF ServerWith
  <2>3. server'[x].state = "done" /\ server'[x].id = server[x].id
        /\ server'[x].items = server[x].items /\ server'[x].heard = server[x].heard
    BY <1>3, <2>1, <2>2 DEF Done, ServerType
  <2>4. ServerGoesOn
    BY <1>3, <1>7, <2>2, <2>3 DEF ServerGoesOn
  <2>5. ServerInv'
    BY <1>3, <1>7, <2>1, <2>2, <2>3 DEF ServerInv
  <2>6. QED
    BY <1>7, <2>4, <2>5 DEF AsksPersist
<1>8. QED
  BY <1>1, <1>4, <1>5, <1>6, <1>7

\* Which steps change what.
NextSteps ==
  /\ setup' = setup
  /\ \/ ServerReceives
     \/ \E x \in Calls : ServerYields(x)
     \/ \E x \in Calls, ok \in BOOLEAN : ServerCompletes(x, ok)
     \/ server' = server
  /\ \/ \E a \in Asks, how \in {"value", "nothing", "throws"} : HandlerEnds(a, how)
     \/ Receive \/ Close \/ ServerReceives
     \/ \E a \in Asks : ServerAsks(a)
     \/ ask' = ask
  /\ \/ Receive \/ Close
     \/ \E x \in Calls : ServerYields(x)
     \/ \E x \in Calls, ok \in BOOLEAN : ServerCompletes(x, ok)
     \/ \E a \in Asks : ServerAsks(a)
     \/ net'.down = net.down

LEMMA StepsSplit ==
  ASSUME TypeOK, ClientInv(Client), ServerInv, MessagesInv, AsksInv, [Next]_vars
  PROVE  NextSteps
<1>0. IdsInv(Client)
  BY DEF ClientInv
<1>1. ASSUME UNCHANGED <<server, ask, setup>>, net'.down = net.down PROVE NextSteps
  BY <1>1 DEF NextSteps
<1>2. ASSUME NEW l \in Life, LoopGoesOn(l) PROVE NextSteps
  BY <1>1, <1>2, LoopFacts
<1>3. ASSUME NEW x \in Calls, ChainGoesOn(x) \/ CancelGoesOn(x) PROVE NextSteps
  BY <1>1, <1>3 DEF ChainGoesOn, CancelGoesOn
<1>4. ASSUME NEW x \in Calls, Call(x) \/ Push(x) \/ Dispose(x) PROVE NextSteps
  BY <1>1, <1>4 DEF Call, Push, Dispose
<1>5. ASSUME On \/ Off \/ Reopen \/ UNCHANGED vars PROVE NextSteps
  BY <1>1, <1>5 DEF On, Off, Reopen, vars
<1>6. ASSUME NEW a \in Asks, NEW how \in {"value", "nothing", "throws"}, HandlerEnds(a, how)
      PROVE  NextSteps
  <2>1. UNCHANGED <<net, server, setup>>
    BY <1>6 DEF HandlerEnds
  <2>2. QED
    BY <1>6, <2>1 DEF NextSteps
<1>7. ASSUME Receive \/ Close PROVE NextSteps
  <2>1. UNCHANGED <<server, setup>>
    BY <1>7 DEF Receive, Close
  <2>2. QED
    BY <1>7, <2>1 DEF NextSteps
<1>8. ASSUME NEW l \in Life, NEW ok \in BOOLEAN, NEW arrived \in BOOLEAN, PostEnds(l, ok, arrived)
      PROVE  NextSteps
  BY <1>1, <1>8, PostFacts
<1>9. ASSUME ServerReceives PROVE NextSteps
  <2>1. setup' = setup /\ net'.down = net.down
    BY <1>0, <1>9, ServerReceivesFacts
  <2>2. QED
    BY <1>9, <2>1 DEF NextSteps
<1>10. ASSUME NEW x \in Calls, NEW ok \in BOOLEAN, ServerCompletes(x, ok) PROVE NextSteps
  <2>1. UNCHANGED <<ask, setup>>
    BY <1>10 DEF ServerCompletes
  <2>2. QED
    BY <1>10, <2>1 DEF NextSteps
<1>11. ASSUME NEW x \in Calls, ServerYields(x) PROVE NextSteps
  <2>1. UNCHANGED <<ask, setup>>
    BY <1>11 DEF ServerYields
  <2>2. QED
    BY <1>11, <2>1 DEF NextSteps
<1>12. ASSUME NEW a \in Asks, ServerAsks(a) PROVE NextSteps
  <2>1. UNCHANGED <<server, setup>>
    BY <1>12 DEF ServerAsks
  <2>2. QED
    BY <1>12, <2>1 DEF NextSteps
<1>13. QED
  BY <1>2, <1>3, <1>4, <1>5, <1>6, <1>7, <1>8, <1>9, <1>10, <1>11, <1>12
  DEF Next, GoesOn, Page, Handlers, Posts, Server, Completes, Yields

-----------------------------------------------------------------------------
(* The server and the asks stay right                                      *)

LEMMA YieldsGoesOn ==
  ASSUME TypeOK, ServerInv, NEW x \in Calls, ServerYields(x)
  PROVE  ServerGoesOn /\ ServerInv'
<1> DEFINE r == [server[x] EXCEPT !.items = server[x].items + 1]
<1>1. UNCHANGED <<call, setup>> /\ server' = ServerWith(x, r) /\ server[x].state = "running"
  BY YieldsFacts
<1>2. server \in [Calls -> ServerType] /\ Calls' = Calls /\ \A y \in Calls : server[y].items \in Nat
  BY <1>1, Typed, Fixed, Bounds DEF ServerType
<1>3. r.state = server[x].state /\ r.id = server[x].id /\ r.heard = server[x].heard
      /\ r.items = server[x].items + 1
  BY <1>2 DEF ServerType
<1> HIDE DEF r
<1>4. server'[x] = r /\ \A y \in Calls : y # x => server'[y] = server[y]
  BY <1>1, <1>2 DEF ServerWith
<1>5. ServerGoesOn
  BY <1>1, <1>2, <1>3, <1>4 DEF ServerGoesOn
<1>6. ServerInv'
  BY <1>1, <1>2, <1>3, <1>4 DEF ServerInv
<1>7. QED
  BY <1>5, <1>6

LEMMA CompletesGoesOn ==
  ASSUME TypeOK, ServerInv, NEW x \in Calls, NEW ok \in BOOLEAN, ServerCompletes(x, ok)
  PROVE  ServerGoesOn /\ ServerInv'
<1> DEFINE r == Done(x)
<1>1. UNCHANGED <<call, setup>> /\ server' = ServerWith(x, r) /\ server[x].state = "running"
  BY CompletesFacts
<1>2. server \in [Calls -> ServerType] /\ Calls' = Calls /\ \A y \in Calls : server[y].items \in Nat
  BY <1>1, Typed, Fixed, Bounds DEF ServerType
<1>3. r.state = "done" /\ r.id = server[x].id /\ r.heard = server[x].heard
      /\ r.items = server[x].items
  BY <1>2 DEF ServerType, Done
<1> HIDE DEF r
<1>4. server'[x] = r /\ \A y \in Calls : y # x => server'[y] = server[y]
  BY <1>1, <1>2 DEF ServerWith
<1>5. ServerGoesOn
  BY <1>1, <1>2, <1>3, <1>4 DEF ServerGoesOn
<1>6. ServerInv'
  BY <1>1, <1>2, <1>3, <1>4 DEF ServerInv
<1>7. QED
  BY <1>5, <1>6

LEMMA NextServerInv ==
  ASSUME TypeOK, ClientInv(Client), ServerInv, MessagesInv, AsksInv, OnceInv, CallsPersist,
         [Next]_vars
  PROVE  ServerGoesOn /\ ServerInv'
<1>1. ASSUME server' = server PROVE ServerGoesOn /\ ServerInv'
  <2>1. Calls' = Calls
    BY StepsSplit, Fixed DEF NextSteps
  <2>2. ServerInv'
    BY <1>1, <2>1 DEF ServerInv, CallsPersist
  <2>3. QED
    BY <1>1, <2>2, SameServer
<1>2. QED
  BY <1>1, StepsSplit, ReceivesGoesOn, YieldsGoesOn, CompletesGoesOn DEF NextSteps

\* An ask that runs comes to its end, and an ask that ended stays so.
LEMMA RanAsks ==
  ASSUME TypeOK, AsksInv, NEW a \in Asks, NEW r \in AskType, Ran(a, r), r.pc = "running",
         r.replies = ask[a].replies, ask[a].pc # "done", setup' = setup
  PROVE  /\ AsksPersist /\ \A b \in Asks : ask'[b].pc = "running" => ask'[b].left > 0
         /\ \A b \in Asks : b # a => ask'[b] = ask[b]
         /\ \A b \in Asks : ask'[b].replies = ask[b].replies
         /\ ask'[a].pc = IF r.left = 0 THEN "done" ELSE "running"
<1>1. ask' = [ask EXCEPT ![a] = Rest(r)]
  BY RanFacts
<1>2. ask'[a] = Rest(r) /\ \A b \in Asks : b # a => ask'[b] = ask[b]
  BY <1>1, Typed
<1>3. r.left \in 0 .. MaxMethods /\ Rest(r).left = r.left /\ Rest(r).replies = ask[a].replies
      /\ Rest(r).pc = IF r.left = 0 THEN "done" ELSE "running"
  BY DEF Rest, AskType
<1>4. Rest(r).pc = "running" => Rest(r).left > 0
  BY <1>3, Bounds
<1>5. QED
  BY <1>2, <1>3, <1>4 DEF AsksPersist, AsksInv

\* The asks after a step: they end and are replied to, and what is on its way stays
\* so until it is received or the connection closes.
AsksGoOn ==
  /\ AsksPersist /\ RepliesInv'
  /\ \A a \in Asks : ask'[a].pc = "running" => ask'[a].left > 0
  /\ \A a \in Asks : ask[a].pc = "coming" =>
       \/ ask'[a].pc = "coming"
       \/ Receive /\ Head(net.down).type = "Invocation" /\ Head(net.down).of = a
       \/ Close

LEMMA RanGoesOn ==
  ASSUME TypeOK, AsksInv, RepliesInv, NEW a \in Asks, NEW r \in AskType, Ran(a, r),
         r.pc = "running", r.replies = ask[a].replies, ask[a].pc # "done", setup' = setup,
         ask[a].pc = "running"
           \/ (Receive /\ Head(net.down).type = "Invocation" /\ Head(net.down).of = a)
  PROVE  AsksGoOn
<1>1. /\ AsksPersist /\ \A b \in Asks : ask'[b].pc = "running" => ask'[b].left > 0
      /\ \A b \in Asks : b # a => ask'[b] = ask[b]
      /\ \A b \in Asks : ask'[b].replies = ask[b].replies
  BY RanAsks
<1>2. RepliesInv'
  BY <1>1, Fixed DEF RepliesInv, AsksPersist
<1>3. QED
  BY <1>1, <1>2 DEF AsksGoOn

LEMMA NextAsks ==
  ASSUME TypeOK, ClientInv(Client), ServerInv, MessagesInv, AsksInv, RepliesInv, [Next]_vars
  PROVE  AsksGoOn
<1>0. setup' = setup /\ Asks' = Asks /\ IdsInv(Client)
  BY StepsSplit, Fixed DEF NextSteps, ClientInv
<1>1. ASSUME NEW a \in Asks, NEW how \in {"value", "nothing", "throws"}, HandlerEnds(a, how)
      PROVE  AsksGoOn
  <2>1. ask[a].pc = "running"
        /\ \E r \in AskType : r.pc = "running" /\ r.replies = ask[a].replies /\ Ran(a, r)
    BY <1>1, HandlerFacts
  <2>2. QED
    BY <1>0, <2>1, RanGoesOn
<1>2. ASSUME ask' = ask PROVE AsksGoOn
  BY <1>0, <1>2 DEF AsksGoOn, AsksPersist, AsksInv, RepliesInv
<1>3. ASSUME Receive PROVE AsksGoOn
  <2> DEFINE m == Head(net.down)
  <2>1. DownWell(m) /\ \/ m.type = "Completion" /\ Complete(m)
                       \/ m.type = "StreamItem" /\ StreamItem(m)
                       \/ m.type = "Invocation" /\ Invoke(m.of)
    BY <1>3, ReceiveFacts
  <2>2. CASE m.type = "Completion" /\ Complete(m)
    BY <1>2, <2>2 DEF Complete
  <2>3. CASE m.type = "StreamItem" /\ StreamItem(m)
    BY <1>2, <2>3 DEF StreamItem
  <2>4. CASE m.type = "Invocation" /\ Invoke(m.of)
    <3>1. m.of \in Asks /\ ask[m.of].pc = "coming"
      BY <2>1, <2>4 DEF DownWell
    <3>2. \E r \in AskType : r.pc = "running" /\ r.replies = ask[m.of].replies /\ Ran(m.of, r)
      BY <2>4, <3>1, InvokeFacts
    <3>3. PICK r \in AskType : r.pc = "running" /\ r.replies = ask[m.of].replies /\ Ran(m.of, r)
      BY <3>2
    <3>4. Receive /\ Head(net.down).type = "Invocation" /\ Head(net.down).of = m.of
      BY <1>3, <2>4
    <3> HIDE DEF m
    <3>5. QED
      BY <1>0, <3>1, <3>3, <3>4, RanGoesOn
  <2>5. QED
    BY <2>1, <2>2, <2>3, <2>4
<1>4. ASSUME Close PROVE AsksGoOn
  <2>1. ask' = [a \in Asks |-> IF ask[a].pc = "coming" THEN [ask[a] EXCEPT !.pc = "done"] ELSE ask[a]]
    BY <1>4, CloseFacts
  <2>2. ASSUME NEW a \in Asks
        PROVE  /\ ask'[a].replies = ask[a].replies /\ ask'[a].left = ask[a].left
               /\ ask'[a].pc = IF ask[a].pc = "coming" THEN "done" ELSE ask[a].pc
    <3>1. ask[a] \in AskType /\ ask'[a] = IF ask[a].pc = "coming" THEN [ask[a] EXCEPT !.pc = "done"] ELSE ask[a]
      BY <2>1, Typed
    <3>2. QED
      BY <3>1 DEF AskType
  <2>3. QED
    BY <1>0, <1>4, <2>2 DEF AsksGoOn, AsksPersist, AsksInv, RepliesInv
<1>5. ASSUME ServerReceives PROVE AsksGoOn
  <2> DEFINE m == Head(net.up)
             a == m.of
  <2>1. UpWell(m) /\ (ask' = ask \/ (m.type = "Reply" /\ ask' = [ask EXCEPT ![a] = Answered(a, m)]))
    BY <1>0, <1>5, ServerReceivesFacts
  <2>2. CASE m.type = "Reply" /\ ask' = [ask EXCEPT ![a] = Answered(a, m)]
    <3>1. a \in Asks /\ setup.expects /\ ask[a].pc = "done"
      BY <2>1, <2>2 DEF UpWell
    <3>2. ask'[a] = Answered(a, m) /\ \A b \in Asks : b # a => ask'[b] = ask[b]
      BY <2>2, <3>1, Typed
    <3>3. Answered(a, m).pc = "done"
      BY <3>1, Typed DEF Answered, AskType
    <3> HIDE DEF m
    <3>4. QED
      BY <1>0, <3>1, <3>2, <3>3 DEF AsksGoOn, AsksPersist, AsksInv, RepliesInv
  <2>3. QED
    BY <1>2, <2>1, <2>2
<1>6. ASSUME NEW a \in Asks, ServerAsks(a) PROVE AsksGoOn
  <2>1. ask[a].pc = "no" /\ ask' = [ask EXCEPT ![a] = [ask[a] EXCEPT !.pc = "coming"]]
    BY <1>6, AsksFacts
  <2>2. ask'[a].pc = "coming" /\ ask'[a].replies = ask[a].replies
        /\ \A b \in Asks : b # a => ask'[b] = ask[b]
    BY <2>1, Typed DEF AskType
  <2>3. QED
    BY <1>0, <2>1, <2>2 DEF AsksGoOn, AsksPersist, AsksInv, RepliesInv
<1>7. QED
  BY <1>1, <1>2, <1>3, <1>4, <1>5, <1>6, StepsSplit DEF NextSteps

-----------------------------------------------------------------------------
(* The messages of the server stay right                                   *)

\* DownWell after a step, said of any message.
NextDownWell(m) ==
  \/ /\ m.type \in {"StreamItem", "Completion"}
     /\ m.of \in Calls /\ m.id = call'[m.of].id /\ KindOf(m.of) # "send"
     /\ m.type = "StreamItem" => KindOf(m.of) = "stream" /\ m.n \in 1 .. server'[m.of].items
     /\ m.type = "Completion" => server'[m.of].state = "done"
     /\ server'[m.of].state # "no"
  \/ m.type = "Invocation" /\ m.of \in Asks /\ ask'[m.of].pc = "coming"

LEMMA AllDownNext ==
  ASSUME setup' = setup, \A i \in DOMAIN net'.down : NextDownWell(net'.down[i])
  PROVE  \A i \in DOMAIN net'.down : DownWell(net.down[i])'
BY Fixed DEF DownWell, NextDownWell

LEMMA DownWellKept ==
  ASSUME TypeOK, ServerInv, ServerGoesOn, CallsPersist, AsksGoOn, setup' = setup,
         server' \in [Calls -> ServerType],
         NEW m, DownWell(m), m.type = "Invocation" => ask'[m.of].pc = "coming"
  PROVE  NextDownWell(m)
<1>2. CASE m.type \in {"StreamItem", "Completion"}
  <2> DEFINE x == m.of
  <2>1. /\ x \in Calls /\ m.id = call[x].id /\ KindOf(x) # "send" /\ server[x].state # "no"
        /\ m.type = "StreamItem" => KindOf(x) = "stream" /\ m.n \in 1 .. server[x].items
        /\ m.type = "Completion" => server[x].state = "done"
    BY <1>2 DEF DownWell
  <2> HIDE DEF x
  <2>2. call[x].made
    BY <2>1 DEF ServerInv
  <2>3. call'[x].id = m.id
    BY <2>1, <2>2 DEF CallsPersist
  <2>4. server'[x].state # "no" /\ (m.type = "Completion" => server'[x].state = "done")
    BY <2>1 DEF ServerGoesOn
  <2>5. server[x].items \in Nat /\ server'[x].items \in Nat /\ server[x].items <= server'[x].items
    BY <2>1, Typed, Bounds DEF ServerGoesOn, ServerType
  <2>6. m.type = "StreamItem" => KindOf(x) = "stream" /\ m.n \in 1 .. server'[x].items
    BY <2>1, <2>5
  <2>7. QED
    BY <1>2, <2>1, <2>3, <2>4, <2>6 DEF NextDownWell, x
<1>3. CASE m.type = "Invocation"
  BY <1>3 DEF DownWell, NextDownWell
<1>4. QED
  BY <1>2, <1>3 DEF DownWell

AskedOnce(s) ==
  \A i, j \in DOMAIN s : s[i].type = "Invocation" /\ s[j].type = "Invocation"
                         /\ s[i].of = s[j].of => i = j

LEMMA DownAppend ==
  ASSUME TypeOK, NEW m \in Message, net'.down = Append(net.down, m),
         AskedOnce(net.down), NextDownWell(m),
         \A i \in DOMAIN net.down : NextDownWell(net.down[i]),
         m.type = "Invocation" =>
           \A i \in DOMAIN net.down : ~(net.down[i].type = "Invocation" /\ net.down[i].of = m.of)
  PROVE  AskedOnce(net'.down) /\ \A i \in DOMAIN net'.down : NextDownWell(net'.down[i])
<1> DEFINE s == net.down
           t == net'.down
<1>1. /\ Len(s) \in Nat /\ DOMAIN s = 1 .. Len(s) /\ DOMAIN t = 1 .. Len(s) + 1
      /\ t[Len(s) + 1] = m /\ \A i \in 1 .. Len(s) : t[i] = s[i]
  BY Typed, AppendFacts DEF NetType
<1>2. \A i \in DOMAIN t : i \in DOMAIN s \/ i = Len(s) + 1
  BY <1>1
<1>3. ASSUME NEW i \in DOMAIN t PROVE NextDownWell(t[i])
  BY <1>1, <1>2, <1>3
<1>4. AskedOnce(t)
  BY <1>1, <1>2 DEF AskedOnce
<1>5. QED
  BY <1>3, <1>4

LEMMA NextDown ==
  ASSUME TypeOK, ClientInv(Client), ServerInv, MessagesInv, AsksInv, RepliesInv,
         ServerGoesOn, ServerInv', CallsPersist, AsksGoOn, TypeOK', [Next]_vars
  PROVE  AskedOnce(net'.down) /\ \A i \in DOMAIN net'.down : DownWell(net.down[i])'
<1> DEFINE Goal == AskedOnce(net'.down) /\ \A i \in DOMAIN net'.down : NextDownWell(net'.down[i])
<1>0. setup' = setup /\ server' \in [Calls -> ServerType] /\ Calls' = Calls
  BY StepsSplit, Fixed, Typed DEF NextSteps, TypeOK, ServerType
<1>1. AskedOnce(net.down) /\ \A i \in DOMAIN net.down : DownWell(net.down[i])
  BY DEF AsksInv, AskedOnce, MessagesInv
<1>2. ASSUME NEW i \in DOMAIN net.down,
             ~(Receive /\ Head(net.down).type = "Invocation" /\ Head(net.down).of = net.down[i].of),
             ~Close
      PROVE  NextDownWell(net.down[i])
  <2>1. net.down[i].type = "Invocation" => ask'[net.down[i].of].pc = "coming"
    BY <1>1, <1>2 DEF DownWell, AsksGoOn
  <2>2. QED
    BY <1>0, <1>1, <2>1, DownWellKept
<1>3. ASSUME Close PROVE Goal
  <2>1. net'.down = <<>>
    BY <1>3, CloseFacts
  <2>2. QED
    BY <2>1 DEF AskedOnce
<1>4. ASSUME Receive, ~Close PROVE Goal
  <2> DEFINE s == net.down
             t == net'.down
  <2>1. s \in Seq(Message) /\ s # <<>> /\ t = Tail(s)
    BY <1>4, ReceiveFacts, Typed DEF NetType
  <2>2. /\ Len(s) \in Nat \ {0} /\ DOMAIN s = 1 .. Len(s) /\ DOMAIN t = 1 .. Len(s) - 1
        /\ Head(s) = s[1] /\ \A i \in 1 .. Len(s) - 1 : t[i] = s[i + 1]
    BY <2>1, HeadFacts
  <2> HIDE DEF s, t
  <2>3. \A i \in DOMAIN t : i + 1 \in DOMAIN s /\ i + 1 # 1 /\ t[i] = s[i + 1]
    BY <2>2
  <2>4. AskedOnce(t)
    <3>1. \A i, j \in DOMAIN t : i + 1 = j + 1 => i = j
      BY <2>2
    <3>2. AskedOnce(s)
      BY <1>1 DEF s
    <3>3. QED
      BY <2>3, <3>1, <3>2 DEF AskedOnce
  <2>5. ASSUME NEW i \in DOMAIN t PROVE NextDownWell(t[i])
    <3>1. 1 \in DOMAIN s /\ i + 1 \in DOMAIN s /\ i + 1 # 1 /\ t[i] = s[i + 1]
      BY <2>2, <2>3
    <3>2. ~(s[1].type = "Invocation" /\ s[i + 1].type = "Invocation" /\ s[1].of = s[i + 1].of)
      BY <1>1, <3>1 DEF AskedOnce, s
    <3>3. s[i + 1].type = "Invocation" => ask'[s[i + 1].of].pc = "coming"
      BY <1>1, <1>4, <2>2, <3>1, <3>2 DEF DownWell, AsksGoOn, s
    <3>4. DownWell(s[i + 1])
      BY <1>1, <3>1 DEF s
    <3>5. QED
      BY <1>0, <3>1, <3>3, <3>4, DownWellKept
  <2>6. QED
    BY <2>4, <2>5 DEF t
<1>5. ASSUME ~Receive, ~Close, net'.down = net.down PROVE Goal
  BY <1>1, <1>2, <1>5
<1>6. ASSUME ~Receive, ~Close, NEW x \in Calls, ServerYields(x) PROVE Goal
  <2> DEFINE m == ItemMessage(x)
  <2>1. /\ m \in Message /\ net'.down = Append(net.down, m) /\ server[x].state = "running"
        /\ KindOf(x) = "stream" /\ call' = call
        /\ server' = ServerWith(x, [server[x] EXCEPT !.items = server[x].items + 1])
    BY <1>6, YieldsFacts
  <2>2. m.type = "StreamItem" /\ m.of = x /\ m.id = server[x].id /\ m.n = server[x].items + 1
    BY DEF ItemMessage
  <2>3. server[x].items \in Nat /\ server'[x].items = server[x].items + 1
        /\ server'[x].state = "running"
    BY <2>1, Typed, Bounds DEF ServerWith, ServerType
  <2>4. server[x].id = call[x].id
    BY <2>1 DEF ServerInv
  <2> HIDE DEF m
  <2>5. NextDownWell(m)
    BY <2>1, <2>2, <2>3, <2>4 DEF NextDownWell
  <2>6. QED
    BY <1>1, <1>2, <1>6, <2>1, <2>2, <2>5, DownAppend
<1>7. ASSUME ~Receive, ~Close, NEW x \in Calls, NEW ok \in BOOLEAN, ServerCompletes(x, ok) PROVE Goal
  <2> DEFINE m == EndMessage(x, ok)
  <2>1. /\ server[x].state = "running" /\ call' = call /\ server' = ServerWith(x, Done(x))
        /\ \/ net' = net
           \/ m \in Message /\ net'.down = Append(net.down, m) /\ KindOf(x) # "send"
    BY <1>7, CompletesFacts
  <2>2. m.type = "Completion" /\ m.of = x /\ m.id = server[x].id
    BY DEF EndMessage
  <2>3. server'[x].state = "done"
    BY <2>1, Typed DEF ServerWith, ServerType, Done
  <2>4. server[x].id = call[x].id
    BY <2>1 DEF ServerInv
  <2> HIDE DEF m
  <2>5. KindOf(x) # "send" => NextDownWell(m)
    BY <2>1, <2>2, <2>3, <2>4 DEF NextDownWell
  <2>6. QED
    BY <1>1, <1>2, <1>5, <1>7, <2>1, <2>2, <2>5, DownAppend
<1>8. ASSUME ~Receive, ~Close, NEW a \in Asks, ServerAsks(a) PROVE Goal
  <2> DEFINE m == AskMessage(a)
  <2>1. /\ ask[a].pc = "no" /\ ask' = [ask EXCEPT ![a] = [ask[a] EXCEPT !.pc = "coming"]]
        /\ m \in Message /\ net'.down = Append(net.down, m)
    BY <1>8, AsksFacts
  <2>2. m.type = "Invocation" /\ m.of = a
    BY DEF AskMessage
  <2>3. ask'[a].pc = "coming"
    BY <2>1, Typed DEF AskType
  <2> HIDE DEF m
  <2>4. NextDownWell(m)
    BY <2>2, <2>3 DEF NextDownWell
  <2>5. \A i \in DOMAIN net.down : ~(net.down[i].type = "Invocation" /\ net.down[i].of = a)
    BY <1>1, <2>1 DEF DownWell
  <2>6. QED
    BY <1>1, <1>2, <1>8, <2>1, <2>2, <2>4, <2>5, DownAppend
<1>9. Goal
  BY <1>3, <1>4, <1>5, <1>6, <1>7, <1>8, StepsSplit DEF NextSteps
<1>10. QED
  BY <1>0, <1>9, AllDownNext

-----------------------------------------------------------------------------
(* The messages of the client stay right                                   *)

LEMMA TypedAfter ==
  ASSUME TypeOK', setup' = setup
  PROVE  /\ hub' \in HubType /\ call' \in [Calls -> CallType] /\ queue' \in [Life -> QueueType]
         /\ net' \in NetType /\ server' \in [Calls -> ServerType] /\ ask' \in [Asks -> AskType]
         /\ Client' \in ClientType
<1>1. /\ hub' \in HubType /\ call' \in [Calls -> CallType] /\ queue' \in [Life -> QueueType]
      /\ net' \in NetType /\ server' \in [Calls -> ServerType] /\ ask' \in [Asks -> AskType]
  BY Fixed DEF TypeOK, HubType, CallType, QueueType, NetType, ServerType, AskType
<1>2. QED
  BY <1>1 DEF Client, ClientType

In(m, s) == \E i \in DOMAIN s : s[i] = m

LEMMA ConcatMessages ==
  ASSUME NEW s \in Seq(Message), NEW t \in Seq(Message)
  PROVE  /\ s \o t \in Seq(Message) /\ Len(s) \in Nat /\ Len(t) \in Nat
         /\ DOMAIN s = 1 .. Len(s) /\ DOMAIN t = 1 .. Len(t)
         /\ Len(s \o t) = Len(s) + Len(t) /\ DOMAIN (s \o t) = 1 .. Len(s) + Len(t)
         /\ \A i \in 1 .. Len(s) : (s \o t)[i] = s[i]
         /\ \A i \in 1 .. Len(t) : (s \o t)[Len(s) + i] = t[i]
BY ConcatFacts

LEMMA InConcat ==
  ASSUME NEW s \in Seq(Message), NEW t \in Seq(Message), NEW m
  PROVE  In(m, s \o t) => In(m, s) \/ In(m, t)
<1> DEFINE u == s \o t
           n == Len(s)
           k == Len(t)
<1>1. /\ n \in Nat /\ k \in Nat /\ DOMAIN s = 1 .. n /\ DOMAIN t = 1 .. k /\ DOMAIN u = 1 .. n + k
      /\ \A i \in 1 .. n : u[i] = s[i]
      /\ \A i \in 1 .. k : u[n + i] = t[i]
  BY ConcatFacts
<1> HIDE DEF u, n, k
<1>2. ASSUME NEW i \in DOMAIN u, u[i] = m PROVE In(m, s) \/ In(m, t)
  <2>1. CASE i <= n
    BY <1>1, <1>2, <2>1 DEF In
  <2>2. CASE ~(i <= n)
    <3>1. i - n \in 1 .. k /\ n + (i - n) = i
      BY <1>1, <1>2, <2>2
    <3>2. t[i - n] = m
      BY <1>1, <1>2, <3>1
    <3>3. QED
      BY <1>1, <3>1, <3>2 DEF In
  <2>3. QED
    BY <2>1, <2>2
<1>3. QED
  BY <1>2 DEF In, u

LEMMA InAppend ==
  ASSUME NEW s \in Seq(Message), NEW e \in Message, NEW m
  PROVE  In(m, Append(s, e)) => In(m, s) \/ m = e
BY AppendFacts DEF In

LEMMA InTail ==
  ASSUME NEW s \in Seq(Message), s # <<>>, NEW m
  PROVE  In(m, Tail(s)) => In(m, s)
<1> DEFINE t == Tail(s)
<1>1. /\ Len(s) \in Nat \ {0} /\ DOMAIN s = 1 .. Len(s) /\ DOMAIN t = 1 .. Len(s) - 1
      /\ \A i \in 1 .. Len(s) - 1 : t[i] = s[i + 1]
  BY HeadFacts
<1> HIDE DEF t
<1>2. \A i \in DOMAIN t : i + 1 \in DOMAIN s /\ t[i] = s[i + 1]
  BY <1>1
<1>3. QED
  BY <1>2 DEF In, t

LEMMA PrefixFacts ==
  ASSUME NEW s \in Seq(Message), NEW n \in 0 .. Len(s)
  PROVE  LET t == SubSeq(s, 1, n) IN
         /\ t \in Seq(Message) /\ Len(t) = n /\ DOMAIN t = 1 .. n /\ n \in Nat
         /\ DOMAIN s = 1 .. Len(s) /\ Len(s) \in Nat
         /\ \A i \in 1 .. n : t[i] = s[i] /\ i \in DOMAIN s
<1>1. Len(s) \in Nat /\ DOMAIN s = 1 .. Len(s)
  BY LenProperties
<1> DEFINE t == SubSeq(s, 1, n)
<1>2. \A i \in 1 .. n : s[i] \in Message
  BY <1>1, ElementOfSeq
<1>3. t \in Seq(Message) /\ Len(t) = n /\ \A i \in 1 .. n : t[i] = s[i]
  <2>1. t = [i \in 1 .. n |-> s[i]]
    BY <1>1
  <2>2. QED
    BY <1>1, <1>2, <2>1
<1>4. QED
  BY <1>1, <1>3, LenProperties

LEMMA UnheardFacts ==
  ASSUME TypeOK, NEW l \in Life
  PROVE  /\ Unheard(l) \in 0 .. Len(net.up)
         /\ Len(net.up) \in Nat /\ Len(queue[l].flight) \in Nat
         /\ Unheard(l) = IF Len(net.up) < Len(queue[l].flight) THEN 0
                         ELSE Len(net.up) - Len(queue[l].flight)
<1>1. Len(net.up) \in Nat /\ Len(queue[l].flight) \in Nat
  <2>1. net.up \in Seq(Message) /\ queue[l].flight \in Seq(Message)
    BY Typed DEF NetType, QueueType
  <2>2. Len(net.up) \in Nat
    BY <2>1, LenProperties
  <2>3. Len(queue[l].flight) \in Nat
    BY <2>1, LenProperties
  <2>4. QED
    BY <2>2, <2>3
<1> DEFINE n == Len(net.up)
           k == Len(queue[l].flight)
<1>2. n \in Nat /\ k \in Nat /\ Unheard(l) = IF n < k THEN 0 ELSE n - k
  BY <1>1 DEF Unheard
<1> HIDE DEF n, k
<1>3. Unheard(l) \in 0 .. n
  BY <1>2
<1>4. QED
  BY <1>2, <1>3 DEF n, k

Sent(m) == In(m, net.up) \/ \E l \in Life : In(m, queue[l].flight) \/ In(m, queue[l].buffer)
NextSent(m) ==
  In(m, net'.up) \/ \E l \in Life : In(m, queue'[l].flight) \/ In(m, queue'[l].buffer)

NothingSent == \A k : NextSent(k) => Sent(k)
OneSent(m) == \A k : NextSent(k) => Sent(k) \/ k = m

LEMMA QuietSent ==
  ASSUME queue' = queue, net'.up = net.up
  PROVE  NothingSent
BY DEF NothingSent, NextSent, Sent

\* A message that is put into the queue, or fails.
LEMMA SendsSent ==
  ASSUME TypeOK, NEW c \in ClientType, NEW m \in Message, Sends(c, Client', m), Client' \in ClientType,
         c.queue = queue, net'.up = net.up
  PROVE  OneSent(m)
<1>1. CASE c.hub.connected
  <2> DEFINE l == c.hub.life
             b == queue[l].buffer
             q == [queue[l] EXCEPT !.buffer = Append(b, m)]
  <2>1. l \in Life /\ queue[l] \in QueueType /\ b \in Seq(Message)
    BY Typed, ClientFields DEF HubType, QueueType
  <2>2. queue' = QueueWith(l, q)
    BY <1>1 DEF Sends, Enqueued, Client, QueueWith
  <2>3. q.flight = queue[l].flight /\ q.buffer = Append(b, m)
    BY <2>1 DEF QueueType
  <2> HIDE DEF q, l, b
  <2>4. queue'[l] = q /\ \A k \in Life : k # l => queue'[k] = queue[k]
    BY <2>1, <2>2, Typed DEF QueueWith
  <2>5. \A k : In(k, q.buffer) => In(k, b) \/ k = m
    BY <2>1, <2>3, InAppend
  <2>6. QED
    BY <2>1, <2>3, <2>4, <2>5 DEF OneSent, NextSent, Sent, b
<1>2. CASE ~c.hub.connected
  <2>1. queue' = queue
    BY <1>2 DEF Sends, Client
  <2>2. QED
    BY <2>1 DEF OneSent, NextSent, Sent
<1>3. QED
  BY <1>1, <1>2

\* What the send loop does to its queue.
LEMMA LoopQueues ==
  ASSUME TypeOK, NEW l \in Life, LoopGoesOn(l)
  PROVE  /\ queue[l].flight = <<>> /\ queue'[l].buffer = <<>>
         /\ queue'[l].executing <=> queue[l].executing
         /\ \A k \in Life : k # l => queue'[k] = queue[k]
         /\ \/ ~queue[l].executing /\ queue'[l].flight = <<>> /\ net' = net
            \/ /\ queue[l].executing /\ net'.up = net.up \o queue[l].buffer
               /\ queue'[l].flight = IF setup.posts THEN queue[l].buffer ELSE <<>>
<1> DEFINE q == queue[l]
           t == [q EXCEPT !.buffer = <<>>]
           e == [q EXCEPT !.buffer = <<>>, !.ended = TRUE]
           f == [q EXCEPT !.buffer = <<>>, !.flight = q.buffer]
<1>1. \/ ~q.executing /\ net' = net /\ queue' = QueueWith(l, e)
      \/ q.executing /\ setup.posts /\ net'.up = net.up \o q.buffer /\ queue' = QueueWith(l, f)
      \/ q.executing /\ ~setup.posts /\ net'.up = net.up \o q.buffer /\ queue' = QueueWith(l, t)
  BY LoopFacts
<1>2. q \in QueueType /\ q.flight = <<>>
  BY Typed, LoopFacts
<1>3. t.buffer = <<>> /\ t.flight = <<>> /\ (t.executing <=> q.executing)
  BY <1>2 DEF QueueType
<1>4. e.buffer = <<>> /\ e.flight = <<>> /\ (e.executing <=> q.executing)
  BY <1>2 DEF QueueType
<1>5. f.buffer = <<>> /\ f.flight = q.buffer /\ (f.executing <=> q.executing)
  BY <1>2 DEF QueueType
<1> HIDE DEF t, e, f
<1>6. ASSUME NEW r, queue' = QueueWith(l, r)
      PROVE  queue'[l] = r /\ \A k \in Life : k # l => queue'[k] = queue[k]
  BY <1>6, Typed DEF QueueWith
<1>7. CASE ~q.executing /\ net' = net /\ queue' = QueueWith(l, e)
  <2>1. queue'[l] = e /\ \A k \in Life : k # l => queue'[k] = queue[k]
    BY <1>6, <1>7
  <2>2. QED
    BY <1>2, <1>4, <1>7, <2>1
<1>8. CASE q.executing /\ setup.posts /\ net'.up = net.up \o q.buffer /\ queue' = QueueWith(l, f)
  <2>1. queue'[l] = f /\ \A k \in Life : k # l => queue'[k] = queue[k]
    BY <1>6, <1>8
  <2>2. QED
    BY <1>2, <1>5, <1>8, <2>1
<1>9. CASE q.executing /\ ~setup.posts /\ net'.up = net.up \o q.buffer /\ queue' = QueueWith(l, t)
  <2>1. queue'[l] = t /\ \A k \in Life : k # l => queue'[k] = queue[k]
    BY <1>6, <1>9
  <2>2. QED
    BY <1>2, <1>3, <1>9, <2>1
<1>10. QED
  BY <1>1, <1>7, <1>8, <1>9

\* Messages that go from the buffer to the network and into flight.
LEMMA LoopSent ==
  ASSUME TypeOK, NEW l \in Life, LoopGoesOn(l)
  PROVE  NothingSent
<1> DEFINE b == queue[l].buffer
<1>1. b \in Seq(Message) /\ net.up \in Seq(Message)
  BY Typed DEF QueueType, NetType
<1>2. /\ queue'[l].buffer = <<>> /\ (queue'[l].flight = <<>> \/ queue'[l].flight = b)
      /\ \A k \in Life : k # l => queue'[k] = queue[k]
      /\ net'.up = net.up \/ net'.up = net.up \o b
  BY LoopQueues
<1>3. \A k : In(k, net'.up) => In(k, net.up) \/ In(k, b)
  BY <1>1, <1>2, InConcat
<1>4. \A k : ~In(k, <<>>)
  BY DEF In
<1>5. QED
  BY <1>2, <1>3, <1>4 DEF NothingSent, NextSent, Sent

LEMMA PostSent ==
  ASSUME TypeOK, NEW l \in Life, NEW ok \in BOOLEAN, NEW arrived \in BOOLEAN, PostEnds(l, ok, arrived)
  PROVE  NothingSent
<1>1. queue' = QueueWith(l, [queue[l] EXCEPT !.flight = <<>>])
      /\ net'.up = IF arrived \/ l # hub.life THEN net.up ELSE SubSeq(net.up, 1, Unheard(l))
  BY PostFacts
<1>2. queue'[l].flight = <<>> /\ queue'[l].buffer = queue[l].buffer
      /\ \A k \in Life : k # l => queue'[k] = queue[k]
  BY <1>1, Typed DEF QueueWith, QueueType
<1>3. \A k : In(k, net'.up) => In(k, net.up)
  <2>1. net.up \in Seq(Message) /\ Unheard(l) \in 0 .. Len(net.up)
    BY Typed, UnheardFacts DEF NetType
  <2>2. \A k : In(k, SubSeq(net.up, 1, Unheard(l))) => In(k, net.up)
    BY <2>1, PrefixFacts DEF In
  <2>3. QED
    BY <1>1, <2>2
<1>4. \A k : ~In(k, <<>>)
  BY DEF In
<1>5. QED
  BY <1>2, <1>3, <1>4 DEF NothingSent, NextSent, Sent

LEMMA CloseSent ==
  ASSUME TypeOK, Close
  PROVE  NothingSent
<1> DEFINE l == hub.life
<1>1. l \in Life /\ queue' = QueueWith(l, [queue[l] EXCEPT !.executing = FALSE]) /\ net'.up = <<>>
  BY Typed, CloseFacts DEF HubType
<1>2. \A k \in Life : queue'[k].flight = queue[k].flight /\ queue'[k].buffer = queue[k].buffer
  BY <1>1, Typed DEF QueueWith, QueueType
<1>3. \A k : ~In(k, <<>>)
  BY DEF In
<1>4. QED
  BY <1>1, <1>2, <1>3 DEF NothingSent, NextSent, Sent

\* UpWell after a step, said of any message.
NextUpWell(m) ==
  \/ /\ m.type \in {"Invocation", "StreamItem", "Completion", "CancelInvocation"}
     /\ m.of \in Calls /\ call'[m.of].made /\ m.id = call'[m.of].id
     /\ m.type = "Invocation" => m.n = 0
     /\ m.type \in {"StreamItem", "Completion"} => m.n \in 1 .. Upload(m.of)
     /\ m.type = "CancelInvocation" => KindOf(m.of) = "stream"
  \/ /\ m.type = "Reply" /\ m.of \in Asks /\ m.n \in DOMAIN Replies
     /\ setup.expects /\ ask'[m.of].pc = "done"

LEMMA UpWellKept ==
  ASSUME CallsPersist, AsksPersist, NEW m, UpWell(m)
  PROVE  NextUpWell(m)
BY DEF CallsPersist, AsksPersist, UpWell, NextUpWell

UpInv ==
  /\ \A l \in Life : AllUp(queue[l].flight) /\ AllUp(queue[l].buffer)
  /\ AllUp(net.up)

LEMMA SentUp ==
  ASSUME UpInv, NEW m, Sent(m)
  PROVE  UpWell(m)
BY DEF UpInv, Sent, In, AllUp

LEMMA AllUpNext ==
  ASSUME setup' = setup, \A m : NextSent(m) => NextUpWell(m)
  PROVE  UpInv'
<1>1. Life' = Life
  BY DEF Life
<1>2. \A i \in DOMAIN net'.up : NextUpWell(net'.up[i])
  BY DEF NextSent, In
<1>3. \A l \in Life : /\ \A i \in DOMAIN queue'[l].flight : NextUpWell(queue'[l].flight[i])
                      /\ \A i \in DOMAIN queue'[l].buffer : NextUpWell(queue'[l].buffer[i])
  BY DEF NextSent, In
<1>4. ASSUME NEW m, NextUpWell(m) PROVE UpWell(m)'
  BY <1>4, Fixed DEF UpWell, NextUpWell
<1>5. AllUp(net.up)'
  BY <1>2, <1>4 DEF AllUp
<1>6. \A l \in Life : AllUp(queue[l].flight)' /\ AllUp(queue[l].buffer)'
  BY <1>3, <1>4 DEF AllUp
<1>7. QED
  BY <1>1, <1>5, <1>6 DEF UpInv

-----------------------------------------------------------------------------
(* The wire                                                                *)

\* t is what is left of s, in its order.
Picks(s, t, f) ==
  /\ f \in [DOMAIN t -> DOMAIN s] /\ DOMAIN s \subseteq Nat /\ DOMAIN t \subseteq Nat
  /\ \A i \in DOMAIN t : t[i] = s[f[i]]
  /\ \A i, j \in DOMAIN t : i < j => f[i] < f[j]
Grows(s, t, m) ==
  /\ Len(s) \in Nat /\ DOMAIN s = 1 .. Len(s) /\ DOMAIN t = 1 .. Len(s) + 1
  /\ t[Len(s) + 1] = m /\ \A i \in 1 .. Len(s) : t[i] = s[i]

WireShrinks == \E f : Picks(Wire, Wire', f)
WireGrows(m) == Wire' = Wire \/ Grows(Wire, Wire', m)

LEMMA SameShrinks ==
  ASSUME TypeOK, Wire' = Wire
  PROVE  WireShrinks
<1>1. DOMAIN Wire = 1 .. Len(Wire) /\ Len(Wire) \in Nat
  BY WireFacts, LenProperties
<1>2. Picks(Wire, Wire', [i \in DOMAIN Wire |-> i])
  BY <1>1 DEF Picks
<1>3. QED
  BY <1>2 DEF WireShrinks

LEMMA EmptyShrinks ==
  ASSUME TypeOK, Wire' = <<>>
  PROVE  WireShrinks
<1>1. DOMAIN Wire = 1 .. Len(Wire) /\ Len(Wire) \in Nat
  BY WireFacts, LenProperties
<1>2. Picks(Wire, Wire', [i \in {} |-> 1])
  BY <1>1 DEF Picks
<1>3. QED
  BY <1>2 DEF WireShrinks

LEMMA QuietWire ==
  ASSUME hub'.connected <=> hub.connected, hub'.life = hub.life, net'.up = net.up,
         queue'[hub.life].buffer = queue[hub.life].buffer
  PROVE  Wire' = Wire
BY DEF Wire

\* The client's connection is the same after a batch settled.
LEMMA SettlesSameLife ==
  ASSUME NEW c \in ClientType, Client' \in ClientType, NEW batch, NEW ok \in BOOLEAN,
         Settles(c, Client', batch, ok)
  PROVE  (hub'.connected <=> c.hub.connected) /\ hub'.life = c.hub.life
BY CallbacksAfterSettles DEF Client

LEMMA LoopWire ==
  ASSUME TypeOK, QueueInv, NEW l \in Life, LoopGoesOn(l)
  PROVE  /\ Wire' = Wire /\ WireShrinks /\ QueueInv'
         /\ (hub'.connected <=> hub.connected) /\ hub'.life = hub.life
         /\ queue[l].executing => hub.connected /\ l = hub.life
<1> DEFINE b == queue[l].buffer
<1>0. (hub'.connected <=> hub.connected) /\ hub'.life = hub.life
  <2>1. Client' \in ClientType
        /\ \E batch \in {b, <<>>}, ok \in BOOLEAN : Settles(Client, Client', batch, ok)
    BY LoopFacts
  <2>2. QED
    BY <2>1, Typed, SettlesSameLife
<1>1. hub.life \in Life /\ b \in Seq(Message) /\ net.up \in Seq(Message) /\ l \in Nat /\ hub.life \in Nat
      /\ hub.connected \in BOOLEAN
  <2>1. hub.life \in Life /\ hub.connected \in BOOLEAN
    BY Typed DEF HubType
  <2>2. b \in Seq(Message)
    BY Typed DEF QueueType
  <2>3. net.up \in Seq(Message)
    BY Typed DEF NetType
  <2>4. l \in Nat /\ hub.life \in Nat
    BY <2>1, Bounds DEF Life
  <2>5. QED
    BY <2>1, <2>2, <2>3, <2>4
<1>2. /\ queue'[l].buffer = <<>> /\ (queue'[l].executing <=> queue[l].executing)
      /\ \A k \in Life : k # l => queue'[k] = queue[k]
      /\ \/ ~queue[l].executing /\ net' = net
         \/ queue[l].executing /\ net'.up = net.up \o b
  BY LoopQueues
<1>3. l <= hub.life /\ (queue[l].executing <=> hub.connected /\ l = hub.life)
  <2>1. ASSUME l > hub.life PROVE FALSE
    <3>1. queue[l].executing /\ queue[l].buffer = <<>>
      BY <2>1 DEF QueueInv, Unused
    <3>2. QED
      BY <3>1 DEF LoopGoesOn, CanLoop
  <2>2. l <= hub.life
    BY <1>1, <2>1
  <2>3. QED
    BY <2>2 DEF QueueInv
<1>3a. /\ Life' = Life
      /\ \A k \in Life : /\ k > hub.life => queue'[k] = Unused
                         /\ k <= hub.life =>
                              (queue'[k].executing <=> hub.connected /\ k = hub.life)
  <2>1. ASSUME NEW k \in Life
        PROVE  /\ k > hub.life => queue'[k] = Unused
               /\ k <= hub.life => (queue'[k].executing <=> hub.connected /\ k = hub.life)
    <3>1. CASE k = l
      BY <1>1, <1>2, <1>3, <3>1
    <3>2. CASE k # l
      BY <1>2, <3>2 DEF QueueInv
    <3>3. QED
      BY <3>1, <3>2
  <2>2. QED
    BY <2>1 DEF Life
<1>4. CASE ~queue[l].executing /\ net' = net
  <2>1. Wire' = Wire
    <3>1. CASE ~hub.connected
      BY <1>0, <3>1 DEF Wire
    <3>2. CASE hub.connected
      <4>1. queue'[hub.life] = queue[hub.life]
        BY <1>1, <1>2, <1>3, <1>4, <3>2
      <4>2. QED
        BY <1>0, <1>4, <4>1, QuietWire
    <3>3. QED
      BY <3>1, <3>2
  <2>2. QueueInv'
    BY <1>0, <1>4, <1>3a DEF QueueInv
  <2>3. QED
    BY <1>0, <1>3, <2>1, <2>2, SameShrinks
<1>5. CASE queue[l].executing /\ net'.up = net.up \o b
  <2>1. hub.connected /\ l = hub.life
    BY <1>3, <1>5
  <2>2. Wire' = net'.up \o <<>>
    BY <1>0, <1>2, <2>1 DEF Wire
  <2>3. net'.up \in Seq(Message)
    BY <1>1, <1>5, ConcatProperties
  <2>4. Wire' = net.up \o b
    BY <1>5, <2>2, <2>3, ConcatEmptySeq
  <2>5. Wire' = Wire
    BY <2>1, <2>4 DEF Wire
  <2>6. QueueInv'
    BY <1>0, <1>3a, <2>1 DEF QueueInv
  <2>7. QED
    BY <1>0, <1>3, <2>5, <2>6, SameShrinks
<1>6. QED
  BY <1>2, <1>4, <1>5

\* A message that is put into the queue comes last.
LEMMA SendsWire ==
  ASSUME TypeOK, QueueInv, NEW c \in ClientType, NEW m \in Message, Sends(c, Client', m),
         Client' \in ClientType, c.queue = queue, net'.up = net.up,
         hub.connected \/ net'.down = net.down,
         c.hub.connected <=> hub.connected, c.hub.life = hub.life
  PROVE  WireGrows(m) /\ QueueInv'
<1> DEFINE l == hub.life
           b == queue[l].buffer
           up == net.up
           q == [queue[l] EXCEPT !.buffer = Append(b, m)]
<1>1. l \in Life /\ l \in Nat /\ queue[l] \in QueueType /\ b \in Seq(Message) /\ up \in Seq(Message)
  BY Typed, Bounds DEF HubType, QueueType, NetType, Life
<1>1a. ASSUME NEW i \in Life, NEW r, queue' = QueueWith(i, r)
       PROVE  queue'[i] = r /\ \A k \in Life : k # i => queue'[k] = queue[k]
  BY <1>1a, Typed DEF QueueWith
<1>2. CASE hub.connected
  <2>1. (hub'.connected <=> hub.connected) /\ hub'.life = l
    BY <1>2, SettlesSameLife DEF Sends
  <2>2. queue' = QueueWith(l, q)
    BY <1>2 DEF Sends, Enqueued, Client, QueueWith
  <2>3. (q.executing <=> queue[l].executing) /\ q.buffer = Append(b, m)
    BY <1>1 DEF QueueType
  <2> HIDE DEF q, l, b
  <2>4. queue'[l] = q /\ \A k \in Life : k # l => queue'[k] = queue[k]
    BY <1>1, <1>1a, <2>2
  <2>5. QueueInv'
    <3>1. Life' = Life
      BY DEF Life
    <3>2. ASSUME NEW k \in Life
          PROVE  /\ k > l => queue'[k] = Unused
                 /\ k <= l => (queue'[k].executing <=> hub.connected /\ k = l)
      <4>1. CASE k = l
        BY <1>1, <2>3, <2>4, <4>1 DEF QueueInv, l
      <4>2. CASE k # l
        BY <2>4, <4>2 DEF QueueInv, l
      <4>3. QED
        BY <4>1, <4>2
    <3>3. QED
      BY <1>2, <2>1, <3>1, <3>2 DEF QueueInv
  <2>6. Wire' = up \o Append(b, m) /\ Wire = up \o b
    BY <1>2, <2>1, <2>3, <2>4 DEF Wire, l, b
  <2>7. Grows(up \o b, up \o Append(b, m), m)
    <3> DEFINE n == Len(up)
               k == Len(b)
               s == up \o b
               a == Append(b, m)
               t == up \o a
    <3>1. a \in Seq(Message) /\ DOMAIN a = 1 .. k + 1 /\ Len(a) = k + 1 /\ a[k + 1] = m
          /\ \A i \in 1 .. k : a[i] = b[i]
      BY <1>1, AppendFacts
    <3> HIDE DEF a
    <3>2. /\ n \in Nat /\ k \in Nat /\ DOMAIN s = 1 .. n + k /\ Len(s) = n + k
          /\ \A i \in 1 .. n : s[i] = up[i]
          /\ \A i \in 1 .. k : s[n + i] = b[i]
      BY <1>1, ConcatFacts
    <3>3. /\ DOMAIN t = 1 .. n + Len(a)
          /\ \A i \in 1 .. n : t[i] = up[i]
          /\ \A i \in 1 .. Len(a) : t[n + i] = a[i]
      <4>1. up \in Seq(Message) /\ a \in Seq(Message)
        BY <1>1, <3>1
      <4>2. QED
        BY <4>1, ConcatFacts
    <3> HIDE DEF n, k, s, t
    <3>4. t[n + k + 1] = m
      BY <3>1, <3>2, <3>3
    <3>5. ASSUME NEW i \in 1 .. n + k PROVE t[i] = s[i]
      <4>1. CASE i <= n
        BY <3>2, <3>3, <4>1
      <4>2. CASE ~(i <= n)
        <5>1. i - n \in 1 .. k /\ n + (i - n) = i
          BY <3>2, <4>2
        <5>2. s[i] = b[i - n]
          BY <3>2, <5>1
        <5>3. t[i] = a[i - n] /\ a[i - n] = b[i - n]
          BY <3>1, <3>2, <3>3, <5>1
        <5>4. QED
          BY <5>2, <5>3
      <4>3. QED
        BY <4>1, <4>2
    <3>6. Grows(s, t, m)
      <4>1. Len(s) \in Nat /\ DOMAIN s = 1 .. Len(s) /\ DOMAIN t = 1 .. Len(s) + 1
        BY <3>1, <3>2, <3>3
      <4>2. t[Len(s) + 1] = m /\ \A i \in 1 .. Len(s) : t[i] = s[i]
        BY <3>2, <3>4, <3>5
      <4>3. QED
        BY <4>1, <4>2 DEF Grows
    <3>7. QED
      BY <3>6 DEF s, t, a
  <2>8. QED
    BY <2>5, <2>6, <2>7 DEF WireGrows
<1>3. CASE ~hub.connected
  <2>1. (hub'.connected <=> hub.connected) /\ hub'.life = l /\ queue' = queue
    BY <1>3, SettlesSameLife DEF Sends, Client
  <2>2. Wire' = Wire
    BY <2>1, QuietWire
  <2>3. QueueInv'
    BY <1>3, <2>1 DEF QueueInv, Life
  <2>4. QED
    BY <2>2, <2>3 DEF WireGrows
<1>4. QED
  BY <1>2, <1>3

\* What is left of the wire when the last messages of the network are lost.
Cuts(up, b, n, f) ==
  LET s == up \o b   t == SubSeq(up, 1, n) \o b
  IN /\ Picks(s, t, f)
     /\ \A j \in DOMAIN s : j <= n \/ j > Len(up) => \E k \in DOMAIN t : f[k] = j
     /\ \A k \in DOMAIN t : f[k] <= n \/ f[k] > Len(up)

LEMMA CutFacts ==
  ASSUME NEW up \in Seq(Message), NEW b \in Seq(Message), NEW n \in 0 .. Len(up)
  PROVE  \E f : Cuts(up, b, n, f)
<1> DEFINE v == SubSeq(up, 1, n)
           s == up \o b
           t == v \o b
           k == Len(b)
           N == Len(up)
<1>1. v \in Seq(Message) /\ Len(v) = n /\ n \in Nat /\ N \in Nat /\ n <= N
      /\ \A i \in 1 .. n : v[i] = up[i]
  BY PrefixFacts
<1> HIDE DEF v
<1>2. /\ k \in Nat /\ DOMAIN s = 1 .. N + k
      /\ \A i \in 1 .. N : s[i] = up[i]
      /\ \A i \in 1 .. k : s[N + i] = b[i]
  BY ConcatMessages
<1> HIDE DEF s, k, N
<1>3. /\ DOMAIN t = 1 .. n + k
      /\ \A i \in 1 .. n : t[i] = v[i]
      /\ \A i \in 1 .. k : t[n + i] = b[i]
  <2>1. v \in Seq(Message) /\ Len(v) = n
    BY <1>1
  <2>2. QED
    BY <2>1, ConcatMessages DEF k
<1> HIDE DEF t
<1> DEFINE f == [i \in 1 .. n + k |-> IF i <= n THEN i ELSE i + (N - n)]
<1>4. f \in [DOMAIN t -> DOMAIN s]
  BY <1>1, <1>2, <1>3
<1>5. ASSUME NEW i \in DOMAIN t PROVE t[i] = s[f[i]]
  <2>1. CASE i <= n
    BY <1>1, <1>2, <1>3, <2>1
  <2>2. CASE ~(i <= n)
    <3>1. i - n \in 1 .. k /\ n + (i - n) = i /\ f[i] = N + (i - n)
      BY <1>1, <1>2, <1>3, <2>2
    <3>2. t[i] = b[i - n] /\ s[f[i]] = b[i - n]
      BY <1>2, <1>3, <3>1
    <3>3. QED
      BY <3>2
  <2>3. QED
    BY <2>1, <2>2
<1>6. \A i, j \in DOMAIN t : i < j => f[i] < f[j]
  BY <1>1, <1>2, <1>3
<1>7. Picks(s, t, f)
  <2>1. DOMAIN s \subseteq Nat /\ DOMAIN t \subseteq Nat
    BY <1>1, <1>2, <1>3
  <2>2. QED
    BY <1>4, <1>5, <1>6, <2>1 DEF Picks
<1>8. ASSUME NEW j \in DOMAIN s, j <= n \/ j > N PROVE \E i \in DOMAIN t : f[i] = j
  <2>1. CASE j <= n
    <3>1. j \in 1 .. n + k /\ f[j] = j
      BY <1>1, <1>2, <2>1
    <3>2. QED
      BY <1>3, <3>1
  <2>2. CASE j > N
    <3>1. j - (N - n) \in 1 .. n + k /\ ~(j - (N - n) <= n) /\ (j - (N - n)) + (N - n) = j
      BY <1>1, <1>2, <2>2
    <3>2. QED
      BY <1>3, <3>1
  <2>3. QED
    BY <1>8, <2>1, <2>2
<1>9. \A i \in DOMAIN t : f[i] <= n \/ f[i] > N
  BY <1>1, <1>2, <1>3
<1> HIDE DEF f
<1>10. QED
  BY <1>7, <1>8, <1>9 DEF Cuts, s, t, v, N

\* A post that fails takes back what was the last of the network.
LEMMA PostWire ==
  ASSUME TypeOK, QueueInv, NEW l \in Life, NEW ok \in BOOLEAN, NEW arrived \in BOOLEAN,
         PostEnds(l, ok, arrived)
  PROVE  WireShrinks /\ QueueInv'
<1> DEFINE b == queue[hub.life].buffer
           up == net.up
           n == Unheard(l)
           v == SubSeq(up, 1, n)
<1>1. hub.life \in Life /\ b \in Seq(Message) /\ up \in Seq(Message) /\ n \in 0 .. Len(up)
  BY Typed, UnheardFacts DEF HubType, QueueType, NetType
<1>2. (hub'.connected <=> hub.connected) /\ hub'.life = hub.life
  <2>1. Client' \in ClientType /\ Settles(Client, Client', queue[l].flight, ok)
    BY PostFacts
  <2>2. QED
    BY <2>1, Typed, SettlesSameLife
<1>3. queue' = QueueWith(l, [queue[l] EXCEPT !.flight = <<>>])
      /\ net'.down = net.down /\ net'.up = IF arrived \/ l # hub.life THEN up ELSE v
  BY PostFacts
<1>4. /\ \A k \in Life : queue'[k].buffer = queue[k].buffer
                         /\ (queue'[k].executing <=> queue[k].executing)
      /\ \A k \in Life : k # l => queue'[k] = queue[k]
  BY <1>3, Typed DEF QueueWith, QueueType
<1>5. queue[l].flight # <<>>
  BY PostFacts
<1>6. QueueInv'
  <2>1. ~(l > hub.life)
    BY <1>5 DEF QueueInv, Unused
  <2>2. ~hub.connected => net'.up = <<>> /\ net'.down = <<>>
    <3>1. ASSUME ~hub.connected, net'.up = v PROVE net'.up = <<>>
      <4>1. up = <<>>
        BY <3>1 DEF QueueInv
      <4>2. n = 0
        BY <1>1, <4>1
      <4>3. QED
        BY <3>1, <4>1, <4>2
    <3>2. QED
      BY <1>3, <3>1 DEF QueueInv
  <2>3. Life' = Life
    BY DEF Life
  <2>4. QED
    BY <1>2, <1>4, <2>1, <2>2, <2>3 DEF QueueInv
<1>7. CASE net'.up = up
  BY <1>1, <1>2, <1>4, <1>6, <1>7, QuietWire, SameShrinks
<1>8. CASE hub.connected /\ net'.up = v
  <2>1. Wire = up \o b /\ Wire' = v \o b
    BY <1>1, <1>2, <1>4, <1>8 DEF Wire
  <2> HIDE DEF n, b, up
  <2>2. \E f : Picks(up \o b, v \o b, f)
    BY <1>1, CutFacts DEF Cuts
  <2> HIDE DEF v
  <2>3. QED
    BY <1>6, <2>1, <2>2 DEF WireShrinks
<1>9. CASE ~hub.connected
  BY <1>2, <1>6, <1>9, SameShrinks DEF Wire
<1>10. QED
  BY <1>3, <1>7, <1>8, <1>9

LEMMA CloseWire ==
  ASSUME TypeOK, QueueInv, Close
  PROVE  Wire' = <<>> /\ WireShrinks /\ QueueInv'
<1> DEFINE l == hub.life
           q == [queue[l] EXCEPT !.executing = FALSE]
<1>1. /\ hub.connected /\ l \in Life /\ l \in Nat /\ hub' = [hub EXCEPT !.connected = FALSE, !.callbacks = {}]
      /\ queue' = QueueWith(l, q)
      /\ net'.up = <<>> /\ net'.down = <<>>
  BY Typed, Bounds, CloseFacts DEF HubType, Life
<1>2. ~hub'.connected /\ hub'.life = l
  BY <1>1, Typed DEF HubType
<1>3. ~q.executing
  BY <1>1, Typed DEF QueueType
<1> HIDE DEF q
<1>4. queue'[l] = q /\ \A k \in Life : k # l => queue'[k] = queue[k]
  BY <1>1, Typed DEF QueueWith
<1>5. Life' = Life
  BY DEF Life
<1>6. QueueInv'
  BY <1>1, <1>2, <1>3, <1>4, <1>5 DEF QueueInv
<1>7. Wire' = <<>>
  BY <1>2 DEF Wire
<1>8. QED
  BY <1>6, <1>7, EmptyShrinks

LEMMA ReopenWire ==
  ASSUME TypeOK, QueueInv, Reopen
  PROVE  Wire' = <<>> /\ WireShrinks /\ QueueInv'
<1> DEFINE l == hub.life
<1>1. /\ ~hub.connected /\ l \in Life /\ l < MaxLives /\ UNCHANGED <<queue, net>>
      /\ hub' = [hub EXCEPT !.connected = TRUE, !.life = l + 1]
  BY Typed, ReopenFacts DEF HubType
<1>2. l \in Nat /\ MaxLives \in Nat /\ l + 1 \in Life
  BY <1>1, Bounds DEF Life
<1>3. hub'.connected /\ hub'.life = l + 1
  BY <1>1, Typed DEF HubType
<1>4. Life' = Life /\ \A k \in Life : k \in Nat
  BY Bounds DEF Life
<1>5. queue[l + 1] = Unused /\ net.up = <<>>
  BY <1>1, <1>2 DEF QueueInv
<1>6. Unused.executing /\ Unused.buffer = <<>>
  BY DEF Unused
<1>7. ASSUME NEW k \in Life
      PROVE  /\ k > l + 1 => queue[k] = Unused
             /\ k <= l + 1 => (queue[k].executing <=> k = l + 1)
  <2>1. CASE k > l + 1
    BY <1>2, <1>4, <2>1 DEF QueueInv
  <2>2. CASE k = l + 1
    BY <1>2, <1>5, <1>6, <2>2
  <2>3. CASE k <= l
    BY <1>1, <1>2, <1>4, <2>3 DEF QueueInv
  <2>4. QED
    BY <1>2, <1>4, <2>1, <2>2, <2>3
<1>8. QueueInv'
  BY <1>1, <1>3, <1>4, <1>7 DEF QueueInv
<1>9. Wire' = <<>> \o <<>>
  BY <1>1, <1>3, <1>5, <1>6 DEF Wire
<1>10. Wire' = <<>>
  BY <1>9
<1>11. QED
  BY <1>8, <1>10, EmptyShrinks

\* The server takes the first.
LEMMA ReceivesWire ==
  ASSUME TypeOK, QueueInv, hub.connected, net.up # <<>>, UNCHANGED <<hub, queue>>,
         net'.up = Tail(net.up)
  PROVE  /\ QueueInv'
         /\ 1 \in DOMAIN Wire /\ Wire[1] = Head(net.up)
         /\ \A i \in DOMAIN Wire' : i + 1 \in DOMAIN Wire /\ Wire'[i] = Wire[i + 1] /\ i + 1 > 1
         /\ DOMAIN Wire = 1 .. Len(Wire) /\ Len(Wire) \in Nat \ {0}
         /\ DOMAIN Wire' = 1 .. Len(Wire) - 1
<1> DEFINE up == net.up
           b == queue[hub.life].buffer
           s == up \o b
           t == Tail(up) \o b
           n == Len(up)
           k == Len(b)
<1>1. up \in Seq(Message) /\ b \in Seq(Message) /\ up # <<>>
  BY WireFacts
<1>2. Wire = s /\ Wire' = t
  BY DEF Wire
<1>3. /\ Tail(up) \in Seq(Message) /\ n \in Nat \ {0} /\ Len(Tail(up)) = n - 1
      /\ \A i \in 1 .. n - 1 : Tail(up)[i] = up[i + 1]
  BY <1>1, HeadFacts
<1> HIDE DEF up, b
<1>4. /\ k \in Nat /\ DOMAIN s = 1 .. n + k /\ Len(s) = n + k
      /\ \A i \in 1 .. n : s[i] = up[i]
      /\ \A i \in 1 .. k : s[n + i] = b[i]
  <2>1. up \in Seq(Message) /\ b \in Seq(Message)
    BY <1>1
  <2>2. QED
    BY <2>1, ConcatMessages
<1>5. /\ DOMAIN t = 1 .. (n - 1) + k
      /\ \A i \in 1 .. n - 1 : t[i] = Tail(up)[i]
      /\ \A i \in 1 .. k : t[(n - 1) + i] = b[i]
  <2> DEFINE u == Tail(up)
  <2>1. u \in Seq(Message) /\ b \in Seq(Message) /\ Len(u) = n - 1
    BY <1>1, <1>3
  <2> HIDE DEF u
  <2>2. QED
    BY <2>1, ConcatMessages DEF t, u, k
<1> HIDE DEF s, t, n, k
<1>6. ASSUME NEW i \in DOMAIN t PROVE i + 1 \in DOMAIN s /\ t[i] = s[i + 1] /\ i + 1 > 1
  <2>1. CASE i <= n - 1
    BY <1>3, <1>4, <1>5, <2>1
  <2>2. CASE ~(i <= n - 1)
    <3>0. i \in 1 .. (n - 1) + k /\ n \in Nat /\ k \in Nat
      BY <1>3, <1>4, <1>5
    <3>1. \E j \in 1 .. k : (n - 1) + j = i /\ n + j = i + 1
      <4>1. i - (n - 1) \in 1 .. k
        BY <2>2, <3>0
      <4>2. (n - 1) + (i - (n - 1)) = i /\ n + (i - (n - 1)) = i + 1
        BY <3>0
      <4>3. QED
        BY <4>1, <4>2
    <3>2. t[i] = s[i + 1]
      BY <1>4, <1>5, <3>1
    <3>3. QED
      BY <1>3, <1>4, <1>5, <3>2
  <2>3. QED
    BY <2>1, <2>2
<1>7. 1 \in DOMAIN Wire /\ Wire[1] = Head(net.up)
  BY WireHead
<1>8. QueueInv'
  BY DEF QueueInv, Life
<1>9. DOMAIN s = 1 .. Len(s) /\ Len(s) \in Nat \ {0} /\ DOMAIN t = 1 .. Len(s) - 1
  BY <1>3, <1>4, <1>5
<1>10. QED
  BY <1>2, <1>6, <1>7, <1>8, <1>9

\* What the client may send: it was not sent before.
NewFor(m) ==
  /\ m \in Message /\ NextUpWell(m)
  /\ m.type = "Invocation" => m.of \in Calls /\ ~call[m.of].made
  /\ m.type = "Reply" => m.of \in Asks /\ ask[m.of].pc # "done"

\* The server takes nothing.
Calm ==
  /\ \A x \in Calls : server[x].state = "no" => server'[x].state = "no"
  /\ \A a \in Asks : ask'[a].replies = ask[a].replies

UpStep ==
  \/ ServerReceives /\ NothingSent
  \/ Calm /\ NothingSent /\ WireShrinks
  \/ Calm /\ \E m : NewFor(m) /\ OneSent(m) /\ WireGrows(m)

LEMMA CalmFacts ==
  ASSUME TypeOK, AsksInv, MessagesInv, [Next]_vars, ~ServerReceives, NextSteps
  PROVE  Calm
<1>1. \A x \in Calls : server[x].state = "no" => server'[x].state = "no"
  <2>1. ASSUME NEW y \in Calls, ServerYields(y), NEW x \in Calls, server[x].state = "no"
        PROVE  server'[x].state = "no"
    <3>1. server[y].state = "running"
          /\ server' = ServerWith(y, [server[y] EXCEPT !.items = server[y].items + 1])
      BY <2>1, YieldsFacts
    <3>2. QED
      BY <2>1, <3>1, Typed DEF ServerWith
  <2>2. ASSUME NEW y \in Calls, NEW ok \in BOOLEAN, ServerCompletes(y, ok),
               NEW x \in Calls, server[x].state = "no"
        PROVE  server'[x].state = "no"
    <3>1. server[y].state = "running" /\ server' = ServerWith(y, Done(y))
      BY <2>2, CompletesFacts
    <3>2. QED
      BY <2>2, <3>1, Typed DEF ServerWith
  <2>3. QED
    BY <2>1, <2>2 DEF NextSteps
<1>2. \A a \in Asks : ask'[a].replies = ask[a].replies
  <2>1. ASSUME NEW a \in Asks, NEW r \in AskType, Ran(a, r), r.replies = ask[a].replies, NEW b \in Asks
        PROVE  ask'[b].replies = ask[b].replies
    <3>1. ask' = [ask EXCEPT ![a] = Rest(r)]
      BY <2>1, RanFacts
    <3>2. Rest(r).replies = ask[a].replies
      BY <2>1 DEF Rest, AskType
    <3>3. QED
      BY <3>1, <3>2, Typed
  <2>2. ASSUME NEW a \in Asks, NEW how, HandlerEnds(a, how), NEW b \in Asks
        PROVE  ask'[b].replies = ask[b].replies
    BY <2>1, <2>2, HandlerFacts
  <2>3. ASSUME Receive, NEW b \in Asks PROVE ask'[b].replies = ask[b].replies
    <3> DEFINE m == Head(net.down)
    <3>1. DownWell(m) /\ \/ m.type = "Completion" /\ Complete(m)
                         \/ m.type = "StreamItem" /\ StreamItem(m)
                         \/ m.type = "Invocation" /\ Invoke(m.of)
      BY <2>3, ReceiveFacts
    <3> HIDE DEF m
    <3>2. CASE m.type = "Completion" /\ Complete(m)
      BY <3>2 DEF Complete
    <3>3. CASE m.type = "StreamItem" /\ StreamItem(m)
      BY <3>3 DEF StreamItem
    <3>4. CASE m.type = "Invocation" /\ Invoke(m.of)
      <4>1. m.of \in Asks
        BY <3>1, <3>4 DEF DownWell
      <4>2. QED
        BY <2>1, <3>4, <4>1, InvokeFacts
    <3>5. QED
      BY <3>1, <3>2, <3>3, <3>4
  <2>4. ASSUME Close, NEW b \in Asks PROVE ask'[b].replies = ask[b].replies
    <3>1. ask'[b] = IF ask[b].pc = "coming" THEN [ask[b] EXCEPT !.pc = "done"] ELSE ask[b]
      BY <2>4, CloseFacts
    <3>2. ask[b] \in AskType
      BY Typed
    <3>3. QED
      BY <3>1, <3>2 DEF AskType
  <2>5. ASSUME NEW a \in Asks, ServerAsks(a), NEW b \in Asks PROVE ask'[b].replies = ask[b].replies
    <3>1. ask' = [ask EXCEPT ![a] = [ask[a] EXCEPT !.pc = "coming"]]
      BY <2>5, AsksFacts
    <3>2. QED
      BY <3>1, Typed DEF AskType
  <2>6. QED
    BY <2>2, <2>3, <2>4, <2>5 DEF NextSteps
<1>3. QED
  BY <1>1, <1>2 DEF Calm

LEMMA SendsUp ==
  ASSUME TypeOK, QueueInv, Calm, NEW c \in ClientType, NEW m \in Message, Sends(c, Client', m),
         Client' \in ClientType, c.queue = queue, net'.up = net.up,
         hub.connected \/ net'.down = net.down,
         c.hub.connected <=> hub.connected, c.hub.life = hub.life, NewFor(m)
  PROVE  UpStep /\ QueueInv'
BY SendsSent, SendsWire DEF UpStep

LEMMA QuietUp ==
  ASSUME TypeOK, QueueInv, Calm, queue' = queue, hub'.connected <=> hub.connected, hub'.life = hub.life,
         net'.up = net.up, hub.connected \/ net'.down = net.down
  PROVE  UpStep /\ QueueInv'
<1>1. QueueInv'
  BY DEF QueueInv, Life
<1>2. Wire' = Wire
  BY QuietWire
<1>3. QED
  BY <1>1, <1>2, SameShrinks, QuietSent DEF UpStep

LEMMA RanUp ==
  ASSUME TypeOK, QueueInv, Calm, NEW a \in Asks, NEW r \in AskType, Ran(a, r), ask[a].pc # "done",
         net'.up = net.up, hub.connected \/ net'.down = net.down
  PROVE  UpStep /\ QueueInv'
<1>1. /\ ask' = [ask EXCEPT ![a] = Rest(r)] /\ Client' \in ClientType
      /\ IF r.left = 0 /\ setup.expects
         THEN Reply(a, r) \in Message /\ Sends(Client, Client', Reply(a, r))
         ELSE Client' = Client
  BY RanFacts
<1>2. CASE r.left = 0 /\ setup.expects
  <2> DEFINE m == Reply(a, r)
  <2>0. a \in Nat
    BY Bounds, SetupFacts, Typed DEF Asks
  <2>1. m \in Message /\ m.type = "Reply" /\ m.of = a /\ m.n \in DOMAIN Replies
    BY <2>0, VerdictFacts
  <2>2. Sends(Client, Client', m)
    BY <1>1, <1>2
  <2>3. ask'[a].pc = "done"
    BY <1>1, <1>2, Typed DEF Rest, AskType
  <2> HIDE DEF m
  <2>4. NewFor(m)
    BY <1>2, <2>1, <2>3 DEF NewFor, NextUpWell
  <2>5. QED
    BY <1>1, <2>1, <2>2, <2>4, Typed, SendsUp
<1>3. CASE ~(r.left = 0 /\ setup.expects)
  <2>1. hub' = hub /\ queue' = queue
    BY <1>1, <1>3, Typed DEF Client
  <2>2. QED
    BY <2>1, QuietUp
<1>4. QED
  BY <1>2, <1>3

LEMMA ChainUp ==
  ASSUME TypeOK, ClientInv(Client), QueueInv, PageInv(Client), CallsPersist, Calm,
         NEW x \in Calls, ChainGoesOn(x)
  PROVE  UpStep /\ QueueInv'
<1> DEFINE c == ChainStep(x)
           m == UploadItem(x, call[x].chained + 1)
<1>1. /\ CanChain(x) /\ net' = net /\ c \in ClientType /\ m \in Message
      /\ Client' \in ClientType /\ Sends(c, Client', m)
  BY ChainFacts
<1>2. c.hub = hub /\ c.queue = queue
  BY DEF ChainStep, CallWith
<1>3. call[x].made
  BY <1>1, ReadyIsMade DEF ClientInv, CanChain
<1>4. m.of = x /\ m.id = call[x].id /\ m.n = call[x].chained + 1
      /\ m.type \in {"StreamItem", "Completion"}
  BY DEF UploadItem
<1> HIDE DEF c, m
<1>5. call[x].chained + 1 \in 1 .. Upload(x)
  <2>1. call[x].chained \in Nat /\ call[x].pushed \in Nat /\ Upload(x) \in Nat
    BY Typed, SetupFacts DEF CallType
  <2>2. call[x].chained < call[x].pushed /\ call[x].pushed <= Upload(x)
    BY <1>1, Typed DEF CanChain, PageInv
  <2>3. QED
    BY <2>1, <2>2
<1>6. NewFor(m)
  BY <1>1, <1>3, <1>4, <1>5 DEF NewFor, NextUpWell, CallsPersist
<1>7. QED
  BY <1>1, <1>2, <1>6, SendsUp

LEMMA CancelUp ==
  ASSUME TypeOK, ClientInv(Client), QueueInv, PageInv(Client), CallsPersist, Calm,
         NEW x \in Calls, CancelGoesOn(x)
  PROVE  UpStep /\ QueueInv'
<1> DEFINE c == CancelStep(x)
           m == CancelInvocation(x)
<1>1. /\ CanCancel(x) /\ net' = net /\ c \in ClientType /\ m \in Message
      /\ Client' \in ClientType /\ Sends(c, Client', m)
  BY CancelFacts
<1>2. c.hub = hub /\ c.queue = queue
  BY DEF CancelStep, CallWith
<1>3. call[x].made /\ KindOf(x) = "stream"
  BY <1>1, ReadyIsMade, Typed DEF ClientInv, CanCancel, PageInv
<1>4. m.of = x /\ m.id = call[x].id /\ m.type = "CancelInvocation"
  BY DEF CancelInvocation
<1> HIDE DEF c, m
<1>5. NewFor(m)
  BY <1>1, <1>3, <1>4 DEF NewFor, NextUpWell, CallsPersist
<1>6. QED
  BY <1>1, <1>2, <1>5, SendsUp

LEMMA CallUp ==
  ASSUME TypeOK, ClientInv(Client), QueueInv, Calm, NEW x \in Calls, Call(x)
  PROVE  UpStep /\ QueueInv'
<1> DEFINE c == CallStep(x)
           m == CallMessage(x)
<1>1. /\ ~call[x].made /\ net' = net /\ c \in ClientType /\ m \in Message
      /\ Client' \in ClientType /\ Sends(c, Client', m)
  BY CallFacts DEF ClientInv
<1>2. (c.hub.connected <=> hub.connected) /\ c.hub.life = hub.life /\ c.queue = queue
  BY Typed DEF CallStep, HubType
<1>3. c.call[x].made /\ c.call[x].id = m.id
  BY Typed DEF CallStep, CallMessage, CallType
<1>4. m.of = x /\ m.n = 0 /\ m.type = "Invocation"
  BY DEF CallMessage
<1> HIDE DEF c, m
<1>5. Keeps(c.call[x], Client'.call[x])
  BY <1>1, SendsKeeps
<1>6. call'[x].made /\ call'[x].id = m.id
  BY <1>3, <1>5 DEF Keeps, Client
<1>7. NewFor(m)
  BY <1>1, <1>4, <1>6 DEF NewFor, NextUpWell
<1>8. QED
  BY <1>1, <1>2, <1>7, SendsUp

LEMMA NextUp ==
  ASSUME TypeOK, ClientInv(Client), ServerInv, MessagesInv, AsksInv, QueueInv, PageInv(Client),
         CallsPersist, [Next]_vars
  PROVE  UpStep /\ QueueInv'
<1>0. IdsInv(Client) /\ NextSteps /\ (~ServerReceives => Calm)
  BY StepsSplit, CalmFacts DEF ClientInv
<1>1. CASE ServerReceives
  <2>1. /\ hub.connected /\ net.up # <<>> /\ UNCHANGED <<hub, queue>> /\ net'.up = Tail(net.up)
    BY <1>0, <1>1, ServerReceivesFacts
  <2>2. QueueInv'
    BY <2>1, ReceivesWire
  <2>3. net.up \in Seq(Message)
    BY Typed DEF NetType
  <2>4. NothingSent
    BY <2>1, <2>3, InTail DEF NothingSent, NextSent, Sent
  <2>5. QED
    BY <1>1, <2>2, <2>4 DEF UpStep
<1> SUFFICES ASSUME ~ServerReceives PROVE UpStep /\ QueueInv'
  BY <1>1
<1>2. Calm
  BY <1>0
<1>3. ASSUME NEW l \in Life, LoopGoesOn(l) PROVE UpStep /\ QueueInv'
  BY <1>2, <1>3, LoopSent, LoopWire DEF UpStep
<1>4. ASSUME NEW x \in Calls, ChainGoesOn(x) \/ CancelGoesOn(x) \/ Call(x) PROVE UpStep /\ QueueInv'
  BY <1>2, <1>4, ChainUp, CancelUp, CallUp
<1>5. ASSUME NEW x \in Calls, Push(x) \/ Dispose(x) PROVE UpStep /\ QueueInv'
  <2>1. queue' = queue /\ net' = net /\ (hub'.connected <=> hub.connected) /\ hub'.life = hub.life
    BY <1>5, PushFacts, DisposeFacts, Typed DEF HubType
  <2>2. QED
    BY <1>2, <2>1, QuietUp
<1>6. ASSUME On \/ Off PROVE UpStep /\ QueueInv'
  <2>1. queue' = queue /\ net' = net /\ (hub'.connected <=> hub.connected) /\ hub'.life = hub.life
    BY <1>6, MethodsFacts, Typed DEF HubType
  <2>2. QED
    BY <1>2, <2>1, QuietUp
<1>7. ASSUME NEW a \in Asks, NEW how, HandlerEnds(a, how) PROVE UpStep /\ QueueInv'
  <2>1. ask[a].pc = "running" /\ net' = net /\ \E r \in AskType : Ran(a, r)
    BY <1>7, HandlerFacts
  <2>2. QED
    BY <1>2, <2>1, RanUp
<1>8. ASSUME Receive PROVE UpStep /\ QueueInv'
  <2> DEFINE m == Head(net.down)
  <2>1. /\ DownWell(m) /\ hub.connected /\ net'.up = net.up
        /\ \/ m.type = "Completion" /\ Complete(m)
           \/ m.type = "StreamItem" /\ StreamItem(m) /\ m.n \in 1 .. MaxItems
           \/ m.type = "Invocation" /\ Invoke(m.of)
    BY <1>8, ReceiveFacts
  <2> HIDE DEF m
  <2>2. ASSUME queue' = queue, (hub'.connected <=> hub.connected) /\ hub'.life = hub.life
        PROVE UpStep /\ QueueInv'
    BY <1>2, <2>1, <2>2, QuietUp
  <2>3. CASE m.type = "Completion" /\ Complete(m)
    <3>1. hub' = [hub EXCEPT !.callbacks = {p \in hub.callbacks : p[1] # m.id}] /\ queue' = queue
      BY <2>3 DEF Complete
    <3>2. (hub'.connected <=> hub.connected) /\ hub'.life = hub.life
      BY <3>1, Typed DEF HubType
    <3>3. QED
      BY <2>2, <3>1, <3>2
  <2>4. CASE m.type = "StreamItem" /\ StreamItem(m)
    BY <2>2, <2>4 DEF StreamItem
  <2>5. CASE m.type = "Invocation" /\ Invoke(m.of)
    <3>1. m.of \in Asks /\ ask[m.of].pc = "coming"
      BY <2>1, <2>5 DEF DownWell
    <3>2. \E r \in AskType : Ran(m.of, r)
      BY <2>5, <3>1, InvokeFacts
    <3>3. QED
      BY <1>2, <2>1, <3>1, <3>2, RanUp
  <2>6. QED
    BY <2>1, <2>3, <2>4, <2>5
<1>9. ASSUME NEW l \in Life, NEW ok \in BOOLEAN, NEW arrived \in BOOLEAN, PostEnds(l, ok, arrived)
      PROVE  UpStep /\ QueueInv'
  BY <1>2, <1>9, PostSent, PostWire DEF UpStep
<1>10. ASSUME Close PROVE UpStep /\ QueueInv'
  BY <1>2, <1>10, CloseSent, CloseWire DEF UpStep
<1>11. ASSUME Reopen PROVE UpStep /\ QueueInv'
  <2>1. NothingSent
    BY <1>11, ReopenFacts, QuietSent
  <2>2. QED
    BY <1>2, <1>11, <2>1, ReopenWire DEF UpStep
<1>12. ASSUME NEW x \in Calls, NEW ok \in BOOLEAN, ServerCompletes(x, ok) PROVE UpStep /\ QueueInv'
  BY <1>2, <1>12, CompletesFacts, QuietUp
<1>13. ASSUME NEW x \in Calls, ServerYields(x) PROVE UpStep /\ QueueInv'
  BY <1>2, <1>13, YieldsFacts, QuietUp
<1>14. ASSUME NEW a \in Asks, ServerAsks(a) PROVE UpStep /\ QueueInv'
  BY <1>2, <1>14, AsksFacts, QuietUp
<1>15. ASSUME UNCHANGED vars PROVE UpStep /\ QueueInv'
  BY <1>2, <1>15, QuietUp DEF vars
<1>16. QED
  BY <1>3, <1>4, <1>5, <1>6, <1>7, <1>8, <1>9, <1>10, <1>11, <1>12, <1>13, <1>14, <1>15
  DEF Next, GoesOn, Page, Handlers, Posts, Server, Completes, Yields

-----------------------------------------------------------------------------
(* What is sent once stays sent once                                       *)

\* Every message on the wire is one that was sent.
LEMMA WireUp ==
  ASSUME TypeOK, MessagesInv, NEW i \in DOMAIN Wire
  PROVE  UpWell(Wire[i]) /\ Wire[i] \in Message
<1> DEFINE up == net.up
           b == queue[hub.life].buffer
<1>1. /\ up \in Seq(Message) /\ b \in Seq(Message) /\ hub.life \in Life
      /\ hub.connected => Wire = up \o b
      /\ ~hub.connected => Wire = <<>>
  BY WireFacts
<1>2. AllUp(up) /\ AllUp(b)
  BY <1>1 DEF MessagesInv
<1>3. hub.connected
  BY <1>1
<1>4. In(Wire[i], up \o b)
  BY <1>1, <1>3 DEF In
<1> HIDE DEF up, b
<1>5. In(Wire[i], up) \/ In(Wire[i], b)
  BY <1>1, <1>4, InConcat
<1>6. UpWell(Wire[i])
  BY <1>2, <1>5 DEF In, AllUp
<1>7. Wire[i] \in Message
  BY WireFacts, ElementOfSeq, LenProperties
<1>8. QED
  BY <1>6, <1>7

\* Only the beginning of a call and the reply to an ask are looked at.
Once(s) ==
  \A i, j \in DOMAIN s : s[i].type \in {"Invocation", "Reply"} /\ s[j].type = s[i].type
                         /\ s[j].of = s[i].of => i = j
NextOnce(s) ==
  /\ \A i \in DOMAIN s : s[i].type = "Invocation" => server'[s[i].of].state = "no"
  /\ Once(s)
  /\ \A i \in DOMAIN s : s[i].type = "Reply" => ask'[s[i].of].replies = <<>>

LEMMA OnceShrinks ==
  ASSUME TypeOK, MessagesInv, OnceInv, Calm, WireShrinks
  PROVE  NextOnce(Wire')
<1>1. PICK f : Picks(Wire, Wire', f)
  BY DEF WireShrinks
<1> DEFINE s == Wire
           t == Wire'
<1>2. ASSUME NEW i \in DOMAIN t
      PROVE  /\ f[i] \in DOMAIN s /\ t[i] = s[f[i]]
             /\ t[i].type = "Invocation" => t[i].of \in Calls
             /\ t[i].type = "Reply" => t[i].of \in Asks
  <2>1. f[i] \in DOMAIN s /\ t[i] = s[f[i]]
    BY <1>1 DEF Picks
  <2>2. QED
    BY <2>1, WireUp DEF UpWell
<1>3. Once(t)
  <2>1. ASSUME NEW i \in DOMAIN t, NEW j \in DOMAIN t, f[i] = f[j] PROVE i = j
    <3>1. DOMAIN s = 1 .. Len(s) /\ Len(s) \in Nat
      BY WireFacts, LenProperties
    <3>2. f[i] \in Nat
      BY <1>2, <3>1
    <3>3. ~(i < j) /\ ~(j < i)
      BY <1>1, <2>1, <3>2 DEF Picks
    <3>4. i \in Nat /\ j \in Nat
      BY <1>1 DEF Picks
    <3>5. QED
      BY <3>3, <3>4
  <2>2. QED
    BY <1>2, <2>1 DEF Once, OnceInv
<1>4. QED
  BY <1>2, <1>3 DEF NextOnce, OnceInv, Calm

LEMMA OnceGrows ==
  ASSUME TypeOK, ClientInv(Client), ServerInv, MessagesInv, RepliesInv, OnceInv, Calm,
         NEW m, NewFor(m), WireGrows(m)
  PROVE  NextOnce(Wire')
<1> DEFINE s == Wire
           t == Wire'
<1>1. ASSUME NEW i \in DOMAIN s
      PROVE  /\ s[i].type = "Invocation" => s[i].of \in Calls /\ call[s[i].of].made
             /\ s[i].type = "Reply" => s[i].of \in Asks /\ ask[s[i].of].pc = "done"
  BY <1>1, WireUp DEF UpWell
<1>2. CASE t = s
  BY <1>1, <1>2 DEF NextOnce, Once, OnceInv, Calm
<1>3. CASE Grows(s, t, m)
  <2> DEFINE n == Len(s) + 1
  <2>1. /\ DOMAIN t = DOMAIN s \cup {n} /\ n \notin DOMAIN s /\ t[n] = m
        /\ \A i \in DOMAIN s : t[i] = s[i]
    BY <1>3 DEF Grows
  <2> HIDE DEF n
  <2>2. m.type = "Invocation" => m.of \in Calls /\ ~call[m.of].made /\ server[m.of].state = "no"
    BY DEF NewFor, ServerInv
  <2>3. m.type = "Reply" => m.of \in Asks /\ ask[m.of].pc # "done" /\ ask[m.of].replies = <<>>
    BY DEF NewFor, RepliesInv
  <2> HIDE DEF s, t
  <2>4. Once(s) /\ \A i \in DOMAIN s : /\ s[i].type = "Invocation" => server[s[i].of].state = "no"
                                       /\ s[i].type = "Reply" => ask[s[i].of].replies = <<>>
    BY DEF OnceInv, Once, s
  <2>5. Once(t)
    BY <1>1, <2>1, <2>2, <2>3, <2>4 DEF Once
  <2>6. ASSUME NEW i \in DOMAIN t
        PROVE  /\ t[i].type = "Invocation" => server'[t[i].of].state = "no"
               /\ t[i].type = "Reply" => ask'[t[i].of].replies = <<>>
    BY <1>1, <2>1, <2>2, <2>3, <2>4, <2>6 DEF Calm
  <2>7. QED
    BY <2>5, <2>6 DEF NextOnce, t
<1>4. QED
  BY <1>2, <1>3 DEF WireGrows

LEMMA OnceReceives ==
  ASSUME TypeOK, ClientInv(Client), ServerInv, MessagesInv, QueueInv, OnceInv, ServerReceives
  PROVE  NextOnce(Wire')
<1> DEFINE s == Wire
           t == Wire'
           m == Head(net.up)
           x == m.of
<1>1. /\ hub.connected /\ net.up # <<>> /\ UNCHANGED <<hub, queue>> /\ net'.up = Tail(net.up)
      /\ UpWell(m)
      /\ \/ m.type = "Invocation" /\ server' = ServerWith(x, Begun(x, m)) /\ ask' = ask
         \/ /\ m.type \in {"StreamItem", "Completion"} /\ server' = ServerWith(x, Hearing(x, m.n))
            /\ ask' = ask
         \/ /\ m.type = "CancelInvocation" /\ ask' = ask
            /\ server' = IF server[x].state = "running" THEN ServerWith(x, Done(x)) ELSE server
         \/ m.type = "Reply" /\ server' = server /\ ask' = [ask EXCEPT ![x] = Answered(x, m)]
  BY ServerReceivesFacts DEF ClientInv
<1>2. /\ 1 \in DOMAIN s /\ s[1] = m
      /\ \A i \in DOMAIN t : i + 1 \in DOMAIN s /\ t[i] = s[i + 1] /\ i + 1 > 1
      /\ DOMAIN s = 1 .. Len(s) /\ Len(s) \in Nat \ {0} /\ DOMAIN t = 1 .. Len(s) - 1
  BY <1>1, ReceivesWire
<1>3. Once(s) /\ \A i \in DOMAIN s : /\ s[i].type = "Invocation" => server[s[i].of].state = "no"
                                     /\ s[i].type = "Reply" => ask[s[i].of].replies = <<>>
  BY DEF OnceInv, Once
<1>4. \A i \in DOMAIN s : /\ s[i].type = "Invocation" => s[i].of \in Calls
                          /\ s[i].type = "Reply" => s[i].of \in Asks
  BY WireUp DEF UpWell
<1>5. ASSUME NEW y \in Calls, server[y].state = "no", ~(m.type = "Invocation" /\ x = y)
      PROVE  server'[y].state = "no"
  <2>1. CASE m.type = "Invocation" /\ server' = ServerWith(x, Begun(x, m))
    BY <1>5, <2>1, Typed DEF ServerWith
  <2>2. CASE m.type \in {"StreamItem", "Completion"} /\ server' = ServerWith(x, Hearing(x, m.n))
    <3>1. server[y] \in ServerType /\ (y = x => server'[y] = Hearing(y, m.n))
          /\ (y # x => server'[y] = server[y])
      BY <2>2, Typed DEF ServerWith
    <3>2. Hearing(y, m.n).state = server[y].state
      BY <3>1 DEF Hearing, ServerType
    <3>3. QED
      BY <1>5, <3>1, <3>2
  <2>3. CASE server[x].state = "running" /\ server' = ServerWith(x, Done(x))
    BY <1>5, <2>3, Typed DEF ServerWith
  <2>4. CASE server' = server
    BY <1>5, <2>4
  <2>5. QED
    BY <1>1, <2>1, <2>2, <2>3, <2>4
<1>6. ASSUME NEW a \in Asks, ask[a].replies = <<>>, ~(m.type = "Reply" /\ x = a)
      PROVE  ask'[a].replies = <<>>
  BY <1>1, <1>6, Typed
<1> HIDE DEF s, t, m
<1>7. ASSUME NEW i \in DOMAIN t
      PROVE  /\ i + 1 \in DOMAIN s /\ 1 \in DOMAIN s /\ t[i] = s[i + 1] /\ i + 1 # 1
  BY <1>2, <1>7
<1>8. ASSUME NEW i \in DOMAIN t
      PROVE  /\ t[i].type = "Invocation" => server'[t[i].of].state = "no"
             /\ t[i].type = "Reply" => ask'[t[i].of].replies = <<>>
  <2>1. t[i].type \in {"Invocation", "Reply"} => ~(m.type = t[i].type /\ x = t[i].of)
    BY <1>2, <1>3, <1>7 DEF Once
  <2>2. CASE t[i].type = "Invocation"
    <3>1. t[i].of \in Calls /\ server[t[i].of].state = "no" /\ ~(m.type = "Invocation" /\ x = t[i].of)
      BY <1>3, <1>4, <1>7, <2>1, <2>2
    <3>2. QED
      BY <1>5, <2>2, <3>1
  <2>3. CASE t[i].type = "Reply"
    <3>1. t[i].of \in Asks /\ ask[t[i].of].replies = <<>> /\ ~(m.type = "Reply" /\ x = t[i].of)
      BY <1>3, <1>4, <1>7, <2>1, <2>3
    <3>2. QED
      BY <1>6, <2>3, <3>1
  <2>4. QED
    BY <2>2, <2>3
<1>9. Once(t)
  <2>1. \A i, j \in DOMAIN t : i + 1 = j + 1 => i = j
    BY <1>2
  <2>2. QED
    BY <1>3, <1>7, <2>1 DEF Once
<1>10. QED
  BY <1>8, <1>9 DEF NextOnce, t

LEMMA NextOnceInv ==
  ASSUME TypeOK, ClientInv(Client), ServerInv, MessagesInv, AsksInv, RepliesInv, QueueInv, OnceInv,
         PageInv(Client), CallsPersist, [Next]_vars
  PROVE  OnceInv'
<1>1. NextOnce(Wire')
  BY NextUp, OnceReceives, OnceShrinks, OnceGrows DEF UpStep
<1>2. QED
  BY <1>1 DEF NextOnce, OnceInv, Once

LEMMA NextMessages ==
  ASSUME TypeOK, ClientInv(Client), ServerInv, MessagesInv, AsksInv, RepliesInv, QueueInv, OnceInv,
         PageInv(Client), TypeOK', CallsPersist, [Next]_vars
  PROVE  ServerInv' /\ MessagesInv' /\ AsksInv' /\ RepliesInv' /\ ServerGoesOn /\ AsksGoOn
<1>1. setup' = setup /\ Asks' = Asks
  BY StepsSplit, Fixed DEF NextSteps
<1>2. ServerGoesOn /\ ServerInv'
  BY NextServerInv
<1>3. AsksGoOn
  BY NextAsks
<1>4. AskedOnce(net'.down) /\ \A i \in DOMAIN net'.down : DownWell(net.down[i])'
  BY <1>2, <1>3, NextDown
<1>5. AsksInv'
  BY <1>1, <1>3, <1>4 DEF AsksInv, AsksGoOn, AskedOnce
<1>6. \A m : NextSent(m) => NextUpWell(m)
  <2>1. \A m : Sent(m) => NextUpWell(m)
    BY <1>3, SentUp, UpWellKept DEF UpInv, MessagesInv, AsksGoOn
  <2>2. NothingSent \/ \E m : NewFor(m) /\ OneSent(m)
    BY NextUp DEF UpStep
  <2>3. QED
    BY <2>1, <2>2 DEF NothingSent, OneSent, NewFor
<1>7. UpInv'
  BY <1>1, <1>6, AllUpNext
<1>8. MessagesInv'
  BY <1>4, <1>7 DEF UpInv, MessagesInv
<1>9. QED
  BY <1>2, <1>3, <1>5, <1>8 DEF AsksGoOn

-----------------------------------------------------------------------------
(* The inductive invariant                                                 *)

MessagesIndInv ==
  /\ TypeOK /\ ClientInv(Client) /\ ServerInv /\ MessagesInv /\ AsksInv
  /\ RepliesInv /\ QueueInv /\ OnceInv /\ PageInv(Client)

LEMMA InitMessages == Init => MessagesIndInv
<1> SUFFICES ASSUME Init PROVE MessagesIndInv
  OBVIOUS
<1>1. /\ hub.connected /\ hub.life = 1 /\ hub.nextId = 0 /\ hub.callbacks = {} /\ hub.methods = 1
      /\ hub = [connected |-> TRUE, life |-> 1, nextId |-> 0, callbacks |-> {}, methods |-> 1]
      /\ setup \in Setups /\ net = [up |-> <<>>, down |-> <<>>]
      /\ net.up = <<>> /\ net.down = <<>>
  BY DEF Init
<1> DEFINE fresh == [made |-> FALSE, id |-> 0, outcome |-> "pending", seen |-> <<>>, sent |-> FALSE,
                     chain |-> "waiting", pushed |-> 0, chained |-> 0, cancel |-> "no"]
           none == [state |-> "no", id |-> 0, items |-> 0, heard |-> <<>>]
           quiet == [pc |-> "no", left |-> 0, res |-> FALSE, threw |-> FALSE, several |-> FALSE,
                     replies |-> <<>>]
<1>2. call = [c \in Calls |-> fresh] /\ server = [c \in Calls |-> none]
      /\ ask = [a \in Asks |-> quiet] /\ queue = [l \in Life |-> Unused]
  BY DEF Init, Unused
<1>3. fresh \in CallType /\ none \in ServerType /\ quiet \in AskType /\ Unused \in QueueType
  <2>1. 0 \in Id
    BY <1>1, SetupFacts DEF Id, NoId
  <2>2. <<>> \in Seq(Notice) /\ <<>> \in Seq(Life \X Nat) /\ <<>> \in Seq(Message)
        /\ <<>> \in Seq({"result", "several", "threw", "none"})
    OBVIOUS
  <2>3. 0 \in 0 .. MaxItems /\ 0 \in 0 .. MaxMethods
    BY Bounds
  <2>4. QED
    BY <2>1, <2>2, <2>3 DEF CallType, ServerType, AskType, QueueType, Unused
<1>4. hub \in HubType /\ net \in NetType
  <2>1. 1 \in Life /\ 1 \in 0 .. MaxMethods /\ <<>> \in Seq(Message)
    BY Bounds DEF Life
  <2>2. QED
    BY <1>1, <2>1 DEF HubType, NetType
<1>5. /\ \A c \in Calls : call[c] = fresh /\ server[c] = none
      /\ \A a \in Asks : ask[a] = quiet
      /\ \A l \in Life : queue[l] = Unused
  BY <1>2
<1>6. ~fresh.made /\ Fresh(fresh) /\ fresh.pushed = 0 /\ fresh.cancel = "no"
      /\ none.state = "no" /\ none.items = 0 /\ none.heard = <<>>
      /\ quiet.pc = "no" /\ quiet.replies = <<>>
  BY DEF Fresh
<1> HIDE DEF fresh, none, quiet
<1>7. TypeOK
  <2>1. call \in [Calls -> CallType] /\ server \in [Calls -> ServerType]
        /\ ask \in [Asks -> AskType] /\ queue \in [Life -> QueueType]
    BY <1>2, <1>3
  <2>2. QED
    BY <1>1, <1>4, <2>1 DEF TypeOK, HubType, CallType, QueueType, NetType, ServerType, AskType
<1>8. ClientInv(Client)
  <2>1. Client.hub = hub /\ Client.call = call
    BY DEF Client
  <2>2. IdsInv(Client)
    <3>1. \A x \in Calls : 0 <= 2 * (x - 1)
      BY <1>1, SetupFacts
    <3>2. QED
      BY <1>1, <1>5, <1>6, <2>1, <3>1 DEF IdsInv
  <2>3. CallbacksInv(Client)
    BY <1>1, <1>5, <1>6, <2>1 DEF CallbacksInv, PendingCall
  <2>4. QED
    BY <1>1, <2>1, <2>2, <2>3 DEF ClientInv
<1>9. PageInv(Client)
  <2>1. \A x \in Calls : 0 <= Upload(x)
    BY <1>1, SetupFacts
  <2>2. QED
    BY <1>5, <1>6, <2>1 DEF PageInv, Client
<1>10. ServerInv /\ AsksInv /\ RepliesInv
  BY <1>1, <1>5, <1>6 DEF ServerInv, AsksInv, RepliesInv
<1>11. Unused.buffer = <<>> /\ Unused.flight = <<>> /\ Unused.executing
  BY DEF Unused
<1>12. MessagesInv
  BY <1>1, <1>5, <1>11 DEF MessagesInv, AllUp
<1>13. QueueInv
  <2>1. \A l \in Life : l <= 1 => l = 1
    BY Bounds DEF Life
  <2>2. QED
    BY <1>1, <1>5, <1>11, <2>1 DEF QueueInv
<1>14. OnceInv
  <2>1. Wire = <<>>
    <3>1. Wire = <<>> \o <<>>
      <4>1. 1 \in Life
        BY Bounds DEF Life
      <4>2. QED
        BY <1>1, <1>5, <1>11, <4>1 DEF Wire
    <3>2. QED
      BY <3>1
  <2>2. QED
    BY <2>1 DEF OnceInv
<1>15. QED
  BY <1>7, <1>8, <1>9, <1>10, <1>12, <1>13, <1>14 DEF MessagesIndInv

LEMMA NextMessagesInd ==
  MessagesIndInv /\ [Next]_vars =>
    /\ MessagesIndInv' /\ CallsPersist /\ ServerGoesOn /\ AsksGoOn /\ UpStep
    /\ NextSteps
<1> SUFFICES ASSUME MessagesIndInv, [Next]_vars
             PROVE  /\ MessagesIndInv' /\ CallsPersist /\ ServerGoesOn /\ AsksGoOn /\ UpStep
                    /\ NextSteps
  OBVIOUS
<1> USE DEF MessagesIndInv
<1>1. TypeOK'
  BY NextTypeOK DEF ClientInv
<1>2. ClientInv(Client')
  BY NextClientInv
<1>3. CallsPersist /\ PageInv(Client')
  BY NextPersists
<1>4. UpStep /\ QueueInv' /\ NextSteps
  BY <1>3, NextUp, StepsSplit
<1>5. OnceInv'
  BY <1>3, NextOnceInv
<1>6. ServerInv' /\ MessagesInv' /\ AsksInv' /\ RepliesInv' /\ ServerGoesOn /\ AsksGoOn
  BY <1>1, <1>3, NextMessages
<1>7. ClientInv(Client)' /\ PageInv(Client)'
  <2>1. Calls' = Calls /\ Id' = Id /\ \A x : KindOf(x)' = KindOf(x) /\ Upload(x)' = Upload(x)
    BY <1>4, Fixed DEF NextSteps
  <2>2. PageInv(Client)'
    BY <1>3, <2>1 DEF PageInv
  <2>3. IdsInv(Client)'
    BY <1>2, <2>1 DEF ClientInv, IdsInv, Fresh
  <2>4. CallbacksInv(Client)'
    BY <1>2, <2>1 DEF ClientInv, CallbacksInv, PendingCall, EndedIn, End, Completed, Failed
  <2>5. QED
    BY <1>2, <2>2, <2>3, <2>4 DEF ClientInv
<1>8. QED
  BY <1>1, <1>3, <1>4, <1>5, <1>6, <1>7

\* At any time every message in a queue of HubConnection, in its connection or at the
\* server is one of a call or an ask that is in the state that goes with it.
THEOREM MessagesInvariant == Spec => []MessagesIndInv
<1>1. MessagesIndInv /\ [Next]_vars => MessagesIndInv'
  BY NextMessagesInd
<1>2. QED
  BY InitMessages, <1>1, PTL DEF Spec

\* TypeOK holds at any time: the fields of HubConnection, of the promises and subjects
\* of the calls, of TransportSendQueue and of the server stay within their types.
THEOREM MessagesTypeCorrect == Spec => []TypeOK
<1>1. MessagesIndInv => TypeOK
  BY DEF MessagesIndInv
<1>2. QED
  BY <1>1, MessagesInvariant, PTL

\* _callbacks of HubConnection holds an entry only for a call that was made under its
\* id, whose promise or observer was told nothing final: invoke and stream delete it
\* when the send fails, Completion when the answer comes, dispose when it is cancelled.
THEOREM CallbacksStayPending == Spec => []CallbacksArePending
<1>1. ASSUME MessagesIndInv PROVE CallbacksArePending
  <2>1. TypeOK /\ CallbacksInv(Client) /\ (~hub.connected => hub.callbacks = {}) /\ Client.hub = hub
        /\ Client.call = call
    BY <1>1 DEF MessagesIndInv, ClientInv, Client
  <2>2. hub.callbacks \subseteq Id \X Calls /\ \A x \in Calls : call[x].id \in Id
    BY <2>1, Typed DEF HubType, CallType
  <2>3. \A x \in Calls : Pending(x) <=> PendingCall(call[x], x)
    BY DEF Pending, PendingCall, Ended, EndedIn
  <2>4. \A x \in Calls, i \in Id :
          <<i, x>> \in hub.callbacks <=> i = call[x].id /\ Pending(x) /\ KindOf(x) # "send"
    BY <2>1, <2>3 DEF CallbacksInv
  <2> DEFINE S == {<<call[c].id, c>> : c \in {b \in Calls : Pending(b) /\ KindOf(b) # "send"}}
  <2>5. ASSUME NEW p \in hub.callbacks PROVE p \in S
    <3>1. PICK i \in Id : \E x \in Calls : p = <<i, x>>
      BY <2>2
    <3>2. PICK x \in Calls : p = <<i, x>>
      BY <3>1
    <3>3. i = call[x].id /\ Pending(x) /\ KindOf(x) # "send"
      BY <2>4, <3>2
    <3>4. QED
      BY <3>2, <3>3
  <2>6. ASSUME NEW x \in Calls, Pending(x), KindOf(x) # "send" PROVE <<call[x].id, x>> \in hub.callbacks
    BY <2>2, <2>4, <2>6
  <2>7. hub.callbacks = S
    BY <2>5, <2>6
  <2>8. QED
    BY <2>1, <2>7 DEF CallbacksArePending
<1>2. QED
  BY <1>1, MessagesInvariant, PTL

-----------------------------------------------------------------------------
(* What happens to a call                                                  *)

\* A step that answers no call.
Quiet(r, s, x) ==
  /\ r.made => s.made
  /\ ~s.made => s.seen = r.seen /\ s.outcome = r.outcome
  /\ r.cancel # "no" => s.cancel # "no"
  /\ s.seen = r.seen \/ s.seen = Append(r.seen, Failed)
  /\ \/ s.outcome = r.outcome
     \/ r.outcome = "pending" /\ s.outcome = "rejected"
     \/ r.outcome = "pending" /\ s.outcome = "resolved" /\ KindOf(x) = "send" /\ r.made

LEMMA SameQuiet ==
  ASSUME NEW r, NEW s, NEW x, r.made <=> s.made, s.seen = r.seen, s.outcome = r.outcome,
         r.cancel # "no" => s.cancel # "no"
  PROVE  Quiet(r, s, x)
BY DEF Quiet

\* After the call was changed, its send settles.
LEMMA SettlesQuiet ==
  ASSUME NEW c \in ClientType, NEW d \in ClientType, NEW batch, NEW ok \in BOOLEAN,
         Settles(c, d, batch, ok), BatchMade(c, batch), NEW x \in Calls
  PROVE  Quiet(c.call[x], d.call[x], x)
<1> DEFINE r == c.call[x]
           s == d.call[x]
<1>1. r \in CallType /\ s = AfterSend(r, x, batch, ok)
  BY ClientFields DEF Settles
<1>2. /\ s.made = r.made /\ s.cancel = r.cancel
      /\ s.outcome = IF ~Called(batch, x) \/ r.outcome # "pending" THEN r.outcome
                     ELSE IF KindOf(x) = "send" THEN (IF ok THEN "resolved" ELSE "rejected")
                     ELSE IF ok \/ KindOf(x) = "stream" THEN r.outcome ELSE "rejected"
      /\ s.seen = r.seen \/ (Called(batch, x) /\ s.seen = Append(r.seen, Failed))
  BY <1>1, AfterSendFacts
<1>3. Called(batch, x) => r.made
  BY MadeCalls
<1> HIDE DEF r, s
<1>4. QED
  BY <1>2, <1>3 DEF Quiet, r, s

LEMMA SendsQuiet ==
  ASSUME NEW c \in ClientType, NEW d \in ClientType, NEW m, Sends(c, d, m),
         m.type # "Reply" => m.of \in Calls /\ c.call[m.of].made, NEW x \in Calls
  PROVE  /\ Quiet(c.call[x], d.call[x], x)
         /\ d.call[x].outcome = c.call[x].outcome \/ d.call[x].outcome = "rejected"
<1> DEFINE ok == FALSE
<1>1. BatchMade(c, <<m>>) /\ BatchMade(c, <<>>)
  BY MessageMade
<1>2. Settles(c, d, <<>>, ok) \/ Settles(c, d, <<m>>, ok)
  BY DEF Sends
<1>3. ok \in BOOLEAN /\ ~ok
  OBVIOUS
<1> HIDE DEF ok
<1>4. Quiet(c.call[x], d.call[x], x)
  BY <1>1, <1>2, <1>3, SettlesQuiet
<1>5. ASSUME NEW batch, Settles(c, d, batch, ok)
      PROVE  d.call[x].outcome = c.call[x].outcome \/ d.call[x].outcome = "rejected"
  <2>1. c.call[x] \in CallType /\ d.call[x] = AfterSend(c.call[x], x, batch, ok)
    BY <1>5, ClientFields DEF Settles
  <2> DEFINE r == c.call[x]
             s == d.call[x]
  <2>2. s.outcome = IF ~Called(batch, x) \/ r.outcome # "pending" THEN r.outcome
                    ELSE IF KindOf(x) = "send" THEN (IF ok THEN "resolved" ELSE "rejected")
                    ELSE IF ok \/ KindOf(x) = "stream" THEN r.outcome ELSE "rejected"
    BY <1>3, <2>1, AfterSendFacts
  <2> HIDE DEF r, s
  <2>3. QED
    BY <1>3, <2>2 DEF r, s
<1>6. QED
  BY <1>2, <1>4, <1>5

\* A call changes, and then something is sent that is about it.
LEMMA ChangeQuiet ==
  ASSUME NEW r, NEW m, NEW s, NEW x, Quiet(m, s, x),
         m.seen = r.seen, m.outcome = r.outcome, r.made => m.made,
         r.cancel # "no" => m.cancel # "no",
         (m.made => r.made) \/ s.outcome = m.outcome \/ (m.outcome = "pending" /\ s.outcome = "rejected")
  PROVE  Quiet(r, s, x)
BY DEF Quiet

AllQuiet == \A x \in Calls : Quiet(call[x], call'[x], x)

LEMMA SameAllQuiet ==
  ASSUME call' = call
  PROVE  AllQuiet
BY SameQuiet DEF AllQuiet

LEMMA ChainQuiet ==
  ASSUME TypeOK, ClientInv(Client), NEW x \in Calls, ChainGoesOn(x)
  PROVE  AllQuiet
<1> DEFINE c == ChainStep(x)
           m == UploadItem(x, call[x].chained + 1)
<1>1. CanChain(x) /\ c \in ClientType /\ Client' \in ClientType /\ Sends(c, Client', m)
  BY ChainFacts
<1>2. \A y \in Calls : /\ (c.call[y].made <=> call[y].made) /\ c.call[y].seen = call[y].seen
                       /\ c.call[y].outcome = call[y].outcome /\ c.call[y].cancel = call[y].cancel
  BY Typed DEF ChainStep, CallWith, CallType
<1>3. m.of = x /\ call[x].made
  BY <1>1, ReadyIsMade DEF UploadItem, ClientInv, CanChain
<1> HIDE DEF c, m
<1>4. \A y \in Calls : Quiet(c.call[y], Client'.call[y], y)
  BY <1>1, <1>2, <1>3, SendsQuiet
<1>5. QED
  BY <1>2, <1>4, ChangeQuiet DEF AllQuiet, Client

LEMMA CancelQuiet ==
  ASSUME TypeOK, ClientInv(Client), NEW x \in Calls, CancelGoesOn(x)
  PROVE  AllQuiet
<1> DEFINE c == CancelStep(x)
           m == CancelInvocation(x)
<1>1. CanCancel(x) /\ c \in ClientType /\ Client' \in ClientType /\ Sends(c, Client', m)
  BY CancelFacts
<1>2. \A y \in Calls : /\ (c.call[y].made <=> call[y].made) /\ c.call[y].seen = call[y].seen
                       /\ c.call[y].outcome = call[y].outcome
                       /\ call[y].cancel # "no" => c.call[y].cancel # "no"
  BY Typed DEF CancelStep, CallWith, CallType
<1>3. m.of = x /\ call[x].made
  BY <1>1, ReadyIsMade DEF CancelInvocation, ClientInv, CanCancel
<1> HIDE DEF c, m
<1>4. \A y \in Calls : Quiet(c.call[y], Client'.call[y], y)
  BY <1>1, <1>2, <1>3, SendsQuiet
<1>5. QED
  BY <1>2, <1>4, ChangeQuiet DEF AllQuiet, Client

LEMMA CallQuiet ==
  ASSUME TypeOK, ClientInv(Client), NEW x \in Calls, Call(x)
  PROVE  AllQuiet
<1> DEFINE c == CallStep(x)
           m == CallMessage(x)
<1>1. ~call[x].made /\ c \in ClientType /\ Client' \in ClientType /\ Sends(c, Client', m)
  BY CallFacts DEF ClientInv
<1>2. /\ \A y \in Calls : /\ call[y].made => c.call[y].made
                          /\ c.call[y].made => call[y].made \/ y = x
                          /\ c.call[y].seen = call[y].seen
                          /\ c.call[y].outcome = call[y].outcome /\ c.call[y].cancel = call[y].cancel
      /\ c.call[x].made
  BY Typed DEF CallStep, CallType
<1>3. m.of = x /\ call[x].outcome = "pending"
  BY <1>1 DEF CallMessage, ClientInv, IdsInv, Fresh, Client
<1> HIDE DEF c, m
<1>4. \A y \in Calls : /\ Quiet(c.call[y], Client'.call[y], y)
                       /\ Client'.call[y].outcome = c.call[y].outcome
                          \/ Client'.call[y].outcome = "rejected"
  BY <1>1, <1>2, <1>3, SendsQuiet
<1>5. ASSUME NEW y \in Calls PROVE Quiet(call[y], Client'.call[y], y)
  <2>1. CASE y = x
    BY <1>2, <1>3, <1>4, <2>1, ChangeQuiet
  <2>2. CASE y # x
    BY <1>2, <1>4, <2>2, ChangeQuiet
  <2>3. QED
    BY <2>1, <2>2
<1>6. QED
  BY <1>5 DEF AllQuiet, Client

LEMMA RanQuiet ==
  ASSUME TypeOK, ClientInv(Client), NEW a \in Asks, NEW r \in AskType, Ran(a, r)
  PROVE  AllQuiet
<1>1. /\ Client' \in ClientType
      /\ IF r.left = 0 /\ setup.expects
         THEN Reply(a, r) \in Message /\ Sends(Client, Client', Reply(a, r))
         ELSE Client' = Client
  BY RanFacts
<1>2. CASE r.left = 0 /\ setup.expects
  <2> DEFINE m == Reply(a, r)
  <2>1. a \in Nat
    BY Bounds, SetupFacts, Typed DEF Asks
  <2>2. Sends(Client, Client', m) /\ m.type = "Reply"
    BY <1>1, <1>2, <2>1, VerdictFacts
  <2> HIDE DEF m
  <2>3. \A y \in Calls : Quiet(Client.call[y], Client'.call[y], y)
    BY <1>1, <2>2, Typed, SendsQuiet
  <2>4. QED
    BY <2>3 DEF AllQuiet, Client
<1>3. CASE ~(r.left = 0 /\ setup.expects)
  BY <1>1, <1>3, SameAllQuiet DEF Client
<1>4. QED
  BY <1>2, <1>3

\* A call is answered.
Answers(x, m) ==
  /\ hub.connected /\ m = net.down[1] /\ net'.down = Tail(net.down) /\ net.down # <<>>
  /\ DownWell(m) /\ m.of = x /\ server' = server
  /\ call[x].made /\ PendingCall(call[x], x) /\ KindOf(x) # "send" /\ m.id = call[x].id
  /\ \/ /\ m.type = "Completion" /\ call' = [call EXCEPT ![x] = AfterCompletion(call[x], x, m)]
     \/ /\ m.type = "StreamItem" /\ m.n \in 1 .. MaxItems
        /\ call' = [call EXCEPT ![x] = AfterItem(call[x], m)]

CallSteps == AllQuiet \/ \E x \in Calls, m \in Message : Answers(x, m)

LEMMA ReceiveSteps ==
  ASSUME TypeOK, ClientInv(Client), ServerInv, MessagesInv, Receive
  PROVE  CallSteps
<1> DEFINE m == Head(net.down)
<1>1. /\ hub.connected /\ net.down # <<>> /\ server' = server /\ net'.down = Tail(net.down)
      /\ m \in Message /\ m = net.down[1] /\ DownWell(m)
      /\ \/ m.type = "Completion" /\ Complete(m)
         \/ m.type = "StreamItem" /\ StreamItem(m) /\ m.n \in 1 .. MaxItems
         \/ m.type = "Invocation" /\ Invoke(m.of)
  BY ReceiveFacts
<1> HIDE DEF m
<1>2. ASSUME Client' = Client PROVE CallSteps
  BY <1>2, SameAllQuiet DEF Client, CallSteps
<1>3. ASSUME NEW x \in Calls, <<m.id, x>> \in hub.callbacks, m.type \in {"StreamItem", "Completion"}
      PROVE  /\ m.of = x /\ call[x].made /\ PendingCall(call[x], x) /\ KindOf(x) # "send"
             /\ m.id = call[x].id
  BY <1>1, <1>3, AnsweredCall, CallbackOwner
<1>4. CASE m.type = "Completion" /\ Complete(m)
  <2>1. ASSUME NEW x \in Calls, <<m.id, x>> \in hub.callbacks,
               call' = [call EXCEPT ![x] = AfterCompletion(call[x], x, m)]
        PROVE  CallSteps
    <3>1. Answers(x, m)
      BY <1>1, <1>3, <1>4, <2>1 DEF Answers
    <3>2. QED
      BY <1>1, <3>1 DEF CallSteps
  <2>2. QED
    BY <1>2, <1>4, <2>1, CompletionFacts
<1>5. CASE m.type = "StreamItem" /\ StreamItem(m) /\ m.n \in 1 .. MaxItems
  <2>1. ASSUME NEW x \in Calls, <<m.id, x>> \in hub.callbacks,
               call' = [call EXCEPT ![x] = AfterItem(call[x], m)]
        PROVE  CallSteps
    <3>1. Answers(x, m)
      BY <1>1, <1>3, <1>5, <2>1 DEF Answers
    <3>2. QED
      BY <1>1, <3>1 DEF CallSteps
  <2>2. QED
    BY <1>2, <1>5, <2>1, ItemFacts
<1>6. CASE m.type = "Invocation" /\ Invoke(m.of)
  <2>1. m.of \in Asks
    BY <1>1, <1>6 DEF DownWell
  <2>2. QED
    BY <1>6, <2>1, InvokeFacts, RanQuiet DEF CallSteps
<1>7. QED
  BY <1>1, <1>4, <1>5, <1>6

LEMMA NextCallSteps ==
  ASSUME TypeOK, ClientInv(Client), ServerInv, MessagesInv, AsksInv, [Next]_vars
  PROVE  CallSteps
<1>0. IdsInv(Client)
  BY DEF ClientInv
<1>1. ASSUME call' = call PROVE CallSteps
  BY <1>1, SameAllQuiet DEF CallSteps
<1>2. ASSUME NEW l \in Life, LoopGoesOn(l) PROVE CallSteps
  <2>1. BatchMade(Client, queue[l].buffer) /\ BatchMade(Client, <<>>)
    BY AllUpMade, Typed DEF MessagesInv, BatchMade
  <2>2. Client' \in ClientType
        /\ \E batch \in {queue[l].buffer, <<>>}, ok \in BOOLEAN : Settles(Client, Client', batch, ok)
    BY <1>2, LoopFacts
  <2>3. \A y \in Calls : Quiet(Client.call[y], Client'.call[y], y)
    BY <2>1, <2>2, Typed, SettlesQuiet
  <2>4. QED
    BY <2>3 DEF CallSteps, AllQuiet, Client
<1>3. ASSUME NEW x \in Calls, ChainGoesOn(x) \/ CancelGoesOn(x) \/ Call(x) PROVE CallSteps
  BY <1>3, ChainQuiet, CancelQuiet, CallQuiet DEF CallSteps
<1>4. ASSUME NEW x \in Calls, Push(x) PROVE CallSteps
  <2>1. call' = [call EXCEPT ![x].pushed = call[x].pushed + 1]
    BY <1>4 DEF Push
  <2>2. \A y \in Calls : /\ (call'[y].made <=> call[y].made) /\ call'[y].seen = call[y].seen
                         /\ call'[y].outcome = call[y].outcome /\ call'[y].cancel = call[y].cancel
    BY <2>1, Typed DEF CallType
  <2>3. QED
    BY <2>2, SameQuiet DEF CallSteps, AllQuiet
<1>5. ASSUME NEW x \in Calls, Dispose(x) PROVE CallSteps
  <2>1. call' = [call EXCEPT ![x] = [call[x] EXCEPT !.cancel = "wanted"]]
    BY <1>5, DisposeFacts
  <2>2. \A y \in Calls : /\ (call'[y].made <=> call[y].made) /\ call'[y].seen = call[y].seen
                         /\ call'[y].outcome = call[y].outcome
                         /\ call[y].cancel # "no" => call'[y].cancel # "no"
    BY <2>1, Typed DEF CallType
  <2>3. QED
    BY <2>2, SameQuiet DEF CallSteps, AllQuiet
<1>6. ASSUME NEW a \in Asks, NEW how, HandlerEnds(a, how) PROVE CallSteps
  BY <1>6, HandlerFacts, RanQuiet DEF CallSteps
<1>7. ASSUME NEW l \in Life, NEW ok \in BOOLEAN, NEW arrived \in BOOLEAN, PostEnds(l, ok, arrived)
      PROVE  CallSteps
  <2>1. BatchMade(Client, queue[l].flight)
    BY AllUpMade, Typed DEF MessagesInv
  <2>2. Client' \in ClientType /\ Settles(Client, Client', queue[l].flight, ok)
    BY <1>7, PostFacts
  <2>3. \A y \in Calls : Quiet(Client.call[y], Client'.call[y], y)
    BY <2>1, <2>2, Typed, SettlesQuiet
  <2>4. QED
    BY <2>3 DEF CallSteps, AllQuiet, Client
<1>8. ASSUME Close PROVE CallSteps
  <2>1. call' = [x \in Calls |-> IF x \in Told THEN AfterCancel(call[x], x) ELSE call[x]]
    BY <1>8, CloseFacts
  <2>2. ASSUME NEW x \in Calls PROVE Quiet(call[x], call'[x], x)
    <3>1. CASE x \notin Told
      BY <2>1, <3>1, SameQuiet
    <3>2. CASE x \in Told
      <4> DEFINE r == call[x]
                 s == call'[x]
      <4>1. r \in CallType /\ s = AfterCancel(r, x)
        BY <2>1, <3>2, Typed
      <4>2. r.made
        BY <3>2, CallbackOwner DEF Told
      <4>3. /\ s.made = r.made /\ s.cancel = r.cancel
            /\ s.seen = IF KindOf(x) = "stream" THEN Append(r.seen, Failed) ELSE r.seen
            /\ s.outcome = IF KindOf(x) = "stream" \/ r.outcome # "pending" THEN r.outcome
                           ELSE "rejected"
        BY <4>1, CancelSettles
      <4> HIDE DEF r, s
      <4>4. QED
        BY <4>2, <4>3 DEF Quiet, r, s
    <3>3. QED
      BY <3>1, <3>2
  <2>3. QED
    BY <2>2 DEF CallSteps, AllQuiet
<1>9. ASSUME On \/ Off \/ Reopen \/ UNCHANGED vars PROVE CallSteps
  BY <1>1, <1>9 DEF On, Off, Reopen, vars
<1>10. ASSUME ServerReceives PROVE CallSteps
  BY <1>0, <1>1, <1>10, ServerReceivesFacts
<1>11. ASSUME NEW x \in Calls, NEW ok \in BOOLEAN, ServerCompletes(x, ok) PROVE CallSteps
  BY <1>1, <1>11, CompletesFacts
<1>12. ASSUME NEW x \in Calls, ServerYields(x) PROVE CallSteps
  BY <1>1, <1>12, YieldsFacts
<1>13. ASSUME NEW a \in Asks, ServerAsks(a) PROVE CallSteps
  BY <1>1, <1>13, AsksFacts
<1>14. QED
  BY <1>2, <1>3, <1>4, <1>5, <1>6, <1>7, <1>8, <1>9, <1>10, <1>11, <1>12, <1>13, ReceiveSteps
  DEF Next, GoesOn, Page, Handlers, Posts, Server, Completes, Yields

-----------------------------------------------------------------------------
(* What an observer sees                                                   *)

\* Items one to k, then an end, then only errors; "complete" if the server sent no more.
SeenShape(seen, k) ==
  /\ k \in 0 .. Len(seen)
  /\ \A i \in 1 .. k : seen[i] = Item(i)
  /\ k < Len(seen) => seen[k + 1] \in End
  /\ \A i \in k + 2 .. Len(seen) : seen[i] = Failed
SeenWell(x, k) ==
  /\ SeenShape(call[x].seen, k)
  /\ k < Len(call[x].seen) /\ call[x].seen[k + 1] = Completed =>
       server[x].state = "done" /\ server[x].items = k
SeenInv == \A x \in Calls : \E k \in Nat : SeenWell(x, k)

IsItem(m, x) == m.type = "StreamItem" /\ m.of = x
IsEnd(m, x) == m.type = "Completion" /\ m.of = x

\* What is on its way to a stream that goes on is what it has not seen.
Coming(s, x, k, items) ==
  /\ k <= items
  /\ \A i \in DOMAIN s : IsItem(s[i], x) => s[i].n > k
  /\ \A n \in k + 1 .. items : \E i \in DOMAIN s : IsItem(s[i], x) /\ s[i].n = n

\* The items of a stream come in their order, and the end comes last.
Ordered(s) ==
  \A x \in Calls, i, j \in DOMAIN s : i < j =>
    /\ IsItem(s[i], x) /\ IsItem(s[j], x) => s[i].n < s[j].n
    /\ IsEnd(s[i], x) => ~IsItem(s[j], x) /\ ~IsEnd(s[j], x)

ComingInv ==
  \A x \in Calls : KindOf(x) = "stream" /\ PendingCall(call[x], x) =>
    Coming(net.down, x, Len(call[x].seen), server[x].items)
DownInv == Ordered(net.down) /\ ComingInv

LEMMA ShapeStart == SeenShape(<<>>, 0)
BY DEF SeenShape

\* One more notice.
LEMMA ShapeAppend ==
  ASSUME NEW seen \in Seq(Notice), NEW k \in Nat, SeenShape(seen, k), NEW what \in Notice
  PROVE  LET s == Append(seen, what) IN
         /\ what = Failed => SeenShape(s, k)
         /\ k = Len(seen) /\ what \in End => SeenShape(s, k) /\ k < Len(s) /\ s[k + 1] = what
         /\ k = Len(seen) /\ what = Item(k + 1) => SeenShape(s, k + 1) /\ k + 1 = Len(s)
         /\ k < Len(seen) => k < Len(s) /\ s[k + 1] = seen[k + 1]
<1> DEFINE s == Append(seen, what)
           n == Len(seen)
<1>1. /\ n \in Nat /\ Len(s) = n + 1 /\ s[n + 1] = what
      /\ \A i \in 1 .. n : s[i] = seen[i]
  BY AppendFacts
<1>2. /\ k \in 0 .. n /\ \A i \in 1 .. k : seen[i] = Item(i)
      /\ k < n => seen[k + 1] \in End
      /\ \A i \in k + 2 .. n : seen[i] = Failed
  BY DEF SeenShape
<1> HIDE DEF s, n
<1>3. k < n => k + 1 \in 1 .. n
  BY <1>1
<1>4. ASSUME what = Failed PROVE SeenShape(s, k)
  <2>1. k < Len(s) => s[k + 1] \in End
    BY <1>1, <1>2, <1>3, <1>4, NoticeFacts
  <2>2. \A i \in k + 2 .. Len(s) : s[i] = Failed
    <3>1. \A i \in k + 2 .. n + 1 : (i \in 1 .. n /\ i \in k + 2 .. n) \/ i = n + 1
      BY <1>1
    <3>2. QED
      BY <1>1, <1>2, <1>4, <3>1
  <2>3. k \in 0 .. Len(s) /\ \A i \in 1 .. k : s[i] = Item(i)
    BY <1>1, <1>2
  <2>4. QED
    BY <2>1, <2>2, <2>3 DEF SeenShape
<1>5. ASSUME k = n, what \in End PROVE SeenShape(s, k) /\ k < Len(s) /\ s[k + 1] = what
  BY <1>1, <1>2, <1>5 DEF SeenShape
<1>6. ASSUME k = n, what = Item(k + 1) PROVE SeenShape(s, k + 1) /\ k + 1 = Len(s)
  BY <1>1, <1>2, <1>6 DEF SeenShape
<1>7. ASSUME k < n PROVE k < Len(s) /\ s[k + 1] = seen[k + 1]
  BY <1>1, <1>3, <1>7
<1>8. QED
  BY <1>4, <1>5, <1>6, <1>7 DEF s, n

\* A stream that goes on has seen items only.
LEMMA GoingOn ==
  ASSUME TypeOK, NEW x \in Calls, PendingCall(call[x], x), KindOf(x) = "stream",
         NEW k \in Nat, SeenShape(call[x].seen, k)
  PROVE  k = Len(call[x].seen)
<1>1. DOMAIN call[x].seen = 1 .. Len(call[x].seen) /\ Len(call[x].seen) \in Nat
  BY Typed, LenProperties DEF CallType
<1>2. ~EndedIn(call[x].seen)
  BY DEF PendingCall
<1>3. QED
  BY <1>1, <1>2 DEF SeenShape, EndedIn

\* Streams a step does not end.
LEMMA QuietPending ==
  ASSUME TypeOK, ClientInv(Client), NEW x \in Calls, Quiet(call[x], call'[x], x), KindOf(x) = "stream",
         PendingCall(call'[x], x)
  PROVE  /\ call'[x].seen = call[x].seen
         /\ PendingCall(call[x], x) \/ (~call[x].made /\ call[x].seen = <<>>)
<1>1. call[x].seen \in Seq(Notice)
  BY Typed DEF CallType
<1>2. EndedIn(Append(call[x].seen, Failed))
  BY <1>1, EndedByAppend, NoticeFacts
<1>3. call'[x].seen = call[x].seen
  BY <1>2 DEF Quiet, PendingCall
<1>4. call[x].cancel = "no"
  BY DEF Quiet, PendingCall
<1>5. ~call[x].made => call[x].seen = <<>>
  BY DEF ClientInv, IdsInv, Fresh, Client
<1>6. QED
  BY <1>3, <1>4, <1>5 DEF PendingCall

-----------------------------------------------------------------------------
(* What is on its way                                                      *)

LEMMA ComingTail ==
  ASSUME NEW s \in Seq(Message), s # <<>>, NEW x, NEW k \in Nat, NEW items \in Nat,
         Coming(s, x, k, items), ~IsItem(s[1], x)
  PROVE  Coming(Tail(s), x, k, items)
<1> DEFINE t == Tail(s)
<1>1. /\ Len(s) \in Nat \ {0} /\ DOMAIN s = 1 .. Len(s) /\ DOMAIN t = 1 .. Len(s) - 1
      /\ \A i \in 1 .. Len(s) - 1 : t[i] = s[i + 1]
  BY HeadFacts
<1> HIDE DEF t
<1>2. \A i \in DOMAIN t : i + 1 \in DOMAIN s /\ t[i] = s[i + 1]
  BY <1>1
<1>3. \A i \in DOMAIN s : i # 1 => i - 1 \in DOMAIN t /\ t[i - 1] = s[i]
  BY <1>1
<1>4. ASSUME NEW n \in k + 1 .. items PROVE \E i \in DOMAIN t : IsItem(t[i], x) /\ t[i].n = n
  <2>1. PICK i \in DOMAIN s : IsItem(s[i], x) /\ s[i].n = n
    BY DEF Coming
  <2>2. i # 1
    BY <2>1
  <2>3. QED
    BY <1>3, <2>1, <2>2
<1>5. QED
  BY <1>2, <1>4 DEF Coming, t

LEMMA ComingItem ==
  ASSUME NEW s \in Seq(Message), s # <<>>, NEW x \in Calls, NEW k \in Nat, NEW items \in Nat,
         Coming(s, x, k, items), Ordered(s), IsItem(s[1], x), s[1].n <= items
  PROVE  s[1].n = k + 1 /\ Coming(Tail(s), x, k + 1, items)
<1> DEFINE t == Tail(s)
           n == s[1].n
<1>1. /\ Len(s) \in Nat \ {0} /\ DOMAIN s = 1 .. Len(s) /\ DOMAIN t = 1 .. Len(s) - 1
      /\ \A i \in 1 .. Len(s) - 1 : t[i] = s[i + 1]
      /\ 1 \in DOMAIN s
  BY HeadFacts
<1>2. \A i \in DOMAIN s : s[i].n \in Nat
  <2>1. \A i \in DOMAIN s : s[i] \in Message
    BY <1>1, ElementOfSeq
  <2>2. QED
    BY <2>1 DEF Message
<1> HIDE DEF t
<1>3. \A i \in DOMAIN t : i + 1 \in DOMAIN s /\ 1 < i + 1 /\ t[i] = s[i + 1]
  BY <1>1
<1>4. \A i \in DOMAIN s : i # 1 => i - 1 \in DOMAIN t /\ t[i - 1] = s[i] /\ 1 < i
  BY <1>1
<1>5. \A i \in DOMAIN s : IsItem(s[i], x) /\ i # 1 => n < s[i].n
  BY <1>1, <1>4 DEF Ordered
<1>6. n > k /\ n <= items /\ n \in Nat
  BY <1>1, <1>2 DEF Coming
<1>7. n = k + 1
  <2> SUFFICES ASSUME n # k + 1 PROVE FALSE
    OBVIOUS
  <2>1. k + 1 \in k + 1 .. items /\ k + 1 < n
    BY <1>6
  <2>2. PICK i \in DOMAIN s : IsItem(s[i], x) /\ s[i].n = k + 1
    BY <2>1 DEF Coming
  <2>3. i # 1
    BY <2>1, <2>2
  <2>4. n < k + 1
    BY <1>5, <2>2, <2>3
  <2>5. QED
    BY <1>6, <2>1, <2>4
<1>8. k + 1 <= items
  BY <1>6, <1>7
<1>9. \A i \in DOMAIN t : IsItem(t[i], x) => t[i].n > k + 1
  <2> SUFFICES ASSUME NEW i \in DOMAIN t, IsItem(t[i], x) PROVE t[i].n > k + 1
    OBVIOUS
  <2>1. i + 1 \in DOMAIN s /\ i + 1 # 1 /\ t[i] = s[i + 1] /\ s[i + 1].n \in Nat
    BY <1>1, <1>2, <1>3
  <2>2. n < s[i + 1].n
    BY <1>5, <2>1
  <2>3. QED
    BY <1>7, <2>1, <2>2
<1>10. ASSUME NEW l \in k + 1 + 1 .. items PROVE \E i \in DOMAIN t : IsItem(t[i], x) /\ t[i].n = l
  <2>1. l \in k + 1 .. items /\ l # n
    BY <1>7
  <2>2. PICK i \in DOMAIN s : IsItem(s[i], x) /\ s[i].n = l
    BY <2>1 DEF Coming
  <2>3. i # 1
    BY <2>1, <2>2
  <2>4. QED
    BY <1>4, <2>2, <2>3
<1>11. QED
  BY <1>7, <1>8, <1>9, <1>10 DEF Coming, t

LEMMA ComingEnd ==
  ASSUME NEW s \in Seq(Message), s # <<>>, NEW x \in Calls, NEW k \in Nat, NEW items \in Nat,
         Coming(s, x, k, items), Ordered(s), IsEnd(s[1], x)
  PROVE  items = k
<1>1. Len(s) \in Nat \ {0} /\ DOMAIN s = 1 .. Len(s) /\ 1 \in DOMAIN s
  BY HeadFacts
<1>2. \A i \in DOMAIN s : ~IsItem(s[i], x)
  <2> SUFFICES ASSUME NEW i \in DOMAIN s, IsItem(s[i], x) PROVE FALSE
    OBVIOUS
  <2>1. i # 1
    BY DEF IsItem, IsEnd
  <2>2. 1 < i
    BY <1>1, <2>1
  <2>3. QED
    BY <1>1, <2>2 DEF Ordered
<1>3. k + 1 \notin k + 1 .. items
  BY <1>2 DEF Coming
<1>4. QED
  BY <1>3 DEF Coming

LEMMA ComingAppend ==
  ASSUME NEW s \in Seq(Message), NEW m \in Message, NEW x, NEW k \in Nat, NEW items \in Nat,
         Coming(s, x, k, items), ~IsItem(m, x)
  PROVE  Coming(Append(s, m), x, k, items)
<1> DEFINE t == Append(s, m)
           n == Len(s)
<1>1. /\ n \in Nat /\ DOMAIN s = 1 .. n /\ DOMAIN t = 1 .. n + 1 /\ t[n + 1] = m
      /\ \A i \in 1 .. n : t[i] = s[i]
  BY AppendFacts
<1> HIDE DEF t, n
<1>2. \A i \in DOMAIN t : (i \in DOMAIN s /\ t[i] = s[i]) \/ t[i] = m
  BY <1>1
<1>3. \A i \in DOMAIN s : i \in DOMAIN t /\ t[i] = s[i]
  BY <1>1
<1>4. QED
  BY <1>2, <1>3 DEF Coming, t

LEMMA ComingNew ==
  ASSUME NEW s \in Seq(Message), NEW m \in Message, NEW x, NEW k \in Nat, NEW items \in Nat,
         Coming(s, x, k, items), IsItem(m, x), m.n = items + 1
  PROVE  Coming(Append(s, m), x, k, items + 1)
<1> DEFINE t == Append(s, m)
           n == Len(s)
<1>1. /\ n \in Nat /\ DOMAIN s = 1 .. n /\ DOMAIN t = 1 .. n + 1 /\ t[n + 1] = m
      /\ \A i \in 1 .. n : t[i] = s[i]
  BY AppendFacts
<1> HIDE DEF t, n
<1>2. \A i \in DOMAIN t : (i \in DOMAIN s /\ t[i] = s[i]) \/ t[i] = m
  BY <1>1
<1>3. \A i \in DOMAIN s : i \in DOMAIN t /\ t[i] = s[i]
  BY <1>1
<1>4. k <= items /\ m.n > k
  BY DEF Coming
<1>5. ASSUME NEW l \in k + 1 .. items + 1 PROVE \E i \in DOMAIN t : IsItem(t[i], x) /\ t[i].n = l
  <2>1. CASE l = items + 1
    <3>1. n + 1 \in DOMAIN t
      BY <1>1
    <3>2. QED
      BY <1>1, <2>1, <3>1
  <2>2. CASE l # items + 1
    <3>1. l \in k + 1 .. items
      BY <2>2
    <3>2. QED
      BY <1>3, <3>1 DEF Coming
  <2>3. QED
    BY <2>1, <2>2
<1>6. QED
  BY <1>2, <1>4, <1>5 DEF Coming, t

LEMMA OrderedTail ==
  ASSUME NEW s \in Seq(Message), s # <<>>, Ordered(s)
  PROVE  Ordered(Tail(s))
<1> DEFINE t == Tail(s)
<1>1. /\ Len(s) \in Nat \ {0} /\ DOMAIN s = 1 .. Len(s) /\ DOMAIN t = 1 .. Len(s) - 1
      /\ \A i \in 1 .. Len(s) - 1 : t[i] = s[i + 1]
  BY HeadFacts
<1> HIDE DEF t
<1>2. \A i \in DOMAIN t : i + 1 \in DOMAIN s /\ t[i] = s[i + 1]
  BY <1>1
<1>3. \A i, j \in DOMAIN t : i < j => i + 1 < j + 1
  BY <1>1
<1>4. QED
  BY <1>2, <1>3 DEF Ordered, t

LEMMA OrderedAppend ==
  ASSUME NEW s \in Seq(Message), NEW m \in Message, Ordered(s),
         \A x \in Calls, i \in DOMAIN s :
           /\ IsItem(s[i], x) /\ IsItem(m, x) => s[i].n < m.n
           /\ IsEnd(s[i], x) => ~IsItem(m, x) /\ ~IsEnd(m, x)
  PROVE  Ordered(Append(s, m))
<1> DEFINE t == Append(s, m)
           n == Len(s)
<1>1. /\ n \in Nat /\ DOMAIN s = 1 .. n /\ DOMAIN t = 1 .. n + 1 /\ t[n + 1] = m
      /\ \A i \in 1 .. n : t[i] = s[i]
  BY AppendFacts
<1> HIDE DEF t, n
<1>2. ASSUME NEW i \in DOMAIN t, NEW j \in DOMAIN t, i < j
      PROVE  i \in DOMAIN s /\ t[i] = s[i] /\ ((j \in DOMAIN s /\ t[j] = s[j]) \/ t[j] = m)
  BY <1>1, <1>2
<1>3. QED
  BY <1>2 DEF Ordered, t

-----------------------------------------------------------------------------
(* What a message does to the server                                       *)

SameItems == \A y \in Calls : server'[y].items = server[y].items
SameStates == \A y \in Calls : server'[y].state = server[y].state
OtherStates(x) == \A y \in Calls : y # x => server'[y].state = server[y].state

Begins(x) ==
  /\ call[x].made /\ server[x].state = "no" /\ server'[x].state = "running" /\ OtherStates(x)
Stops(x) == server[x].state = "running" /\ server'[x].state = "done" /\ OtherStates(x)

SameReplies == \A a \in Asks : ask'[a].replies = ask[a].replies
Replied(a) ==
  /\ setup.expects /\ ask[a].replies = <<>> /\ Len(ask'[a].replies) = 1
  /\ \A b \in Asks : b # a => ask'[b].replies = ask[b].replies

LEMMA ReceivesSteps ==
  ASSUME TypeOK, ClientInv(Client), ServerInv, MessagesInv, OnceInv, ServerReceives
  PROVE  /\ SameItems
         /\ \/ SameStates /\ SameReplies
            \/ SameReplies /\ \E x \in Calls : Begins(x) \/ Stops(x)
            \/ SameStates /\ \E a \in Asks : Replied(a)
<1> DEFINE m == Head(net.up)
           x == m.of
<1>1. /\ hub.connected /\ net.up # <<>> /\ UpWell(m)
      /\ \/ m.type = "Invocation" /\ server' = ServerWith(x, Begun(x, m)) /\ ask' = ask
         \/ /\ m.type \in {"StreamItem", "Completion"} /\ server' = ServerWith(x, Hearing(x, m.n))
            /\ ask' = ask
         \/ /\ m.type = "CancelInvocation" /\ ask' = ask
            /\ server' = IF server[x].state = "running" THEN ServerWith(x, Done(x)) ELSE server
         \/ m.type = "Reply" /\ server' = server /\ ask' = [ask EXCEPT ![x] = Answered(x, m)]
  BY ServerReceivesFacts DEF ClientInv
<1>2. m = Wire[1] /\ 1 \in DOMAIN Wire
  BY <1>1, WireHead
<1>3. server \in [Calls -> ServerType] /\ ask \in [Asks -> AskType]
  BY Typed
<1> HIDE DEF m
<1>4. ASSUME ask' = ask PROVE SameReplies
  BY <1>4 DEF SameReplies
<1>5. CASE m.type = "Invocation" /\ server' = ServerWith(x, Begun(x, m)) /\ ask' = ask
  <2>1. x \in Calls /\ call[x].made
    BY <1>1, <1>5 DEF UpWell
  <2>2. server[x].state = "no"
    BY <1>2, <1>5 DEF OnceInv
  <2>3. server[x].items = 0
    BY <2>1, <2>2 DEF ServerInv
  <2>4. server'[x] = Begun(x, m) /\ \A y \in Calls : y # x => server'[y] = server[y]
    BY <1>3, <1>5, <2>1 DEF ServerWith
  <2>5. server'[x].state = "running" /\ server'[x].items = 0
    BY <1>3, <2>1, <2>4 DEF Begun, ServerType
  <2>6. Begins(x) /\ SameItems
    BY <2>1, <2>2, <2>3, <2>4, <2>5 DEF Begins, SameItems, OtherStates
  <2>7. QED
    BY <1>4, <1>5, <2>1, <2>6
<1>6. CASE /\ m.type \in {"StreamItem", "Completion"} /\ server' = ServerWith(x, Hearing(x, m.n))
           /\ ask' = ask
  <2>1. x \in Calls
    BY <1>1, <1>6 DEF UpWell
  <2>2. server'[x] = Hearing(x, m.n) /\ \A y \in Calls : y # x => server'[y] = server[y]
    BY <1>3, <1>6, <2>1 DEF ServerWith
  <2>3. server'[x].state = server[x].state /\ server'[x].items = server[x].items
    BY <1>3, <2>1, <2>2 DEF Hearing, ServerType
  <2>4. SameStates /\ SameItems
    BY <2>2, <2>3 DEF SameStates, SameItems
  <2>5. QED
    BY <1>4, <1>6, <2>4
<1>7. CASE m.type = "CancelInvocation" /\ ask' = ask /\ server[x].state = "running"
           /\ server' = ServerWith(x, Done(x))
  <2>1. x \in Calls
    BY <1>1, <1>7 DEF UpWell
  <2>2. server'[x] = Done(x) /\ \A y \in Calls : y # x => server'[y] = server[y]
    BY <1>3, <1>7, <2>1 DEF ServerWith
  <2>3. server'[x].state = "done" /\ server'[x].items = server[x].items
    BY <1>3, <2>1, <2>2 DEF Done, ServerType
  <2>4. Stops(x) /\ SameItems
    BY <1>7, <2>2, <2>3 DEF Stops, SameItems, OtherStates
  <2>5. QED
    BY <1>4, <1>7, <2>1, <2>4
<1>8. CASE server' = server /\ ask' = ask
  BY <1>4, <1>8 DEF SameStates, SameItems
<1>9. CASE m.type = "Reply" /\ server' = server /\ ask' = [ask EXCEPT ![x] = Answered(x, m)]
  <2>1. x \in Asks /\ setup.expects
    BY <1>1, <1>9 DEF UpWell
  <2>2. ask[x].replies = <<>>
    BY <1>2, <1>9 DEF OnceInv
  <2>3. ask'[x] = Answered(x, m) /\ \A b \in Asks : b # x => ask'[b] = ask[b]
    BY <1>3, <1>9, <2>1
  <2>4. ask'[x].replies = Append(<<>>, Replies[m.n])
    BY <1>3, <2>1, <2>2, <2>3 DEF Answered, AskType
  <2>5. Replied(x)
    BY <2>1, <2>2, <2>3, <2>4 DEF Replied
  <2>6. SameStates /\ SameItems
    BY <1>9 DEF SameStates, SameItems
  <2>7. QED
    BY <2>1, <2>5, <2>6
<1>10. QED
  BY <1>1, <1>5, <1>6, <1>7, <1>8, <1>9

\* Only a server that yields counts an item.
LEMMA ItemsStay ==
  ASSUME TypeOK, ClientInv(Client), ServerInv, MessagesInv, OnceInv, NextSteps,
         \A x \in Calls : ~ServerYields(x)
  PROVE  SameItems
<1>1. ASSUME NEW x \in Calls, NEW ok \in BOOLEAN, ServerCompletes(x, ok) PROVE SameItems
  <2>1. server' = ServerWith(x, Done(x)) /\ server \in [Calls -> ServerType]
    BY <1>1, CompletesFacts, Typed
  <2>2. Done(x).items = server[x].items
    BY <2>1 DEF Done, ServerType
  <2>3. QED
    BY <2>1, <2>2 DEF ServerWith, SameItems
<1>2. ASSUME server' = server PROVE SameItems
  BY <1>2 DEF SameItems
<1>3. QED
  BY <1>1, <1>2, ReceivesSteps DEF NextSteps

-----------------------------------------------------------------------------
(* What is on its way stays in order                                       *)

LEMMA NextOrdered ==
  ASSUME TypeOK, MessagesInv, NextSteps, Ordered(net.down)
  PROVE  Ordered(net'.down)
<1> DEFINE s == net.down
           t == net'.down
<1>1. s \in Seq(Message) /\ \A i \in DOMAIN s : DownWell(s[i])
  BY Typed DEF NetType, MessagesInv
<1>2. ASSUME Receive PROVE Ordered(t)
  BY <1>1, <1>2, ReceiveFacts, OrderedTail
<1>3. ASSUME Close PROVE Ordered(t)
  <2>1. t = <<>>
    BY <1>3, CloseFacts
  <2>2. QED
    BY <2>1 DEF Ordered
<1>4. ASSUME NEW x \in Calls, ServerYields(x) PROVE Ordered(t)
  <2> DEFINE m == ItemMessage(x)
  <2>1. m \in Message /\ t = Append(s, m) /\ server[x].state = "running"
    BY <1>4, YieldsFacts
  <2>2. m.type = "StreamItem" /\ m.of = x /\ m.n = server[x].items + 1 /\ server[x].items \in Nat
    BY Typed, Bounds DEF ItemMessage, ServerType
  <2> HIDE DEF m
  <2>3. ASSUME NEW y \in Calls, NEW i \in DOMAIN s
        PROVE  /\ IsItem(s[i], y) /\ IsItem(m, y) => s[i].n < m.n
               /\ IsEnd(s[i], y) => ~IsItem(m, y) /\ ~IsEnd(m, y)
    <3>1. DownWell(s[i])
      BY <1>1
    <3>2. QED
      BY <2>1, <2>2, <3>1 DEF DownWell, IsItem, IsEnd
  <2>4. Ordered(s)
    OBVIOUS
  <2> HIDE DEF s, t
  <2>5. QED
    BY <1>1, <2>1, <2>3, <2>4, OrderedAppend
<1>5. ASSUME NEW x \in Calls, NEW ok \in BOOLEAN, ServerCompletes(x, ok) PROVE Ordered(t)
  <2> DEFINE m == EndMessage(x, ok)
  <2>1. server[x].state = "running"
        /\ (net' = net \/ (m \in Message /\ t = Append(s, m)))
    BY <1>5, CompletesFacts
  <2>2. m.type = "Completion" /\ m.of = x
    BY DEF EndMessage
  <2> HIDE DEF m
  <2>3. ASSUME NEW y \in Calls, NEW i \in DOMAIN s
        PROVE  ~IsItem(m, y) /\ (IsEnd(s[i], y) => ~IsEnd(m, y))
    <3>1. DownWell(s[i])
      BY <1>1
    <3>2. QED
      BY <2>1, <2>2, <3>1 DEF DownWell, IsItem, IsEnd
  <2>4. Ordered(s)
    OBVIOUS
  <2>5. CASE net' = net
    BY <2>5
  <2>6. CASE m \in Message /\ t = Append(s, m)
    <3> HIDE DEF s, t
    <3>1. QED
      BY <1>1, <2>3, <2>4, <2>6, OrderedAppend
  <2>7. QED
    BY <2>1, <2>5, <2>6
<1>6. ASSUME NEW a \in Asks, ServerAsks(a) PROVE Ordered(t)
  <2> DEFINE m == AskMessage(a)
  <2>1. m \in Message /\ t = Append(s, m)
    BY <1>6, AsksFacts
  <2>2. \A y : ~IsItem(m, y) /\ ~IsEnd(m, y)
    BY DEF AskMessage, IsItem, IsEnd
  <2>3. Ordered(s)
    OBVIOUS
  <2> HIDE DEF m, s, t
  <2>4. QED
    BY <1>1, <2>1, <2>2, <2>3, OrderedAppend
<1>7. QED
  BY <1>2, <1>3, <1>4, <1>5, <1>6 DEF NextSteps

\* What is received about a stream that goes on answers it.
LEMMA StreamAnswered ==
  ASSUME TypeOK, ClientInv(Client), ServerInv, MessagesInv, Receive,
         NEW x \in Calls, KindOf(x) = "stream", PendingCall(call[x], x),
         IsItem(net.down[1], x) \/ IsEnd(net.down[1], x)
  PROVE  Answers(x, net.down[1])
<1> DEFINE m == net.down[1]
<1>1. /\ hub.connected /\ net.down # <<>> /\ server' = server /\ net'.down = Tail(net.down)
      /\ m = Head(net.down) /\ m \in Message /\ DownWell(m)
      /\ \/ m.type = "Completion" /\ Complete(m)
         \/ m.type = "StreamItem" /\ StreamItem(m) /\ m.n \in 1 .. MaxItems
         \/ m.type = "Invocation" /\ Invoke(m.of)
  BY ReceiveFacts
<1> HIDE DEF m
<1>2. m.of = x /\ m.type \in {"StreamItem", "Completion"}
  BY DEF IsItem, IsEnd, m
<1>3. m.id = call[x].id /\ call[x].made
  BY <1>1, <1>2 DEF DownWell, PendingCall
<1>4. <<m.id, x>> \in hub.callbacks
  <2>1. call[x].id \in Id
    BY Typed DEF CallType
  <2>2. QED
    BY <1>3, <2>1, Typed DEF ClientInv, CallbacksInv
<1>5. ASSUME NEW y \in Calls, <<m.id, y>> \in hub.callbacks PROVE y = x
  BY <1>1, <1>2, <1>5, AnsweredCall
<1>6. CASE m.type = "Completion" /\ Complete(m)
  <2>1. call' = [call EXCEPT ![x] = AfterCompletion(call[x], x, m)]
    BY <1>4, <1>5, <1>6, CompletionFacts
  <2>2. QED
    BY <1>1, <1>2, <1>3, <1>6, <2>1 DEF Answers, m
<1>7. CASE m.type = "StreamItem" /\ StreamItem(m) /\ m.n \in 1 .. MaxItems
  <2>1. call' = [call EXCEPT ![x] = AfterItem(call[x], m)]
    BY <1>4, <1>5, <1>7, ItemFacts
  <2>2. QED
    BY <1>1, <1>2, <1>3, <1>7, <2>1 DEF Answers, m
<1>8. QED
  BY <1>1, <1>2, <1>6, <1>7

\* What an answer does to its call, and to no other.
LEMMA AnswersFacts ==
  ASSUME TypeOK, NEW x \in Calls, NEW m \in Message, Answers(x, m)
  PROVE
    /\ \A y \in Calls : y # x => call'[y] = call[y]
    /\ call[x].seen \in Seq(Notice)
    /\ call'[x].made = call[x].made /\ call'[x].cancel = call[x].cancel
    /\ m.type = "StreamItem" =>
         /\ call'[x].seen = Append(call[x].seen, Item(m.n)) /\ Item(m.n) \in Notice
         /\ call'[x].outcome = call[x].outcome
    /\ m.type = "Completion" /\ KindOf(x) = "stream" =>
         /\ call'[x].outcome = call[x].outcome
         /\ \E what \in End : call'[x].seen = Append(call[x].seen, what)
    /\ m.type = "Completion" /\ KindOf(x) # "stream" =>
         /\ call'[x].seen = call[x].seen /\ call[x].outcome = "pending"
         /\ call'[x].outcome \in {"resolved", "rejected"}
<1>1. call \in [Calls -> CallType] /\ call[x] \in CallType /\ call[x].seen \in Seq(Notice)
  BY Typed DEF CallType
<1> DEFINE r == call[x]
<1>2. CASE m.type = "Completion" /\ call' = [call EXCEPT ![x] = AfterCompletion(r, x, m)]
  <2>1. call'[x] = AfterCompletion(r, x, m) /\ \A y \in Calls : y # x => call'[y] = call[y]
    BY <1>1, <1>2
  <2>2. CASE KindOf(x) = "stream"
    <3> DEFINE what == IF m.n = 0 THEN Failed ELSE Completed
    <3>1. what \in End
      BY NoticeFacts
    <3>2. call'[x] = [r EXCEPT !.seen = Append(r.seen, what)]
      BY <2>1, <2>2 DEF AfterCompletion
    <3> HIDE DEF what
    <3>3. call'[x].seen = Append(r.seen, what) /\ call'[x].outcome = r.outcome
          /\ call'[x].made = r.made /\ call'[x].cancel = r.cancel
      BY <1>1, <3>2 DEF CallType
    <3>4. QED
      BY <1>1, <1>2, <2>1, <2>2, <3>1, <3>3
  <2>3. CASE KindOf(x) # "stream"
    <3>1. r.outcome = "pending"
      BY <2>3 DEF Answers, PendingCall
    <3> DEFINE outcome == IF m.n = 0 THEN "rejected" ELSE "resolved"
    <3>2. call'[x] = [r EXCEPT !.outcome = outcome]
      BY <2>1, <2>3, <3>1 DEF AfterCompletion
    <3>3. outcome \in {"resolved", "rejected"}
      OBVIOUS
    <3> HIDE DEF outcome
    <3>4. call'[x].seen = r.seen /\ call'[x].outcome = outcome
          /\ call'[x].made = r.made /\ call'[x].cancel = r.cancel
      BY <1>1, <3>2 DEF CallType
    <3>5. QED
      BY <1>1, <1>2, <2>1, <2>3, <3>1, <3>3, <3>4
  <2>4. QED
    BY <2>2, <2>3
<1>3. CASE m.type = "StreamItem" /\ m.n \in 1 .. MaxItems
           /\ call' = [call EXCEPT ![x] = AfterItem(r, m)]
  <2>1. call'[x] = AfterItem(r, m) /\ \A y \in Calls : y # x => call'[y] = call[y]
    BY <1>1, <1>3
  <2>2. call'[x].seen = Append(r.seen, Item(m.n)) /\ call'[x].outcome = r.outcome
        /\ call'[x].made = r.made /\ call'[x].cancel = r.cancel
    BY <1>1, <2>1 DEF AfterItem, CallType
  <2>3. Item(m.n) \in Notice
    BY <1>3, NoticeFacts
  <2>4. QED
    BY <1>1, <1>3, <2>1, <2>2, <2>3
<1>4. QED
  BY <1>2, <1>3 DEF Answers

\* The answer to a stream that goes on is the next item, or the end of all it saw.
LEMMA NextAnswer ==
  ASSUME TypeOK, DownInv, NEW x \in Calls, NEW m \in Message, Answers(x, m), KindOf(x) = "stream"
  PROVE
    /\ m.type = "StreamItem" =>
         /\ m.n = Len(call[x].seen) + 1
         /\ Coming(net'.down, x, Len(call[x].seen) + 1, server[x].items)
    /\ m.type = "Completion" =>
         server[x].items = Len(call[x].seen) /\ server[x].state = "done"
<1>1. /\ net.down \in Seq(Message) /\ net.down # <<>> /\ m = net.down[1] /\ DownWell(m) /\ m.of = x
      /\ PendingCall(call[x], x) /\ net'.down = Tail(net.down)
  BY Typed DEF NetType, Answers
<1>2. Len(call[x].seen) \in Nat /\ server[x].items \in Nat
  <2>1. call[x].seen \in Seq(Notice)
    BY Typed DEF CallType
  <2>2. QED
    BY <2>1, LenProperties, Typed, Bounds DEF ServerType
<1>3. Coming(net.down, x, Len(call[x].seen), server[x].items) /\ Ordered(net.down)
  BY <1>1 DEF DownInv, ComingInv
<1>4. ASSUME m.type = "StreamItem"
      PROVE  /\ m.n = Len(call[x].seen) + 1
             /\ Coming(net'.down, x, Len(call[x].seen) + 1, server[x].items)
  <2>1. IsItem(net.down[1], x)
    BY <1>1, <1>4 DEF IsItem
  <2>2. net.down[1].n <= server[x].items
    BY <1>1, <1>2, <1>4 DEF DownWell
  <2>3. QED
    BY <1>1, <1>2, <1>3, <2>1, <2>2, ComingItem
<1>5. ASSUME m.type = "Completion"
      PROVE  server[x].items = Len(call[x].seen) /\ server[x].state = "done"
  <2>1. IsEnd(net.down[1], x)
    BY <1>1, <1>5 DEF IsEnd
  <2>2. server[x].state = "done"
    BY <1>1, <1>5 DEF DownWell
  <2>3. QED
    BY <1>1, <1>2, <1>3, <2>1, <2>2, ComingEnd
<1>6. QED
  BY <1>4, <1>5

\* Whoever saw the end of a stream saw all that the server says of it later.
LEMMA SeenLater ==
  ASSUME TypeOK, ServerGoesOn, NEW x \in Calls, NEW k \in Nat, SeenWell(x, k),
         call'[x].seen = call[x].seen
           \/ \E what \in Notice :
                /\ call'[x].seen = Append(call[x].seen, what)
                /\ what = Failed
  PROVE  SeenWell(x, k)'
<1> DEFINE s == call[x].seen
           t == call'[x].seen
<1>1. s \in Seq(Notice) /\ Len(s) \in Nat
  BY Typed, LenProperties DEF CallType
<1>2. /\ SeenShape(s, k)
      /\ k < Len(s) /\ s[k + 1] = Completed => server'[x].state = "done" /\ server'[x].items = k
  BY DEF SeenWell, ServerGoesOn
<1>3. k <= Len(s)
  BY <1>1, <1>2 DEF SeenShape
<1> HIDE DEF s, t
<1>4. CASE t = s
  BY <1>2, <1>4 DEF SeenWell, s, t
<1>5. CASE t = Append(s, Failed)
  <2>1. /\ Len(t) = Len(s) + 1 /\ t[Len(s) + 1] = Failed
        /\ \A i \in 1 .. Len(s) : t[i] = s[i]
    BY <1>1, <1>5, NoticeFacts, AppendFacts
  <2>2. SeenShape(t, k)
    BY <1>1, <1>2, <1>5, NoticeFacts, ShapeAppend
  <2>3. ASSUME k < Len(t), t[k + 1] = Completed PROVE k < Len(s) /\ s[k + 1] = Completed
    <3>1. k # Len(s)
      BY <2>1, <2>3, NoticeFacts
    <3>2. k < Len(s) /\ k + 1 \in 1 .. Len(s)
      BY <1>1, <1>3, <3>1
    <3>3. QED
      BY <2>1, <2>3, <3>2
  <2>4. QED
    BY <1>2, <2>2, <2>3 DEF SeenWell, t
<1>6. QED
  BY <1>4, <1>5 DEF s, t

LEMMA NextSeenInv ==
  ASSUME TypeOK, ServerInv, CallSteps, ServerGoesOn, setup' = setup, SeenInv, DownInv
  PROVE  SeenInv'
<1>1. ASSUME NEW x \in Calls, Quiet(call[x], call'[x], x) PROVE \E k \in Nat : SeenWell(x, k)'
  <2>1. PICK k \in Nat : SeenWell(x, k)
    BY DEF SeenInv
  <2>2. SeenWell(x, k)'
    BY <1>1, <2>1, SeenLater, NoticeFacts DEF Quiet
  <2>3. QED
    BY <2>2
<1>2. ASSUME NEW x \in Calls, NEW m \in Message, Answers(x, m), NEW y \in Calls
      PROVE  \E k \in Nat : SeenWell(y, k)'
  <2>1. PICK k \in Nat : SeenWell(y, k)
    BY DEF SeenInv
  <2>2. CASE call'[y].seen = call[y].seen
    BY <2>1, <2>2, SeenLater
  <2>3. CASE call'[y].seen # call[y].seen
    <3>1. x = y /\ KindOf(x) = "stream"
      <4>1. m.type = "StreamItem" => KindOf(x) = "stream"
        BY <1>2 DEF Answers, DownWell
      <4>2. m.type \in {"StreamItem", "Completion"}
        BY <1>2 DEF Answers
      <4>3. QED
        BY <1>2, <2>3, <4>1, <4>2, AnswersFacts
    <3> DEFINE s == call[x].seen
               t == call'[x].seen
    <3>2. s \in Seq(Notice) /\ Len(s) \in Nat
      BY <1>2, AnswersFacts, LenProperties
    <3>3. SeenShape(s, k)
      BY <2>1, <3>1 DEF SeenWell
    <3>4. k = Len(s)
      <4>1. PendingCall(call[x], x)
        BY <1>2 DEF Answers
      <4>2. QED
        BY <3>1, <3>3, <4>1, GoingOn
    <3>5. CASE m.type = "StreamItem"
      <4>1. t = Append(s, Item(k + 1)) /\ Item(k + 1) \in Notice
        BY <1>2, <3>1, <3>4, <3>5, AnswersFacts, NextAnswer
      <4> HIDE DEF s, t
      <4>2. SeenShape(t, k + 1) /\ k + 1 = Len(t)
        BY <3>2, <3>3, <3>4, <4>1, ShapeAppend
      <4>3. SeenWell(x, k + 1)'
        BY <4>2 DEF SeenWell, t
      <4>4. QED
        BY <3>1, <4>3
    <3>6. CASE m.type = "Completion"
      <4>1. PICK what \in End : t = Append(s, what)
        BY <1>2, <3>1, <3>6, AnswersFacts
      <4>2. what \in Notice
        BY DEF Notice
      <4>3. server'[x].state = "done" /\ server'[x].items = k
        BY <1>2, <3>1, <3>4, <3>6, NextAnswer DEF ServerGoesOn
      <4> HIDE DEF s, t
      <4>4. SeenShape(t, k)
        BY <3>2, <3>3, <3>4, <4>1, <4>2, ShapeAppend
      <4>5. SeenWell(x, k)'
        BY <4>3, <4>4 DEF SeenWell, t
      <4>6. QED
        BY <3>1, <4>5
    <3>7. QED
      BY <1>2, <3>5, <3>6 DEF Answers
  <2>4. QED
    BY <2>2, <2>3
<1>3. \A x \in Calls : \E k \in Nat : SeenWell(x, k)'
  BY <1>1, <1>2 DEF CallSteps, AllQuiet
<1>4. QED
  BY <1>3, Fixed DEF SeenInv

\* What comes to a stream the client hears nothing about in this step.
LEMMA ComingQuiet ==
  ASSUME MessagesIndInv, ClientInv(Client)', NextSteps, Ordered(net.down),
         NEW x \in Calls, KindOf(x) = "stream", PendingCall(call'[x], x),
         call'[x].seen = call[x].seen,
         NEW k \in Nat, Coming(net.down, x, k, server[x].items),
         Receive => ~IsItem(net.down[1], x)
  PROVE  Coming(net'.down, x, k, server'[x].items)
<1> USE DEF MessagesIndInv
<1> DEFINE s == net.down
           t == net'.down
           n == server[x].items
<1>1. s \in Seq(Message) /\ n \in Nat /\ Coming(s, x, k, n)
  BY Typed, Bounds DEF NetType, ServerType
<1>2. ASSUME \A y \in Calls : ~ServerYields(y) PROVE server'[x].items = n
  BY <1>2, ItemsStay DEF SameItems
<1>3. ASSUME NEW y \in Calls, ServerYields(y) PROVE Coming(t, x, k, server'[x].items)
  <2> DEFINE m == ItemMessage(y)
  <2>1. /\ m \in Message /\ t = Append(s, m)
        /\ server' = ServerWith(y, [server[y] EXCEPT !.items = server[y].items + 1])
    BY <1>3, YieldsFacts
  <2>2. m.type = "StreamItem" /\ m.of = y /\ m.n = server[y].items + 1
    BY DEF ItemMessage
  <2> HIDE DEF m
  <2>3. server'[x].items = IF x = y THEN n + 1 ELSE n
    BY <2>1, Typed DEF ServerWith, ServerType
  <2>4. CASE x = y
    <3>1. IsItem(m, x) /\ m.n = n + 1
      BY <2>2, <2>4 DEF IsItem
    <3>2. server'[x].items = n + 1
      BY <2>3, <2>4
    <3> HIDE DEF s, t, n
    <3>3. QED
      BY <1>1, <2>1, <3>1, <3>2, ComingNew
  <2>5. CASE x # y
    <3>1. ~IsItem(m, x)
      BY <2>2, <2>5 DEF IsItem
    <3>2. server'[x].items = n
      BY <2>3, <2>5
    <3> HIDE DEF s, t, n
    <3>3. QED
      BY <1>1, <2>1, <3>1, <3>2, ComingAppend
  <2>6. QED
    BY <2>4, <2>5
<1>4. ASSUME \A y \in Calls : ~ServerYields(y), NEW m \in Message, t = Append(s, m), ~IsItem(m, x)
      PROVE  Coming(t, x, k, server'[x].items)
  <2>1. server'[x].items = n
    BY <1>2, <1>4
  <2> HIDE DEF s, t, n
  <2>2. QED
    BY <1>1, <1>4, <2>1, ComingAppend
<1>5. ASSUME \A y \in Calls : ~ServerYields(y), t = s PROVE Coming(t, x, k, server'[x].items)
  BY <1>1, <1>2, <1>5
<1>6. ASSUME \A y \in Calls : ~ServerYields(y), NEW y \in Calls, NEW ok \in BOOLEAN,
             ServerCompletes(y, ok)
      PROVE  Coming(t, x, k, server'[x].items)
  <2>1. t = s \/ (EndMessage(y, ok) \in Message /\ t = Append(s, EndMessage(y, ok)))
    BY <1>6, CompletesFacts
  <2>2. ~IsItem(EndMessage(y, ok), x)
    BY DEF EndMessage, IsItem
  <2>3. QED
    BY <1>4, <1>5, <1>6, <2>1, <2>2
<1>7. ASSUME \A y \in Calls : ~ServerYields(y), NEW a \in Asks, ServerAsks(a)
      PROVE  Coming(t, x, k, server'[x].items)
  <2>1. AskMessage(a) \in Message /\ t = Append(s, AskMessage(a))
    BY <1>7, AsksFacts
  <2>2. ~IsItem(AskMessage(a), x)
    BY DEF AskMessage, IsItem
  <2>3. QED
    BY <1>4, <1>7, <2>1, <2>2
<1>8. ASSUME \A y \in Calls : ~ServerYields(y), Receive PROVE Coming(t, x, k, server'[x].items)
  <2>1. s # <<>> /\ t = Tail(s) /\ ~IsItem(s[1], x)
    BY <1>8, ReceiveFacts
  <2>2. server'[x].items = n
    BY <1>2, <1>8
  <2> HIDE DEF s, t, n
  <2>3. QED
    BY <1>1, <2>1, <2>2, ComingTail
<1>9. ~Close
  <2> SUFFICES ASSUME Close PROVE FALSE
    OBVIOUS
  <2>1. hub'.callbacks = {} /\ setup' = setup /\ call' \in [Calls -> CallType]
    BY CloseFacts, Typed DEF HubType, Client, ClientType
  <2>2. call'[x].id \in Id
    BY <2>1 DEF CallType
  <2>3. ASSUME NEW y \in Calls, NEW i \in Id
        PROVE  <<i, y>> \in hub'.callbacks <=>
                 i = call'[y].id /\ PendingCall(call'[y], y) /\ KindOf(y) # "send"
    BY <2>1, Fixed DEF ClientInv, CallbacksInv, PendingCall, Client, EndedIn, End, Completed, Failed
  <2>4. QED
    BY <2>1, <2>2, <2>3
<1>10. QED
  BY <1>3, <1>5, <1>6, <1>7, <1>8, <1>9 DEF NextSteps

LEMMA NextComing ==
  ASSUME MessagesIndInv, ClientInv(Client)', NextSteps, CallSteps, DownInv,
         NEW x \in Calls, KindOf(x) = "stream", PendingCall(call'[x], x)
  PROVE  Coming(net'.down, x, Len(call'[x].seen), server'[x].items)
<1> USE DEF MessagesIndInv
<1>1. call[x].seen \in Seq(Notice) /\ Len(call[x].seen) \in Nat
  BY Typed, LenProperties DEF CallType
<1>2. net.down \in Seq(Message) /\ \A i \in DOMAIN net.down : DownWell(net.down[i])
  BY Typed DEF NetType, MessagesInv
<1>3. Ordered(net.down) /\ ComingInv
  BY DEF DownInv
<1>4. ASSUME NEW m \in Message, Answers(x, m)
      PROVE  Coming(net'.down, x, Len(call'[x].seen), server'[x].items)
  <2>1. CASE m.type = "StreamItem"
    <3>1. call'[x].seen = Append(call[x].seen, Item(m.n)) /\ Item(m.n) \in Notice
      BY <1>4, <2>1, AnswersFacts
    <3>2. Len(call'[x].seen) = Len(call[x].seen) + 1
      BY <1>1, <3>1, AppendFacts
    <3>3. Coming(net'.down, x, Len(call[x].seen) + 1, server[x].items)
      BY <1>4, <2>1, NextAnswer
    <3>4. server' = server
      BY <1>4 DEF Answers
    <3>5. QED
      BY <3>2, <3>3, <3>4
  <2>2. CASE m.type = "Completion"
    <3>1. PICK what \in End : call'[x].seen = Append(call[x].seen, what)
      BY <1>4, <2>2, AnswersFacts
    <3>2. what \in Notice
      BY DEF Notice
    <3>3. EndedIn(call'[x].seen)
      BY <1>1, <3>1, <3>2, EndedByAppend
    <3>4. QED
      BY <3>3 DEF PendingCall
  <2>3. QED
    BY <1>4, <2>1, <2>2 DEF Answers
<1>5. ASSUME Receive, PendingCall(call[x], x), IsItem(net.down[1], x) \/ IsEnd(net.down[1], x)
      PROVE  Coming(net'.down, x, Len(call'[x].seen), server'[x].items)
  <2>1. Answers(x, net.down[1])
    BY <1>5, StreamAnswered
  <2>2. net.down[1] \in Message
    BY <1>2, <1>5, ReceiveFacts
  <2>3. QED
    BY <1>4, <2>1, <2>2
<1>6. ASSUME PendingCall(call[x], x), call'[x].seen = call[x].seen
      PROVE  Coming(net'.down, x, Len(call'[x].seen), server'[x].items)
  <2>1. Coming(net.down, x, Len(call[x].seen), server[x].items)
    BY <1>3, <1>6 DEF ComingInv
  <2>2. CASE Receive /\ IsItem(net.down[1], x)
    BY <1>5, <1>6, <2>2
  <2>3. CASE Receive => ~IsItem(net.down[1], x)
    BY <1>1, <1>3, <1>6, <2>1, <2>3, ComingQuiet
  <2>4. QED
    BY <2>2, <2>3
<1>7. ASSUME ~call[x].made, call[x].seen = <<>>, call'[x].seen = call[x].seen
      PROVE  Coming(net'.down, x, Len(call'[x].seen), server'[x].items)
  <2>1. server[x].state = "no" /\ server[x].items = 0
    BY <1>7 DEF ServerInv
  <2>2. \A i \in DOMAIN net.down : ~IsItem(net.down[i], x)
    BY <1>2, <2>1 DEF DownWell, IsItem
  <2>3. Len(call[x].seen) = 0
    BY <1>7
  <2>4. Coming(net.down, x, 0, 0)
    BY <2>2 DEF Coming
  <2>5. Receive => ~IsItem(net.down[1], x)
    <3>1. Receive => 1 \in DOMAIN net.down
      BY <1>2, ReceiveFacts, HeadFacts
    <3>2. QED
      BY <2>2, <3>1
  <2>6. QED
    BY <1>3, <1>7, <2>1, <2>3, <2>4, <2>5, ComingQuiet
<1>8. ASSUME Quiet(call[x], call'[x], x)
      PROVE  Coming(net'.down, x, Len(call'[x].seen), server'[x].items)
  BY <1>6, <1>7, <1>8, QuietPending
<1>9. ASSUME NEW y \in Calls, y # x, NEW m \in Message, Answers(y, m)
      PROVE  Coming(net'.down, x, Len(call'[x].seen), server'[x].items)
  <2>1. call'[x] = call[x]
    BY <1>9, AnswersFacts
  <2>2. QED
    BY <1>6, <2>1
<1>10. QED
  BY <1>4, <1>8, <1>9 DEF CallSteps, AllQuiet

LEMMA NextDownInv ==
  ASSUME MessagesIndInv, ClientInv(Client)', NextSteps, CallSteps, DownInv
  PROVE  DownInv'
<1> USE DEF MessagesIndInv
<1>1. setup' = setup
  BY DEF NextSteps
<1>2. Ordered(net'.down)
  BY NextOrdered DEF DownInv
<1>3. Ordered(net.down)'
  BY <1>1, <1>2, Fixed DEF Ordered, IsItem, IsEnd
<1>4. \A x \in Calls : KindOf(x) = "stream" /\ PendingCall(call'[x], x) =>
        Coming(net'.down, x, Len(call'[x].seen), server'[x].items)
  BY NextComing
<1>5. \A x \in Calls : PendingCall(call[x], x)' <=> PendingCall(call'[x], x)
  BY <1>1, Fixed DEF PendingCall, EndedIn, End, Completed, Failed
<1>6. ComingInv'
  BY <1>1, <1>4, <1>5, Fixed DEF ComingInv, Coming, IsItem
<1>7. QED
  BY <1>3, <1>6 DEF DownInv

-----------------------------------------------------------------------------
(* The inductive invariant of streams                                      *)

SeenIndInv == MessagesIndInv /\ SeenInv /\ DownInv

LEMMA InitSeen == Init => SeenIndInv
<1> SUFFICES ASSUME Init PROVE SeenIndInv
  OBVIOUS
<1>1. MessagesIndInv
  BY InitMessages
<1>2. net.down = <<>> /\ \A x \in Calls : call[x].seen = <<>> /\ ~call[x].made
  BY DEF Init
<1>3. \A x \in Calls : SeenWell(x, 0)
  BY <1>2, ShapeStart DEF SeenWell
<1>4. DownInv
  BY <1>2 DEF DownInv, Ordered, ComingInv, PendingCall
<1>5. QED
  BY <1>1, <1>3, <1>4 DEF SeenIndInv, SeenInv

LEMMA NextSeenInd ==
  ASSUME SeenIndInv, [Next]_vars
  PROVE  SeenIndInv' /\ CallSteps /\ NextSteps /\ ServerGoesOn /\ AsksGoOn
<1>1. MessagesIndInv' /\ NextSteps /\ ServerGoesOn /\ AsksGoOn
  BY NextMessagesInd DEF SeenIndInv
<1>2. CallSteps
  BY NextCallSteps DEF SeenIndInv, MessagesIndInv
<1>3. SeenInv'
  BY <1>1, <1>2, NextSeenInv DEF SeenIndInv, MessagesIndInv, NextSteps
<1>4. DownInv'
  BY <1>1, <1>2, NextDownInv DEF SeenIndInv, MessagesIndInv
<1>5. QED
  BY <1>1, <1>2, <1>3, <1>4 DEF SeenIndInv

-----------------------------------------------------------------------------
(* The calls as RemoteCalls sees them                                      *)

FirstIn(seen) ==
  seen[CHOOSE i \in DOMAIN seen : seen[i] \in End /\ \A j \in 1 .. i - 1 : seen[j] \notin End]

StatusOf(r, x) ==
  CASE ~r.made -> "none"
    [] r.made /\ KindOf(x) # "stream" -> r.outcome
    [] r.made /\ KindOf(x) = "stream" /\ ~EndedIn(r.seen) -> "pending"
    [] OTHER -> IF FirstIn(r.seen) = Completed THEN "resolved" ELSE "rejected"

LEMMA StatusAfter ==
  ASSUME setup' = setup, NEW x \in Calls
  PROVE  Status(x) = StatusOf(call[x], x) /\ Status(x)' = StatusOf(call'[x], x)
<1>1. Status(x) = StatusOf(call[x], x)
  BY DEF Status, StatusOf, Ended, EndedIn, FirstEnd, FirstIn
<1>2. Status(x)' = StatusOf(call'[x], x)
  BY Fixed DEF Status, StatusOf, Ended, EndedIn, FirstEnd, FirstIn, End, Completed, Failed
<1>3. QED
  BY <1>1, <1>2

\* The cases one by one.
LEMMA StatusCases ==
  ASSUME NEW x \in Calls, NEW r \in CallType
  PROVE
    /\ ~r.made => StatusOf(r, x) = "none"
    /\ r.made /\ KindOf(x) # "stream" => StatusOf(r, x) = r.outcome
    /\ r.made /\ KindOf(x) = "stream" /\ ~EndedIn(r.seen) => StatusOf(r, x) = "pending"
    /\ r.made /\ KindOf(x) = "stream" /\ EndedIn(r.seen) =>
         StatusOf(r, x) = IF FirstIn(r.seen) = Completed THEN "resolved" ELSE "rejected"
    /\ StatusOf(r, x) \in {"none", "pending", "resolved", "rejected"}
<1>1. r.made \in BOOLEAN /\ r.outcome \in {"pending", "resolved", "rejected"}
  BY DEF CallType
<1>2. EndedIn(r.seen) \in BOOLEAN
  BY DEF EndedIn
<1>3. QED
  BY <1>1, <1>2 DEF StatusOf

\* The first end an observer sees comes after the items.
LEMMA FirstSeen ==
  ASSUME NEW seen \in Seq(Notice), NEW k \in Nat, SeenShape(seen, k)
  PROVE  /\ EndedIn(seen) <=> k < Len(seen)
         /\ k < Len(seen) => FirstIn(seen) = seen[k + 1]
<1>1. Len(seen) \in Nat /\ DOMAIN seen = 1 .. Len(seen)
  BY LenProperties
<1>2. /\ k \in 0 .. Len(seen) /\ \A i \in 1 .. k : seen[i] \notin End
      /\ k < Len(seen) => seen[k + 1] \in End
  BY NoticeFacts DEF SeenShape
<1>3. ASSUME EndedIn(seen) PROVE k < Len(seen)
  BY <1>1, <1>2, <1>3 DEF EndedIn
<1>4. ASSUME k < Len(seen) PROVE EndedIn(seen) /\ FirstIn(seen) = seen[k + 1]
  <2> DEFINE P(i) == seen[i] \in End /\ \A j \in 1 .. i - 1 : seen[j] \notin End
  <2>1. k + 1 \in DOMAIN seen
    BY <1>1, <1>4
  <2>2. P(k + 1)
    BY <1>2, <1>4
  <2>3. \A i \in DOMAIN seen : P(i) => i = k + 1
    <3> SUFFICES ASSUME NEW i \in DOMAIN seen, P(i) PROVE i = k + 1
      OBVIOUS
    <3>1. i \notin 1 .. k
      BY <1>2
    <3>2. ~(k + 1 < i)
      <4>1. k + 1 < i => k + 1 \in 1 .. i - 1
        BY <1>1
      <4>2. QED
        BY <2>2, <4>1
    <3>3. QED
      BY <1>1, <3>1, <3>2
  <2>4. EndedIn(seen)
    BY <2>1, <2>2 DEF EndedIn
  <2> HIDE DEF P
  <2>5. (CHOOSE i \in DOMAIN seen : P(i)) = k + 1
    BY <2>1, <2>2, <2>3
  <2>6. FirstIn(seen) = seen[CHOOSE i \in DOMAIN seen : P(i)]
    BY DEF FirstIn, P
  <2>7. QED
    BY <2>4, <2>5, <2>6
<1>5. QED
  BY <1>3, <1>4

\* What a status may become.
Moves(u, t, mayResolve) ==
  IF u = "none" THEN t \in {"none", "pending", "rejected"}
  ELSE IF u # "pending" THEN t = u
  ELSE t \in {"pending", "rejected"} \/ (t = "resolved" /\ mayResolve)

LEMMA QuietMoves ==
  ASSUME NEW x \in Calls, NEW r \in CallType, NEW s \in CallType, Quiet(r, s, x),
         NEW k \in Nat, SeenShape(r.seen, k), ~r.made => r.outcome = "pending" /\ r.seen = <<>>,
         NEW may, KindOf(x) = "send" => may
  PROVE  Moves(StatusOf(r, x), StatusOf(s, x), may)
<1>1. /\ r.made \in BOOLEAN /\ s.made \in BOOLEAN /\ r.seen \in Seq(Notice) /\ s.seen \in Seq(Notice)
      /\ r.outcome \in {"pending", "resolved", "rejected"}
      /\ s.outcome \in {"pending", "resolved", "rejected"}
  BY DEF CallType
<1>2. CASE ~s.made
  <2>1. ~r.made
    BY <1>2 DEF Quiet
  <2>2. StatusOf(r, x) = "none" /\ StatusOf(s, x) = "none"
    BY <1>2, <2>1, StatusCases
  <2>3. QED
    BY <2>2 DEF Moves
<1>3. CASE s.made /\ KindOf(x) # "stream"
  <2>1. StatusOf(s, x) = s.outcome
    BY <1>3, StatusCases
  <2>2. CASE ~r.made
    <3>1. s.outcome \in {"pending", "rejected"}
      BY <2>2 DEF Quiet
    <3>2. StatusOf(r, x) = "none"
      BY <2>2, StatusCases
    <3>3. QED
      BY <2>1, <3>1, <3>2 DEF Moves
  <2>3. CASE r.made
    <3>1. StatusOf(r, x) = r.outcome
      BY <1>3, <2>3, StatusCases
    <3>2. s.outcome = r.outcome
          \/ (r.outcome = "pending" /\ (s.outcome = "rejected" \/ (s.outcome = "resolved" /\ may)))
      BY DEF Quiet
    <3>3. QED
      BY <1>1, <2>1, <3>1, <3>2 DEF Moves
  <2>4. QED
    BY <1>1, <2>2, <2>3
<1>4. CASE s.made /\ KindOf(x) = "stream"
  <2>1. EndedIn(r.seen) <=> k < Len(r.seen)
    BY <1>1, FirstSeen
  <2>2. CASE s.seen = r.seen
    <3>1. CASE r.made
      <4>1. StatusOf(s, x) = StatusOf(r, x)
        BY <1>4, <2>2, <3>1, StatusCases
      <4>2. QED
        BY <4>1, StatusCases DEF Moves
    <3>2. CASE ~r.made
      <4>1. ~EndedIn(r.seen)
        BY <3>2 DEF EndedIn
      <4>2. StatusOf(r, x) = "none" /\ StatusOf(s, x) = "pending"
        BY <1>4, <2>2, <3>2, <4>1, StatusCases
      <4>3. QED
        BY <4>2 DEF Moves
    <3>3. QED
      BY <1>1, <3>1, <3>2
  <2>3. CASE s.seen = Append(r.seen, Failed)
    <3>1. SeenShape(s.seen, k)
      BY <1>1, <2>3, NoticeFacts, ShapeAppend
    <3>2. /\ Len(s.seen) = Len(r.seen) + 1 /\ s.seen[Len(r.seen) + 1] = Failed /\ Len(r.seen) \in Nat
          /\ \A i \in 1 .. Len(r.seen) : s.seen[i] = r.seen[i]
      BY <1>1, <2>3, NoticeFacts, AppendFacts
    <3>3. k \in 0 .. Len(r.seen)
      BY DEF SeenShape
    <3>4. EndedIn(s.seen) /\ FirstIn(s.seen) = s.seen[k + 1]
      BY <1>1, <3>1, <3>2, <3>3, FirstSeen
    <3>5. CASE k = Len(r.seen)
      <4>1. FirstIn(s.seen) # Completed
        BY <3>2, <3>4, <3>5, NoticeFacts
      <4>2. StatusOf(s, x) = "rejected"
        BY <1>4, <3>4, <4>1, StatusCases
      <4>3. StatusOf(r, x) \in {"none", "pending"}
        BY <1>1, <1>4, <2>1, <3>2, <3>5, StatusCases
      <4>4. QED
        BY <4>2, <4>3 DEF Moves
    <3>6. CASE k < Len(r.seen)
      <4>1. FirstIn(s.seen) = r.seen[k + 1] /\ FirstIn(r.seen) = r.seen[k + 1] /\ EndedIn(r.seen)
        BY <1>1, <2>1, <3>2, <3>3, <3>4, <3>6, FirstSeen
      <4>2. r.made
        <5>1. ~r.made => Len(r.seen) = 0
          BY <1>1
        <5>2. QED
          BY <1>1, <3>3, <3>6, <5>1
      <4>3. StatusOf(s, x) = StatusOf(r, x)
        BY <1>4, <3>4, <4>1, <4>2, StatusCases
      <4>4. QED
        BY <4>3, StatusCases DEF Moves
    <3>7. QED
      BY <3>3, <3>5, <3>6
  <2>4. QED
    BY <2>2, <2>3 DEF Quiet
<1>5. QED
  BY <1>1, <1>2, <1>3, <1>4

LEMMA AnswersMoves ==
  ASSUME TypeOK, TypeOK', setup' = setup, NEW x \in Calls, NEW m \in Message, Answers(x, m), NEW y \in Calls
  PROVE  Moves(StatusOf(call[y], y), StatusOf(call'[y], y), server[y].state = "done")
<1>1. call[x] \in CallType /\ call'[x] \in CallType
  BY Fixed, Typed, TypedAfter
<1>2. CASE y # x
  <2>1. call'[y] = call[y]
    BY <1>2, AnswersFacts
  <2>2. StatusOf(call[y], y) \in {"none", "pending", "resolved", "rejected"}
    BY Typed, StatusCases
  <2>3. QED
    BY <2>1, <2>2 DEF Moves
<1>3. CASE y = x
  <2> DEFINE r == call[x]
             s == call'[x]
  <2>1. /\ r.made /\ PendingCall(r, x) /\ KindOf(x) # "send" /\ m.type \in {"StreamItem", "Completion"}
        /\ m.type = "StreamItem" => KindOf(x) = "stream"
        /\ m.type = "Completion" => server[x].state = "done"
    BY DEF Answers, DownWell
  <2>2. s.made /\ r.seen \in Seq(Notice)
    BY <2>1, AnswersFacts
  <2>3. StatusOf(r, x) = "pending"
    BY <1>1, <2>1, StatusCases DEF PendingCall
  <2>4. CASE m.type = "StreamItem"
    <3>1. s.seen = Append(r.seen, Item(m.n)) /\ Item(m.n) \in Notice
      BY <2>4, AnswersFacts
    <3> HIDE DEF r, s
    <3>2. ~EndedIn(s.seen)
      BY <2>1, <2>2, <2>4, <3>1, EndedByAppend, NoticeFacts DEF PendingCall
    <3>3. StatusOf(s, x) = "pending"
      BY <1>1, <2>1, <2>2, <2>4, <3>2, StatusCases DEF s
    <3>4. QED
      BY <1>3, <2>3, <3>3 DEF Moves, r, s
  <2>5. CASE m.type = "Completion"
    <3>1. StatusOf(s, x) \in {"resolved", "rejected"}
      <4>1. CASE KindOf(x) = "stream"
        <5>1. PICK what \in End : s.seen = Append(r.seen, what)
          BY <2>5, <4>1, AnswersFacts
        <5>2. what \in Notice
          BY DEF Notice
        <5>3. EndedIn(s.seen)
          BY <2>2, <5>1, <5>2, EndedByAppend
        <5>4. QED
          BY <1>1, <2>2, <4>1, <5>3, StatusCases
      <4>2. CASE KindOf(x) # "stream"
        BY <1>1, <2>2, <2>5, <4>2, AnswersFacts, StatusCases
      <4>3. QED
        BY <4>1, <4>2
    <3>2. QED
      BY <1>3, <2>1, <2>3, <2>5, <3>1 DEF Moves
  <2>6. QED
    BY <2>1, <2>4, <2>5
<1>4. QED
  BY <1>2, <1>3

LEMMA StatusMoves ==
  ASSUME SeenIndInv, TypeOK', CallSteps, setup' = setup, NEW x \in Calls
  PROVE  /\ Moves(Status(x), Status(x)', KindOf(x) = "send" \/ server[x].state = "done")
         /\ Status(x) \in {"none", "pending", "resolved", "rejected"}
         /\ Status(x)' \in {"none", "pending", "resolved", "rejected"}
<1> DEFINE may == KindOf(x) = "send" \/ server[x].state = "done"
<1>1. call[x] \in CallType /\ call'[x] \in CallType
  BY Fixed, Typed, TypedAfter DEF SeenIndInv, MessagesIndInv
<1>2. /\ StatusOf(call[x], x) \in {"none", "pending", "resolved", "rejected"}
      /\ StatusOf(call'[x], x) \in {"none", "pending", "resolved", "rejected"}
  BY <1>1, StatusCases
<1>3. ASSUME Quiet(call[x], call'[x], x) PROVE Moves(StatusOf(call[x], x), StatusOf(call'[x], x), may)
  <2>1. PICK k \in Nat : SeenShape(call[x].seen, k)
    BY DEF SeenIndInv, SeenInv, SeenWell
  <2>2. ~call[x].made => call[x].outcome = "pending" /\ call[x].seen = <<>>
    BY Typed DEF SeenIndInv, MessagesIndInv, ClientInv, IdsInv, Fresh
  <2>3. KindOf(x) = "send" => may
    OBVIOUS
  <2> HIDE DEF may
  <2>4. QED
    BY <1>1, <1>3, <2>1, <2>2, <2>3, QuietMoves
<1>4. ASSUME NEW y \in Calls, NEW m \in Message, Answers(y, m)
      PROVE  Moves(StatusOf(call[x], x), StatusOf(call'[x], x), may)
  <2>1. Moves(StatusOf(call[x], x), StatusOf(call'[x], x), server[x].state = "done")
    BY <1>4, AnswersMoves DEF SeenIndInv, MessagesIndInv
  <2>2. QED
    BY <2>1 DEF Moves
<1>5. Moves(StatusOf(call[x], x), StatusOf(call'[x], x), may)
  BY <1>3, <1>4 DEF CallSteps, AllQuiet
<1>6. QED
  BY <1>2, <1>5, StatusAfter

-----------------------------------------------------------------------------
(* Who changes what the server knows                                       *)

LEMMA RepliesStay ==
  ASSUME MessagesIndInv, NextSteps, ~ServerReceives
  PROVE  SameReplies
<1> USE DEF MessagesIndInv
<1>0. setup' = setup
  BY DEF NextSteps
<1>1. ASSUME NEW a \in Asks, NEW how \in {"value", "nothing", "throws"}, HandlerEnds(a, how)
      PROVE  SameReplies
  <2>1. ask[a].pc = "running"
        /\ \E r \in AskType : r.pc = "running" /\ r.replies = ask[a].replies /\ Ran(a, r)
    BY <1>1, HandlerFacts
  <2>2. QED
    BY <1>0, <2>1, RanAsks DEF SameReplies
<1>2. ASSUME ask' = ask PROVE SameReplies
  BY <1>2 DEF SameReplies
<1>3. ASSUME Receive PROVE SameReplies
  <2> DEFINE m == Head(net.down)
  <2>1. DownWell(m) /\ \/ m.type = "Completion" /\ Complete(m)
                       \/ m.type = "StreamItem" /\ StreamItem(m)
                       \/ m.type = "Invocation" /\ Invoke(m.of)
    BY <1>3, ReceiveFacts
  <2>2. CASE m.type = "Invocation" /\ Invoke(m.of)
    <3>1. m.of \in Asks /\ ask[m.of].pc = "coming"
      BY <2>1, <2>2 DEF DownWell
    <3>2. PICK r \in AskType : r.pc = "running" /\ r.replies = ask[m.of].replies /\ Ran(m.of, r)
      BY <2>2, <3>1, InvokeFacts
    <3> HIDE DEF m
    <3>3. QED
      BY <1>0, <3>1, <3>2, RanAsks DEF SameReplies
  <2>3. QED
    BY <1>2, <2>1, <2>2 DEF Complete, StreamItem
<1>4. ASSUME Close PROVE SameReplies
  <2>1. ask' = [a \in Asks |-> IF ask[a].pc = "coming" THEN [ask[a] EXCEPT !.pc = "done"] ELSE ask[a]]
    BY <1>4, CloseFacts
  <2>2. ASSUME NEW a \in Asks PROVE ask'[a].replies = ask[a].replies
    <3>1. ask[a] \in AskType
          /\ ask'[a] = IF ask[a].pc = "coming" THEN [ask[a] EXCEPT !.pc = "done"] ELSE ask[a]
      BY <2>1, Typed
    <3>2. QED
      BY <3>1 DEF AskType
  <2>3. QED
    BY <2>2 DEF SameReplies
<1>5. ASSUME NEW a \in Asks, ServerAsks(a) PROVE SameReplies
  <2>1. ask' = [ask EXCEPT ![a] = [ask[a] EXCEPT !.pc = "coming"]]
    BY <1>5, AsksFacts
  <2>2. ask'[a].replies = ask[a].replies /\ \A b \in Asks : b # a => ask'[b] = ask[b]
    BY <2>1, Typed DEF AskType
  <2>3. QED
    BY <2>2 DEF SameReplies
<1>6. QED
  BY <1>1, <1>2, <1>3, <1>4, <1>5 DEF NextSteps

LEMMA StatesStay ==
  ASSUME MessagesIndInv, NextSteps, ~ServerReceives,
         \A x \in Calls, ok \in BOOLEAN : ~ServerCompletes(x, ok)
  PROVE  SameStates
<1>1. ASSUME NEW x \in Calls, ServerYields(x) PROVE SameStates
  <2> DEFINE r == [server[x] EXCEPT !.items = server[x].items + 1]
  <2>1. server' = ServerWith(x, r) /\ server \in [Calls -> ServerType]
    BY <1>1, YieldsFacts, Typed DEF MessagesIndInv
  <2>2. r.state = server[x].state
    BY <2>1 DEF ServerType
  <2> HIDE DEF r
  <2>3. QED
    BY <2>1, <2>2 DEF ServerWith, SameStates
<1>2. ASSUME server' = server PROVE SameStates
  BY <1>2 DEF SameStates
<1>3. QED
  BY <1>1, <1>2 DEF NextSteps

LEMMA CompletesStops ==
  ASSUME TypeOK, NEW x \in Calls, NEW ok \in BOOLEAN, ServerCompletes(x, ok)
  PROVE  Stops(x) /\ call' = call /\ SameReplies
<1>1. /\ server[x].state = "running" /\ UNCHANGED <<hub, call, queue, ask, setup>>
      /\ server' = ServerWith(x, Done(x)) /\ server \in [Calls -> ServerType]
  BY CompletesFacts, Typed
<1>2. Done(x).state = "done"
  BY <1>1 DEF Done, ServerType
<1>3. QED
  BY <1>1, <1>2 DEF ServerWith, Stops, OtherStates, SameReplies

-----------------------------------------------------------------------------
(* Steps are steps of RemoteCalls                                          *)

LEMMA BoundFacts ==
  ASSUME setup \in Setups
  PROVE  Calls \subseteq 1 .. MaxCalls /\ Asks \subseteq 1 .. MaxAsks
<1>1. Setup(setup)
  BY SetupsAssumption
<1>2. Len(setup.calls) <= MaxCalls /\ setup.asks \in 0 .. MaxAsks
  BY <1>1 DEF Setup
<1>3. Len(setup.calls) \in Nat /\ Calls = 1 .. Len(setup.calls) /\ Asks = 1 .. setup.asks
  BY SetupFacts DEF Asks
<1>4. QED
  BY <1>2, <1>3, Bounds

LEMMA InitRemote == Init => Remote!Init
<1> SUFFICES ASSUME Init PROVE Remote!Init
  OBVIOUS
<1>1. /\ setup \in Setups /\ \A x \in Calls : ~call[x].made /\ server[x].state = "no"
      /\ \A a \in Asks : ask[a].replies = <<>>
  BY DEF Init
<1>2. Awaited \in SUBSET (1 .. MaxCalls) /\ Wanted \in SUBSET (1 .. MaxAsks)
  BY <1>1, BoundFacts DEF Awaited, Wanted
<1>3. Statuses = [c \in 1 .. MaxCalls |-> "none"]
  BY <1>1 DEF Statuses, Status
<1>4. Runs = [c \in 1 .. MaxCalls |-> "no"]
  BY <1>1 DEF Runs
<1>5. RepliesSent = [a \in 1 .. MaxAsks |-> 0]
  BY <1>1 DEF RepliesSent
<1>6. QED
  BY <1>2, <1>3, <1>4, <1>5 DEF Remote!Init

\* What stays when nothing is set up anew.
LEMMA FixedRemote ==
  ASSUME setup' = setup
  PROVE  /\ Awaited' = Awaited /\ Wanted' = Wanted
         /\ Statuses' = [c \in 1 .. MaxCalls |-> IF c \in Calls THEN Status(c)' ELSE "none"]
         /\ Runs' = [c \in 1 .. MaxCalls |-> IF c \in Calls THEN server'[c].state ELSE "no"]
         /\ RepliesSent' = [a \in 1 .. MaxAsks |-> IF a \in Asks THEN Len(ask'[a].replies) ELSE 0]
<1>1. Calls' = Calls /\ Asks' = Asks /\ \A c : KindOf(c)' = KindOf(c)
  BY Fixed
<1>2. QED
  BY <1>1 DEF Awaited, Wanted, Statuses, Runs, RepliesSent

LEMMA SettleStep ==
  ASSUME SeenIndInv, TypeOK', CallSteps, setup' = setup, SameStates, SameReplies
  PROVE  Remote!Settle
<1>0. Calls \subseteq 1 .. MaxCalls
  BY BoundFacts DEF SeenIndInv, MessagesIndInv, TypeOK
<1>1. /\ Awaited' = Awaited /\ Wanted' = Wanted
      /\ Statuses' = [c \in 1 .. MaxCalls |-> IF c \in Calls THEN Status(c)' ELSE "none"]
      /\ Runs' = Runs /\ RepliesSent' = RepliesSent
  BY FixedRemote DEF SameStates, SameReplies, Runs, RepliesSent
<1>2. ASSUME NEW c \in 1 .. MaxCalls
      PROVE  /\ Statuses'[c] \in {"none", "pending", "resolved", "rejected"}
             /\ Statuses'[c] \in Remote!MayBecome(c)
  <2>1. CASE c \in Calls
    <3>1. /\ Statuses[c] = Status(c) /\ Statuses'[c] = Status(c)' /\ Runs[c] = server[c].state
          /\ c \in Awaited <=> KindOf(c) # "send"
      BY <1>1, <2>1 DEF Statuses, Runs, Awaited
    <3>2. /\ Moves(Status(c), Status(c)', KindOf(c) = "send" \/ server[c].state = "done")
          /\ Status(c) \in {"none", "pending", "resolved", "rejected"}
          /\ Status(c)' \in {"none", "pending", "resolved", "rejected"}
      BY <2>1, StatusMoves
    <3>3. QED
      BY <3>1, <3>2 DEF Moves, Remote!MayBecome
  <2>2. CASE c \notin Calls
    <3>1. Statuses[c] = "none" /\ Statuses'[c] = "none"
      BY <1>1, <2>2 DEF Statuses
    <3>2. QED
      BY <3>1 DEF Remote!MayBecome
  <2>3. QED
    BY <2>1, <2>2
<1>3. Statuses' \in [1 .. MaxCalls -> {"none", "pending", "resolved", "rejected"}]
  BY <1>1, <1>2
<1>4. QED
  BY <1>1, <1>2, <1>3 DEF Remote!Settle

\* A step of the server only.
LEMMA ServerOnly ==
  ASSUME call' = call, setup' = setup
  PROVE  Awaited' = Awaited /\ Wanted' = Wanted /\ Statuses' = Statuses
<1>1. \A c \in Calls : Status(c)' = Status(c)
  BY StatusAfter
<1>2. QED
  BY <1>1, FixedRemote DEF Statuses

LEMMA SameRepliesSent ==
  ASSUME SameReplies, setup' = setup
  PROVE  RepliesSent' = RepliesSent
BY FixedRemote DEF SameReplies, RepliesSent

LEMMA RunStep ==
  ASSUME SeenIndInv, call' = call, setup' = setup, SameReplies, NEW x \in Calls, Begins(x)
  PROVE  Remote!Run
<1>0. Calls \subseteq 1 .. MaxCalls
  BY BoundFacts DEF SeenIndInv, MessagesIndInv, TypeOK
<1>1. Status(x) # "none"
  <2>1. call[x] \in CallType /\ call[x].made
    BY Typed DEF SeenIndInv, MessagesIndInv, Begins
  <2>2. call[x].outcome # "none"
    BY <2>1 DEF CallType
  <2>3. QED
    BY <2>1, <2>2, StatusCases, StatusAfter
<1>2. x \in {c \in 1 .. MaxCalls : Statuses[c] # "none" /\ Runs[c] = "no"}
  BY <1>0, <1>1 DEF Begins, Statuses, Runs
<1>3. Runs' = [c \in 1 .. MaxCalls |-> IF c \in {x} THEN "running" ELSE Runs[c]]
  BY <1>0, FixedRemote DEF Begins, OtherStates, Runs
<1>4. QED
  BY <1>2, <1>3, ServerOnly, SameRepliesSent DEF Remote!Run

LEMMA FinishStep ==
  ASSUME SeenIndInv, call' = call, setup' = setup, SameReplies, NEW x \in Calls, Stops(x)
  PROVE  x \in 1 .. MaxCalls /\ Remote!Finish(x)
<1>0. Calls \subseteq 1 .. MaxCalls
  BY BoundFacts DEF SeenIndInv, MessagesIndInv, TypeOK
<1>1. Runs[x] = "running"
  BY <1>0 DEF Stops, Runs
<1>2. Runs' = [Runs EXCEPT ![x] = "done"]
  BY <1>0, FixedRemote DEF Stops, OtherStates, Runs
<1>3. QED
  BY <1>0, <1>1, <1>2, ServerOnly, SameRepliesSent DEF Remote!Finish

LEMMA ReplyStep ==
  ASSUME SeenIndInv, call' = call, setup' = setup, SameStates, NEW a \in Asks, Replied(a)
  PROVE  a \in 1 .. MaxAsks /\ Remote!Reply(a)
<1>0. Asks \subseteq 1 .. MaxAsks
  BY BoundFacts DEF SeenIndInv, MessagesIndInv, TypeOK
<1>1. a \in Wanted /\ RepliesSent[a] = 0
  BY <1>0 DEF Replied, Wanted, RepliesSent
<1>2. RepliesSent' = [RepliesSent EXCEPT ![a] = 1]
  BY <1>0, FixedRemote DEF Replied, RepliesSent
<1>3. Runs' = Runs
  BY FixedRemote DEF SameStates, Runs
<1>4. QED
  BY <1>0, <1>1, <1>2, <1>3, ServerOnly DEF Remote!Reply

LEMMA StepRemote ==
  SeenIndInv /\ [Next]_vars => [Remote!Next]_(Remote!vars)
<1> SUFFICES ASSUME SeenIndInv, [Next]_vars PROVE [Remote!Next]_(Remote!vars)
  OBVIOUS
<1>1. SeenIndInv' /\ CallSteps /\ NextSteps /\ setup' = setup /\ TypeOK'
  BY NextSeenInd DEF SeenIndInv, MessagesIndInv, NextSteps
<1>2. ASSUME ServerReceives PROVE [Remote!Next]_(Remote!vars)
  <2>1. call' = call
    BY <1>2, ServerReceivesFacts DEF SeenIndInv, MessagesIndInv, ClientInv
  <2>2. \/ SameStates /\ SameReplies
        \/ SameReplies /\ \E x \in Calls : Begins(x) \/ Stops(x)
        \/ SameStates /\ \E a \in Asks : Replied(a)
    BY <1>2, ReceivesSteps DEF SeenIndInv, MessagesIndInv
  <2>3. CASE SameStates /\ SameReplies
    BY <1>1, <2>3, SettleStep DEF Remote!Next
  <2>4. CASE SameReplies /\ \E x \in Calls : Begins(x) \/ Stops(x)
    BY <1>1, <2>1, <2>4, RunStep, FinishStep DEF Remote!Next
  <2>5. CASE SameStates /\ \E a \in Asks : Replied(a)
    BY <1>1, <2>1, <2>5, ReplyStep DEF Remote!Next
  <2>6. QED
    BY <2>2, <2>3, <2>4, <2>5
<1>3. ASSUME NEW x \in Calls, NEW ok \in BOOLEAN, ServerCompletes(x, ok)
      PROVE  [Remote!Next]_(Remote!vars)
  <2>1. Stops(x) /\ call' = call /\ SameReplies
    BY <1>3, CompletesStops DEF SeenIndInv, MessagesIndInv
  <2>2. QED
    BY <1>1, <2>1, FinishStep DEF Remote!Next
<1>4. ASSUME ~ServerReceives, \A x \in Calls, ok \in BOOLEAN : ~ServerCompletes(x, ok)
      PROVE  [Remote!Next]_(Remote!vars)
  BY <1>1, <1>4, RepliesStay, StatesStay, SettleStep DEF SeenIndInv, Remote!Next
<1>5. QED
  BY <1>2, <1>3, <1>4

LEMMA SeenInvariant == Spec => []SeenIndInv
<1>1. SeenIndInv /\ [Next]_vars => SeenIndInv'
  BY NextSeenInd
<1>2. QED
  BY InitSeen, <1>1, PTL DEF Spec

\* What the page sees of send, invoke and stream, and the server of on(), is a
\* behaviour of RemoteCalls: a call runs at most once and settles at most once, with
\* success only if it ran to its end, although posts are lost, connections close and
\* come back and answers arrive late; an ask is answered at most once.
THEOREM CallsAreRemoteCalls == Spec => ImplementsRemoteCalls
<1>1. SeenIndInv /\ [Next]_vars => [Remote!Next]_(Remote!vars)
  BY StepRemote
<1>2. QED
  BY InitRemote, <1>1, SeenInvariant, PTL DEF Spec, ImplementsRemoteCalls

-----------------------------------------------------------------------------
(* What the server hears of a call                                         *)

\* A message that goes into heard.
Says(m, x) == m.of = x /\ m.type \in {"Invocation", "StreamItem", "Completion"}

\* h is what the server heard last on this connection, -1 if nothing; c is the last that
\* was said.  What is on its way comes without a gap, from h on if there is one.
WireWell(s, x, h, c) ==
  /\ h <= c
  /\ \A i \in DOMAIN s : Says(s[i], x) =>
       /\ h < s[i].n /\ s[i].n <= c
       /\ \A j \in DOMAIN s : j < i /\ Says(s[j], x) => s[j].n < s[i].n
       /\ \/ h = s[i].n - 1
          \/ \E j \in DOMAIN s : j < i /\ Says(s[j], x) /\ s[j].n = s[i].n - 1
          \/ h = -1 /\ \A j \in DOMAIN s : j < i => ~Says(s[j], x)

\* Nothing of the call went over this connection, or the last that was said did.
Blank(s, x, h) == h = -1 /\ \A i \in DOMAIN s : ~Says(s[i], x)
Reached(s, x, h, c) == h = c \/ \E i \in DOMAIN s : Says(s[i], x) /\ s[i].n = c

\* t is s with nothing lost that was said, or lost after what is kept.
KeepsFirst(s, t, f, x) ==
  \A i \in DOMAIN t : Says(t[i], x) =>
    \A j \in DOMAIN s : j < f[i] /\ Says(s[j], x) => \E k \in DOMAIN t : f[k] = j
KeepsAll(s, t, f, x) ==
  \A j \in DOMAIN s : Says(s[j], x) => \E k \in DOMAIN t : f[k] = j

LEMMA NumberFacts ==
  ASSUME NEW s \in Seq(Message), NEW i \in DOMAIN s
  PROVE  s[i] \in Message /\ s[i].n \in Nat /\ i \in Nat
<1>1. s[i] \in Message /\ i \in Nat
  BY ElementOfSeq, LenProperties
<1>2. QED
  BY <1>1 DEF Message

LEMMA WellPicks ==
  ASSUME NEW s \in Seq(Message), NEW t \in Seq(Message), NEW f, NEW x, NEW h \in Int, NEW c \in Int,
         Picks(s, t, f), KeepsFirst(s, t, f, x), WireWell(s, x, h, c)
  PROVE  WireWell(t, x, h, c)
<1>1. /\ \A i \in DOMAIN t : f[i] \in DOMAIN s /\ t[i] = s[f[i]] /\ f[i] \in Nat /\ i \in Nat
      /\ \A i, j \in DOMAIN t : i < j => f[i] < f[j]
  BY DEF Picks
<1>2. ASSUME NEW i \in DOMAIN t, NEW k \in DOMAIN t, f[k] < f[i] PROVE k < i
  <2>1. ~(i < k) /\ i # k
    BY <1>1, <1>2
  <2>2. QED
    BY <1>1, <2>1
<1>3. ASSUME NEW i \in DOMAIN t, Says(t[i], x)
      PROVE  /\ h < t[i].n /\ t[i].n <= c
             /\ \A j \in DOMAIN t : j < i /\ Says(t[j], x) => t[j].n < t[i].n
             /\ \/ h = t[i].n - 1
                \/ \E j \in DOMAIN t : j < i /\ Says(t[j], x) /\ t[j].n = t[i].n - 1
                \/ h = -1 /\ \A j \in DOMAIN t : j < i => ~Says(t[j], x)
  <2>1. f[i] \in DOMAIN s /\ t[i] = s[f[i]]
    BY <1>1
  <2>2. /\ h < s[f[i]].n /\ s[f[i]].n <= c
        /\ \A j \in DOMAIN s : j < f[i] /\ Says(s[j], x) => s[j].n < s[f[i]].n
        /\ \/ h = s[f[i]].n - 1
           \/ \E j \in DOMAIN s : j < f[i] /\ Says(s[j], x) /\ s[j].n = s[f[i]].n - 1
           \/ h = -1 /\ \A j \in DOMAIN s : j < f[i] => ~Says(s[j], x)
    BY <1>3, <2>1 DEF WireWell
  <2>3. ASSUME NEW j \in DOMAIN t, j < i, Says(t[j], x) PROVE t[j].n < t[i].n
    <3>1. f[j] \in DOMAIN s /\ f[j] < f[i] /\ t[j] = s[f[j]]
      BY <1>1, <2>3
    <3>2. QED
      BY <2>1, <2>2, <2>3, <3>1
  <2>4. CASE \E j \in DOMAIN s : j < f[i] /\ Says(s[j], x) /\ s[j].n = s[f[i]].n - 1
    <3>1. PICK j \in DOMAIN s : j < f[i] /\ Says(s[j], x) /\ s[j].n = s[f[i]].n - 1
      BY <2>4
    <3>2. PICK k \in DOMAIN t : f[k] = j
      BY <1>3, <3>1 DEF KeepsFirst
    <3>3. k < i /\ t[k] = s[j]
      BY <1>1, <1>2, <3>1, <3>2
    <3>4. QED
      BY <2>1, <2>2, <2>3, <3>1, <3>2, <3>3
  <2>5. CASE h = -1 /\ \A j \in DOMAIN s : j < f[i] => ~Says(s[j], x)
    <3>1. ASSUME NEW j \in DOMAIN t, j < i PROVE ~Says(t[j], x)
      <4>1. f[j] \in DOMAIN s /\ f[j] < f[i] /\ t[j] = s[f[j]]
        BY <1>1, <3>1
      <4>2. QED
        BY <2>5, <4>1
    <3>2. QED
      BY <2>1, <2>2, <2>3, <2>5, <3>1
  <2>6. QED
    BY <2>1, <2>2, <2>3, <2>4, <2>5
<1>4. h <= c
  BY DEF WireWell
<1>5. QED
  BY <1>3, <1>4 DEF WireWell

LEMMA ReachedPicks ==
  ASSUME NEW s, NEW t, NEW f, NEW x, NEW h, NEW c, Picks(s, t, f), KeepsAll(s, t, f, x)
  PROVE  /\ Reached(s, x, h, c) => Reached(t, x, h, c)
         /\ Blank(s, x, h) => Blank(t, x, h)
         /\ KeepsFirst(s, t, f, x)
<1>1. \A i \in DOMAIN t : f[i] \in DOMAIN s /\ t[i] = s[f[i]]
  BY DEF Picks
<1>2. ASSUME Reached(s, x, h, c), h # c PROVE Reached(t, x, h, c)
  <2>1. PICK j \in DOMAIN s : Says(s[j], x) /\ s[j].n = c
    BY <1>2 DEF Reached
  <2>2. PICK k \in DOMAIN t : f[k] = j
    BY <2>1 DEF KeepsAll
  <2>3. t[k] = s[j]
    BY <1>1, <2>2
  <2>4. QED
    BY <2>1, <2>2, <2>3 DEF Reached
<1>3. Blank(s, x, h) => Blank(t, x, h)
  BY <1>1 DEF Blank
<1>4. QED
  BY <1>2, <1>3 DEF Reached, KeepsAll, KeepsFirst

LEMMA WellAppend ==
  ASSUME NEW s \in Seq(Message), NEW m \in Message, NEW x, NEW h \in Int, NEW c \in Nat, NEW d \in Nat,
         Says(m, x), m.n = d, WireWell(s, x, h, c),
         \/ Blank(s, x, h)
         \/ Reached(s, x, h, c) /\ d = c + 1
  PROVE  LET t == Append(s, m) IN WireWell(t, x, h, d) /\ Reached(t, x, h, d)
<1> DEFINE t == Append(s, m)
           n == Len(s)
<1>1. /\ n \in Nat /\ DOMAIN s = 1 .. n /\ DOMAIN t = 1 .. n + 1 /\ t \in Seq(Message)
      /\ t[n + 1] = m /\ \A i \in 1 .. n : t[i] = s[i]
  BY AppendFacts
<1> HIDE DEF t, n
<1>2. h < d
  <2>1. CASE Blank(s, x, h)
    BY <2>1 DEF Blank
  <2>2. CASE d = c + 1
    BY <2>2 DEF WireWell
  <2>3. QED
    BY <2>1, <2>2
<1>3. \A i \in 1 .. n : Says(s[i], x) => s[i].n < d /\ s[i].n \in Nat
  <2>1. ASSUME NEW i \in 1 .. n, Says(s[i], x) PROVE s[i].n < d /\ s[i].n \in Nat
    <3>1. ~Blank(s, x, h) /\ s[i].n <= c /\ s[i].n \in Nat
      BY <1>1, <2>1, NumberFacts DEF Blank, WireWell
    <3>2. QED
      BY <3>1
  <2>2. QED
    BY <2>1
<1>4. ASSUME NEW i \in 1 .. n, Says(t[i], x)
      PROVE  /\ h < t[i].n /\ t[i].n <= d
             /\ \A j \in DOMAIN t : j < i /\ Says(t[j], x) => t[j].n < t[i].n
             /\ \/ h = t[i].n - 1
                \/ \E j \in DOMAIN t : j < i /\ Says(t[j], x) /\ t[j].n = t[i].n - 1
                \/ h = -1 /\ \A j \in DOMAIN t : j < i => ~Says(t[j], x)
  <2>1. /\ h < s[i].n /\ s[i].n <= c
        /\ \A j \in DOMAIN s : j < i /\ Says(s[j], x) => s[j].n < s[i].n
        /\ \/ h = s[i].n - 1
           \/ \E j \in DOMAIN s : j < i /\ Says(s[j], x) /\ s[j].n = s[i].n - 1
           \/ h = -1 /\ \A j \in DOMAIN s : j < i => ~Says(s[j], x)
    BY <1>1, <1>4 DEF WireWell
  <2>2. s[i].n <= d /\ t[i] = s[i]
    BY <1>1, <1>3, <1>4
  <2>3. \A j \in DOMAIN t : j < i => j \in DOMAIN s /\ t[j] = s[j]
    BY <1>1, <1>4
  <2>4. \A j \in DOMAIN s : j \in DOMAIN t /\ t[j] = s[j]
    BY <1>1
  <2>5. QED
    BY <2>1, <2>2, <2>3, <2>4
<1>5. /\ \A j \in DOMAIN t : j < n + 1 /\ Says(t[j], x) => t[j].n < d
      /\ \/ h = d - 1
         \/ \E j \in DOMAIN t : j < n + 1 /\ Says(t[j], x) /\ t[j].n = d - 1
         \/ h = -1 /\ \A j \in DOMAIN t : j < n + 1 => ~Says(t[j], x)
  <2>1. \A j \in DOMAIN t : j < n + 1 => j \in 1 .. n /\ t[j] = s[j]
    BY <1>1
  <2>2. CASE Blank(s, x, h)
    BY <1>1, <1>3, <2>1, <2>2 DEF Blank
  <2>3. CASE Reached(s, x, h, c) /\ d = c + 1
    <3>1. CASE h = c
      BY <1>3, <2>1, <2>3, <3>1
    <3>2. CASE \E i \in DOMAIN s : Says(s[i], x) /\ s[i].n = c
      <4>1. PICK i \in DOMAIN s : Says(s[i], x) /\ s[i].n = c
        BY <3>2
      <4>2. i \in DOMAIN t /\ i < n + 1 /\ t[i] = s[i]
        BY <1>1
      <4>3. t[i].n = d - 1
        BY <2>3, <4>1, <4>2
      <4>4. QED
        BY <1>3, <2>1, <4>1, <4>2, <4>3
    <3>3. QED
      BY <2>3, <3>1, <3>2 DEF Reached
  <2>4. QED
    BY <2>2, <2>3
<1>6. Reached(t, x, h, d)
  <2>1. n + 1 \in DOMAIN t
    BY <1>1
  <2>2. QED
    BY <1>1, <2>1 DEF Reached
<1>7. \A i \in DOMAIN t : i \in 1 .. n \/ (i = n + 1 /\ t[i].n = d)
  BY <1>1
<1>8. d <= d /\ h <= d
  BY <1>2
<1>9. WireWell(t, x, h, d)
  BY <1>2, <1>4, <1>5, <1>7, <1>8 DEF WireWell
<1>10. QED
  BY <1>6, <1>9 DEF t

LEMMA WellOther ==
  ASSUME NEW s \in Seq(Message), NEW m \in Message, NEW x, NEW h \in Int, NEW c \in Nat, ~Says(m, x)
  PROVE  LET t == Append(s, m) IN
         /\ WireWell(s, x, h, c) => WireWell(t, x, h, c)
         /\ Blank(s, x, h) => Blank(t, x, h)
         /\ Reached(s, x, h, c) => Reached(t, x, h, c)
<1> DEFINE t == Append(s, m)
           n == Len(s)
<1>1. /\ n \in Nat /\ DOMAIN s = 1 .. n /\ DOMAIN t = 1 .. n + 1
      /\ t[n + 1] = m /\ \A i \in 1 .. n : t[i] = s[i]
  BY AppendFacts
<1> HIDE DEF t, n
<1>2. \A i \in DOMAIN t : Says(t[i], x) => i \in DOMAIN s
  BY <1>1
<1>3. \A i \in DOMAIN s : i \in DOMAIN t /\ t[i] = s[i]
  BY <1>1
<1>4. ASSUME WireWell(s, x, h, c) PROVE WireWell(t, x, h, c)
  <2>1. ASSUME NEW i \in DOMAIN t, Says(t[i], x)
        PROVE  /\ h < t[i].n /\ t[i].n <= c
               /\ \A j \in DOMAIN t : j < i /\ Says(t[j], x) => t[j].n < t[i].n
               /\ \/ h = t[i].n - 1
                  \/ \E j \in DOMAIN t : j < i /\ Says(t[j], x) /\ t[j].n = t[i].n - 1
                  \/ h = -1 /\ \A j \in DOMAIN t : j < i => ~Says(t[j], x)
    <3>1. i \in DOMAIN s /\ t[i] = s[i]
      BY <1>2, <1>3, <2>1
    <3>2. /\ h < s[i].n /\ s[i].n <= c
          /\ \A j \in DOMAIN s : j < i /\ Says(s[j], x) => s[j].n < s[i].n
          /\ \/ h = s[i].n - 1
             \/ \E j \in DOMAIN s : j < i /\ Says(s[j], x) /\ s[j].n = s[i].n - 1
             \/ h = -1 /\ \A j \in DOMAIN s : j < i => ~Says(s[j], x)
      BY <1>4, <2>1, <3>1 DEF WireWell
    <3>3. QED
      BY <1>2, <1>3, <3>1, <3>2
  <2>2. QED
    BY <1>4, <2>1 DEF WireWell
<1>5. Blank(s, x, h) => Blank(t, x, h)
  BY <1>2, <1>3 DEF Blank
<1>6. Reached(s, x, h, c) => Reached(t, x, h, c)
  BY <1>3 DEF Reached
<1>7. QED
  BY <1>4, <1>5, <1>6 DEF t

\* The server hears the first, which is the next.
LEMMA WellHeard ==
  ASSUME NEW s \in Seq(Message), NEW t \in Seq(Message), NEW n \in Nat \ {0},
         DOMAIN s = 1 .. n, DOMAIN t = 1 .. n - 1, \A i \in DOMAIN t : t[i] = s[i + 1],
         NEW x, NEW h \in Int, NEW c \in Nat, Says(s[1], x), WireWell(s, x, h, c)
  PROVE  /\ h = -1 \/ s[1].n = h + 1
         /\ WireWell(t, x, s[1].n, c)
         /\ Blank(s, x, h) \/ Reached(s, x, h, c) => Reached(t, x, s[1].n, c)
<1> DEFINE g == s[1].n
<1>1. 1 \in DOMAIN s /\ g \in Nat /\ \A i \in DOMAIN s : s[i].n \in Nat
  BY NumberFacts
<1>2. g <= c /\ h < g
  BY <1>1 DEF WireWell
<1>3. h = -1 \/ g = h + 1
  <2>1. ~\E j \in DOMAIN s : j < 1
    OBVIOUS
  <2>2. h = g - 1 \/ h = -1
    BY <1>1, <2>1 DEF WireWell
  <2>3. QED
    BY <1>1, <2>2
<1>4. ASSUME NEW i \in DOMAIN t, Says(t[i], x)
      PROVE  /\ g < t[i].n /\ t[i].n <= c
             /\ \A j \in DOMAIN t : j < i /\ Says(t[j], x) => t[j].n < t[i].n
             /\ \/ g = t[i].n - 1
                \/ \E j \in DOMAIN t : j < i /\ Says(t[j], x) /\ t[j].n = t[i].n - 1
  <2>1. i + 1 \in DOMAIN s /\ t[i] = s[i + 1] /\ 1 < i + 1 /\ i \in Nat
    OBVIOUS
  <2> DEFINE k == i + 1
  <2>2. /\ h < s[k].n /\ s[k].n <= c
        /\ \A j \in DOMAIN s : j < k /\ Says(s[j], x) => s[j].n < s[k].n
        /\ \/ h = s[k].n - 1
           \/ \E j \in DOMAIN s : j < k /\ Says(s[j], x) /\ s[j].n = s[k].n - 1
           \/ h = -1 /\ \A j \in DOMAIN s : j < k => ~Says(s[j], x)
    BY <1>4, <2>1 DEF WireWell
  <2>3. g < s[k].n
    BY <1>1, <2>1, <2>2
  <2>4. \A j \in DOMAIN t : j < i => j + 1 \in DOMAIN s /\ j + 1 < k /\ t[j] = s[j + 1]
    OBVIOUS
  <2>5. g = s[k].n - 1 \/ \E j \in DOMAIN t : j < i /\ Says(t[j], x) /\ t[j].n = s[k].n - 1
    <3>1. CASE h = s[k].n - 1
      BY <1>1, <1>2, <2>1, <2>3, <3>1
    <3>2. CASE h = -1 /\ \A j \in DOMAIN s : j < k => ~Says(s[j], x)
      BY <1>1, <2>1, <3>2
    <3>3. CASE \E j \in DOMAIN s : j < k /\ Says(s[j], x) /\ s[j].n = s[k].n - 1
      <4>1. PICK j \in DOMAIN s : j < k /\ Says(s[j], x) /\ s[j].n = s[k].n - 1
        BY <3>3
      <4>2. CASE j = 1
        BY <4>1, <4>2
      <4>3. CASE j # 1
        <5>1. j - 1 \in DOMAIN t /\ j - 1 < i /\ t[j - 1] = s[j]
          <6>1. j - 1 \in 1 .. n - 1 /\ (j - 1) + 1 = j /\ j - 1 < i
            BY <2>1, <4>1, <4>3
          <6>2. QED
            BY <6>1
        <5>2. QED
          BY <4>1, <5>1
      <4>4. QED
        BY <4>2, <4>3
    <3>4. QED
      BY <2>2, <3>1, <3>2, <3>3
  <2>6. QED
    BY <2>1, <2>2, <2>3, <2>4, <2>5
<1>5. WireWell(t, x, g, c)
  BY <1>2, <1>4 DEF WireWell
<1>6. ~Blank(s, x, h)
  BY <1>1 DEF Blank
<1>7. ASSUME Reached(s, x, h, c) PROVE Reached(t, x, g, c)
  <2>1. h # c
    BY <1>1, <1>2
  <2>2. PICK i \in DOMAIN s : Says(s[i], x) /\ s[i].n = c
    BY <1>7, <2>1 DEF Reached
  <2>3. CASE i = 1
    BY <2>2, <2>3 DEF Reached
  <2>4. CASE i # 1
    <3>1. i - 1 \in DOMAIN t /\ t[i - 1] = s[i]
      <4>1. i - 1 \in 1 .. n - 1 /\ (i - 1) + 1 = i
        BY <2>4
      <4>2. QED
        BY <4>1
    <3>2. QED
      BY <2>2, <3>1 DEF Reached
  <2>5. QED
    BY <2>3, <2>4
<1>8. QED
  BY <1>3, <1>5, <1>6, <1>7

LEMMA WellNotHeard ==
  ASSUME NEW s \in Seq(Message), NEW t \in Seq(Message), NEW n \in Nat \ {0},
         DOMAIN s = 1 .. n, DOMAIN t = 1 .. n - 1, \A i \in DOMAIN t : t[i] = s[i + 1],
         NEW x, NEW h \in Int, NEW c \in Nat, ~Says(s[1], x)
  PROVE  /\ WireWell(s, x, h, c) => WireWell(t, x, h, c)
         /\ Blank(s, x, h) => Blank(t, x, h)
         /\ Reached(s, x, h, c) => Reached(t, x, h, c)
<1> DEFINE f == [i \in 1 .. n - 1 |-> i + 1]
<1>1. Picks(s, t, f)
  BY DEF Picks
<1>2. KeepsAll(s, t, f, x)
  <2>1. ASSUME NEW j \in DOMAIN s, Says(s[j], x) PROVE \E k \in DOMAIN t : f[k] = j
    <3>1. j # 1
      BY <2>1
    <3>2. j - 1 \in 1 .. n - 1 /\ f[j - 1] = j
      BY <3>1
    <3>3. QED
      BY <3>2
  <2>2. QED
    BY <2>1 DEF KeepsAll
<1> HIDE DEF f
<1>3. KeepsFirst(s, t, f, x)
  BY <1>2 DEF KeepsAll, KeepsFirst
<1>4. c \in Int
  OBVIOUS
<1>5. WireWell(s, x, h, c) => WireWell(t, x, h, c)
  BY <1>1, <1>3, <1>4, WellPicks
<1>6. QED
  BY <1>1, <1>2, <1>5, ReachedPicks

-----------------------------------------------------------------------------
(* What a call has said and not sent                                       *)

Ways == {"flight", "buffer"}
Line(q, w) == IF w = "flight" THEN q.flight ELSE q.buffer

\* promiseQueue: one message of a call waits to be sent, the last that was said.
OutWell(q, r, x) ==
  \A l, k \in Life, w, v \in Ways : \A i \in DOMAIN Line(q[l], w), j \in DOMAIN Line(q[k], v) :
    Says(Line(q[l], w)[i], x) =>
      /\ r.chain = "waiting" /\ Line(q[l], w)[i].n = r.chained
      /\ Says(Line(q[k], v)[j], x) => l = k /\ w = v /\ i = j
NoneOut(q, x) == \A l \in Life, w \in Ways : \A i \in DOMAIN Line(q[l], w) : ~Says(Line(q[l], w)[i], x)

SameLines(q, p) == \A l \in Life, w \in Ways : Line(p[l], w) = Line(q[l], w)
OtherLines(q, p, l) == \A k \in Life, w \in Ways : k # l => Line(p[k], w) = Line(q[k], w)
SameChain(r, s) == s.chain = r.chain /\ s.chained = r.chained

\* What p says, q says in the same place.
LinesIn(q, p, x) ==
  \A k \in Life, v \in Ways : \A i \in DOMAIN Line(p[k], v) : Says(Line(p[k], v)[i], x) =>
    i \in DOMAIN Line(q[k], v) /\ Line(p[k], v)[i] = Line(q[k], v)[i]

LEMMA OutOnce ==
  ASSUME NEW q, NEW r, NEW x, OutWell(q, r, x), NEW l \in Life, NEW k \in Life, NEW w \in Ways, NEW v \in Ways,
         NEW i \in DOMAIN Line(q[l], w), NEW j \in DOMAIN Line(q[k], v),
         Says(Line(q[l], w)[i], x), Says(Line(q[k], v)[j], x)
  PROVE  l = k /\ w = v /\ i = j
BY DEF OutWell

LEMMA OnlyOut ==
  ASSUME NEW q, NEW r, NEW x, OutWell(q, r, x), NEW l \in Life, NEW w \in Ways,
         NEW i \in DOMAIN Line(q[l], w), Says(Line(q[l], w)[i], x),
         NEW k \in Life, NEW v \in Ways, k # l \/ v # w,
         NEW j \in DOMAIN Line(q[k], v)
  PROVE  ~Says(Line(q[k], v)[j], x)
BY OutOnce

LEMMA OutSub ==
  ASSUME NEW q, NEW p, NEW r, NEW s, NEW x, OutWell(q, r, x), LinesIn(q, p, x), SameChain(r, s)
  PROVE  OutWell(p, s, x)
<1>1. ASSUME NEW a \in Life, NEW b \in Life, NEW w \in Ways, NEW v \in Ways,
             NEW i \in DOMAIN Line(p[a], w), NEW j \in DOMAIN Line(p[b], v), Says(Line(p[a], w)[i], x)
      PROVE  /\ s.chain = "waiting" /\ Line(p[a], w)[i].n = s.chained
             /\ Says(Line(p[b], v)[j], x) => a = b /\ w = v /\ i = j
  <2>1. i \in DOMAIN Line(q[a], w) /\ Line(p[a], w)[i] = Line(q[a], w)[i]
    BY <1>1 DEF LinesIn
  <2>2. Says(Line(p[b], v)[j], x) =>
          j \in DOMAIN Line(q[b], v) /\ Line(p[b], v)[j] = Line(q[b], v)[j]
    BY DEF LinesIn
  <2>3. s.chain = "waiting" /\ Line(p[a], w)[i].n = s.chained
    BY <1>1, <2>1 DEF OutWell, SameChain
  <2>4. ASSUME Says(Line(p[b], v)[j], x) PROVE a = b /\ w = v /\ i = j
    BY <1>1, <2>1, <2>2, <2>4, OutOnce
  <2>5. QED
    BY <2>3, <2>4
<1>2. QED
  BY <1>1 DEF OutWell

LEMMA OutSame ==
  ASSUME NEW q, NEW p, NEW r, NEW s, NEW x, OutWell(q, r, x), SameLines(q, p), SameChain(r, s)
  PROVE  OutWell(p, s, x)
BY DEF OutWell, SameLines, SameChain

LEMMA OutNone ==
  ASSUME NEW q, NEW p, NEW s, NEW x, NoneOut(q, x), SameLines(q, p)
  PROVE  OutWell(p, s, x)
BY DEF OutWell, NoneOut, SameLines

LEMMA NotWaiting ==
  ASSUME NEW q, NEW r, NEW x, OutWell(q, r, x), r.chain # "waiting"
  PROVE  NoneOut(q, x)
BY DEF OutWell, NoneOut

LEMMA OutClears ==
  ASSUME NEW q, NEW p, NEW r, NEW s, NEW x, OutWell(q, r, x), NEW l \in Life, NEW w \in Ways,
         Line(p[l], w) = <<>>, s.chained = r.chained,
         \A k \in Life, v \in Ways : k # l \/ v # w => Line(p[k], v) = Line(q[k], v),
         s.chain = r.chain \/ \E i \in DOMAIN Line(q[l], w) : Says(Line(q[l], w)[i], x)
  PROVE  OutWell(p, s, x)
<1>0. \A i : i \notin DOMAIN <<>>
  OBVIOUS
<1>1. \A i : i \notin DOMAIN Line(p[l], w)
  BY <1>0
<1>2. CASE s.chain = r.chain
  <2>1. LinesIn(q, p, x)
    BY <1>1 DEF LinesIn
  <2>2. SameChain(r, s)
    BY <1>2 DEF SameChain
  <2>3. QED
    BY <2>1, <2>2, OutSub
<1>3. CASE \E i \in DOMAIN Line(q[l], w) : Says(Line(q[l], w)[i], x)
  <2>0. PICK i \in DOMAIN Line(q[l], w) : Says(Line(q[l], w)[i], x)
    BY <1>3
  <2>1. ASSUME NEW k \in Life, NEW v \in Ways, k # l \/ v # w, NEW j \in DOMAIN Line(q[k], v)
        PROVE  ~Says(Line(q[k], v)[j], x)
    BY <2>0, <2>1, OnlyOut
  <2>2. NoneOut(p, x)
    BY <1>1, <2>1 DEF NoneOut
  <2>3. SameLines(p, p)
    BY DEF SameLines
  <2>4. QED
    BY <2>2, <2>3, OutNone
<1>4. QED
  BY <1>2, <1>3

LEMMA OutTakes ==
  ASSUME NEW q, NEW p, NEW r, NEW s, NEW x, OutWell(q, r, x), NEW l \in Life, OtherLines(q, p, l),
         q[l].flight = <<>>, p[l].buffer = <<>>, p[l].flight = q[l].buffer, SameChain(r, s)
  PROVE  OutWell(p, s, x)
<1>1. /\ Line(q[l], "flight") = <<>> /\ Line(p[l], "buffer") = <<>>
      /\ Line(p[l], "flight") = Line(q[l], "buffer") /\ "buffer" \in Ways /\ "flight" \in Ways
  BY DEF Line, Ways
<1>2. \A w \in Ways : w = "flight" \/ w = "buffer"
  BY DEF Ways
<1> DEFINE From(k, w) == IF k = l THEN "buffer" ELSE w
<1>3. \A k \in Life, w \in Ways : \A i \in DOMAIN Line(p[k], w) :
        /\ i \in DOMAIN Line(q[k], From(k, w)) /\ Line(p[k], w)[i] = Line(q[k], From(k, w))[i]
        /\ From(k, w) \in Ways /\ (k = l => w = "flight")
  BY <1>1, <1>2 DEF OtherLines
<1>4. \A k \in Life, w, v \in Ways :
        DOMAIN Line(p[k], w) # {} /\ DOMAIN Line(p[k], v) # {} /\ From(k, w) = From(k, v) => w = v
  BY <1>1, <1>2
<1> HIDE DEF From
<1>5. ASSUME NEW a \in Life, NEW b \in Life, NEW w \in Ways, NEW v \in Ways,
             NEW i \in DOMAIN Line(p[a], w), NEW j \in DOMAIN Line(p[b], v), Says(Line(p[a], w)[i], x)
      PROVE  /\ s.chain = "waiting" /\ Line(p[a], w)[i].n = s.chained
             /\ Says(Line(p[b], v)[j], x) => a = b /\ w = v /\ i = j
  <2>1. /\ i \in DOMAIN Line(q[a], From(a, w)) /\ Line(p[a], w)[i] = Line(q[a], From(a, w))[i]
        /\ From(a, w) \in Ways
        /\ j \in DOMAIN Line(q[b], From(b, v)) /\ Line(p[b], v)[j] = Line(q[b], From(b, v))[j]
        /\ From(b, v) \in Ways
    BY <1>3
  <2>2. /\ r.chain = "waiting" /\ Line(q[a], From(a, w))[i].n = r.chained
        /\ Says(Line(q[b], From(b, v))[j], x) => a = b /\ From(a, w) = From(b, v) /\ i = j
    BY <1>5, <2>1 DEF OutWell
  <2>3. QED
    BY <1>4, <2>1, <2>2 DEF SameChain
<1>6. QED
  BY <1>5 DEF OutWell

LEMMA OutAppends ==
  ASSUME NEW q, NEW p, NEW r, NEW s, NEW x, OutWell(q, r, x), NEW l \in Life, NEW m \in Message,
         q[l].buffer \in Seq(Message),
         OtherLines(q, p, l), p[l].flight = q[l].flight, p[l].buffer = Append(q[l].buffer, m),
         IF Says(m, x) THEN NoneOut(q, x) /\ s.chain = "waiting" /\ m.n = s.chained
         ELSE SameChain(r, s)
  PROVE  OutWell(p, s, x)
<1> DEFINE n == Len(q[l].buffer)
<1>1. /\ n \in Nat /\ DOMAIN q[l].buffer = 1 .. n /\ DOMAIN p[l].buffer = 1 .. n + 1
      /\ p[l].buffer[n + 1] = m /\ \A i \in 1 .. n : p[l].buffer[i] = q[l].buffer[i]
  BY AppendFacts
<1> HIDE DEF n
<1>2. ASSUME NEW k \in Life, NEW w \in Ways, NEW i \in DOMAIN Line(p[k], w)
      PROVE  \/ i \in DOMAIN Line(q[k], w) /\ Line(p[k], w)[i] = Line(q[k], w)[i]
             \/ k = l /\ w = "buffer" /\ i = n + 1 /\ Line(p[k], w)[i] = m
  <2>1. CASE k # l
    BY <2>1 DEF OtherLines
  <2>2. CASE k = l /\ w = "flight"
    BY <2>2 DEF Line
  <2>3. CASE k = l /\ w = "buffer"
    BY <1>1, <2>3 DEF Line
  <2>4. QED
    BY <2>1, <2>2, <2>3 DEF Ways
<1>3. CASE Says(m, x)
  <2>1. \A k \in Life, w \in Ways : \A i \in DOMAIN Line(p[k], w) : Says(Line(p[k], w)[i], x) =>
          k = l /\ w = "buffer" /\ i = n + 1 /\ Line(p[k], w)[i] = m
    BY <1>2, <1>3 DEF NoneOut
  <2>2. s.chain = "waiting" /\ m.n = s.chained
    BY <1>3
  <2>3. ASSUME NEW a \in Life, NEW b \in Life, NEW w \in Ways, NEW v \in Ways,
               NEW i \in DOMAIN Line(p[a], w), NEW j \in DOMAIN Line(p[b], v), Says(Line(p[a], w)[i], x)
        PROVE  /\ s.chain = "waiting" /\ Line(p[a], w)[i].n = s.chained
               /\ Says(Line(p[b], v)[j], x) => a = b /\ w = v /\ i = j
    <3>1. a = l /\ w = "buffer" /\ i = n + 1 /\ Line(p[a], w)[i] = m
      BY <2>1, <2>3
    <3>2. Says(Line(p[b], v)[j], x) => b = l /\ v = "buffer" /\ j = n + 1
      BY <2>1
    <3>3. QED
      BY <2>2, <3>1, <3>2
  <2>4. QED
    BY <2>3 DEF OutWell
<1>4. CASE ~Says(m, x)
  <2>1. LinesIn(q, p, x)
    BY <1>2, <1>4 DEF LinesIn
  <2>2. SameChain(r, s)
    BY <1>4
  <2>3. QED
    BY <2>1, <2>2, OutSub
<1>5. QED
  BY <1>3, <1>4

\* Only what a batch says settles what waits for it.
LEMMA SettlesChain ==
  ASSUME NEW c \in ClientType, NEW d, NEW batch, NEW ok \in BOOLEAN, Settles(c, d, batch, ok),
         NEW x \in Calls
  PROVE  /\ d.call[x].chained = c.call[x].chained
         /\ d.call[x].chain = c.call[x].chain \/ \E i \in DOMAIN batch : Says(batch[i], x)
         /\ ~ok /\ d.call[x].chain # "broken" =>
              \/ d.call[x].chain = c.call[x].chain /\ \A i \in DOMAIN batch : ~Says(batch[i], x)
              \/ \A i \in DOMAIN batch : Says(batch[i], x) => batch[i].type = "Invocation"
<1> DEFINE r == c.call[x]
           s == d.call[x]
<1>1. r \in CallType /\ s = AfterSend(r, x, batch, ok)
  BY ClientFields DEF Settles
<1> HIDE DEF r, s
<1>2. /\ s.chained = r.chained
      /\ s.chain = IF Uploaded(batch, x) \/ (Called(batch, x) /\ KindOf(x) = "send")
                   THEN (IF ok THEN "ready" ELSE "broken")
                   ELSE IF Called(batch, x) THEN "ready" ELSE r.chain
  BY <1>1, AfterSendFacts
<1>3. Uploaded(batch, x) \/ Called(batch, x) <=> \E i \in DOMAIN batch : Says(batch[i], x)
  BY DEF Uploaded, Called, Has, Says
<1>4. ~Uploaded(batch, x) => \A i \in DOMAIN batch : Says(batch[i], x) => batch[i].type = "Invocation"
  BY DEF Uploaded, Has, Says
<1>5. QED
  BY <1>2, <1>3, <1>4 DEF r, s

-----------------------------------------------------------------------------
(* What the server hears comes in its order                                *)

\* What the server heard last of a call on this connection.
LastHeard(x) ==
  LET heard == server[x].heard   n == Len(server[x].heard)
  IN IF heard # <<>> /\ heard[n][1] = hub.life THEN heard[n][2] ELSE -1

\* What is in flight came last on the network, as far as it was not heard yet.
Flown(up, flight) ==
  \A i \in DOMAIN up : i > Len(up) - Len(flight) => up[i] = flight[i - Len(up) + Len(flight)]
FlightInv == hub.connected => Flown(net.up, queue[hub.life].flight)

\* A call says one thing after the other, and unless its chain is broken nothing of
\* what it said on this connection was lost.
GoesWell(x) ==
  /\ WireWell(Wire, x, LastHeard(x), call[x].chained)
  /\ hub.connected /\ call[x].chain # "broken" =>
       Blank(Wire, x, LastHeard(x)) \/ Reached(Wire, x, LastHeard(x), call[x].chained)
TalkWell(x) == OutWell(queue, call[x], x) /\ GoesWell(x)
SpeechInv == FlightInv /\ \A x \in Calls : TalkWell(x)

LivesWell(x) == \A i \in DOMAIN server[x].heard : server[x].heard[i][1] <= hub.life
GapWell(x) ==
  LET heard == server[x].heard
  IN \A i \in DOMAIN heard \ {1} : heard[i][1] = heard[i - 1][1] => heard[i][2] = heard[i - 1][2] + 1
HeardInv == \A x \in Calls : LivesWell(x) /\ GapWell(x)

SameHeard == \A x \in Calls : server'[x].heard = server[x].heard

LEMMA LastFacts ==
  ASSUME TypeOK, NEW x \in Calls
  PROVE  /\ LastHeard(x) \in Int /\ LastHeard(x) >= -1
         /\ call[x].chained \in Nat /\ call[x].chained \in Int
         /\ server[x].heard = <<>> => LastHeard(x) = -1
         /\ hub.life \in Life /\ hub.life \in Nat /\ hub.connected \in BOOLEAN
         /\ Wire \in Seq(Message)
<1> DEFINE heard == server[x].heard
           n == Len(heard)
<1>1. heard \in Seq(Life \X Nat) /\ call[x] \in CallType
  BY Typed DEF ServerType
<1> HIDE DEF heard
<1>2. heard # <<>> => heard[n] \in Life \X Nat
  <2>1. heard # <<>> => n \in 1 .. Len(heard)
    BY <1>1, EmptySeq, LenProperties
  <2>2. QED
    BY <1>1, <2>1, ElementOfSeq
<1>3. heard # <<>> => heard[n][2] \in Nat
  BY <1>2
<1>4. LastHeard(x) \in Nat \/ LastHeard(x) = -1
  BY <1>3 DEF LastHeard, heard
<1>5. heard = <<>> => LastHeard(x) = -1
  BY DEF LastHeard, heard
<1>6. hub.life \in Life /\ hub.connected \in BOOLEAN /\ Wire \in Seq(Message) /\ call[x].chained \in Nat
  BY <1>1, Typed, WireFacts DEF HubType, CallType
<1>7. hub.life \in Nat
  BY <1>6, Bounds DEF Life
<1>8. LastHeard(x) \in Int /\ LastHeard(x) >= -1
  BY <1>4
<1>9. QED
  BY <1>5, <1>6, <1>7, <1>8 DEF heard

LEMMA SameLast ==
  ASSUME hub'.life = hub.life, NEW x, server'[x].heard = server[x].heard
  PROVE  LastHeard(x)' = LastHeard(x)
BY DEF LastHeard

LEMMA EmptyWell ==
  ASSUME NEW x, NEW h, NEW c, h <= c
  PROVE  WireWell(<<>>, x, h, c) /\ (h = -1 => Blank(<<>>, x, h))
<1>1. \A i : i \notin DOMAIN <<>>
  OBVIOUS
<1>2. QED
  BY <1>1 DEF WireWell, Blank

LEMMA HeardStays ==
  ASSUME TypeOK, NextSteps, ~ServerReceives
  PROVE  SameHeard
<1>1. ASSUME NEW y \in Calls, ServerYields(y), NEW x \in Calls
      PROVE  server'[x].heard = server[x].heard
  <2>1. server' = ServerWith(y, [server[y] EXCEPT !.items = server[y].items + 1])
    BY <1>1, YieldsFacts
  <2>2. QED
    BY <2>1, Typed DEF ServerWith, ServerType
<1>2. ASSUME NEW y \in Calls, NEW ok \in BOOLEAN, ServerCompletes(y, ok), NEW x \in Calls
      PROVE  server'[x].heard = server[x].heard
  <2>1. server' = ServerWith(y, Done(y))
    BY <1>2, CompletesFacts
  <2>2. QED
    BY <2>1, Typed DEF ServerWith, ServerType, Done
<1>3. QED
  BY <1>1, <1>2 DEF NextSteps, SameHeard

-----------------------------------------------------------------------------
(* Steps that send nothing                                                 *)

LEMMA SameFlight ==
  ASSUME FlightInv, hub'.connected => hub.connected, hub'.life = hub.life, net'.up = net.up,
         queue'[hub.life].flight = queue[hub.life].flight
  PROVE  FlightInv'
BY DEF FlightInv

LEMMA NoFlight ==
  ASSUME NEW up \in Seq(Message)
  PROVE  Flown(up, <<>>) /\ \A s \in Seq(Message) : Flown(<<>>, s)
<1>1. DOMAIN up = 1 .. Len(up) /\ Len(up) \in Nat
  BY LenProperties
<1>2. \A i \in DOMAIN up : ~(i > Len(up) - 0)
  BY <1>1
<1>3. \A i : i \notin DOMAIN <<>>
  OBVIOUS
<1>4. Len(<<>>) = 0
  OBVIOUS
<1>5. Flown(up, <<>>)
  BY <1>2, <1>4 DEF Flown
<1>6. QED
  BY <1>3, <1>5 DEF Flown

\* Steps that leave the lines, the chains and the wire alone.
LEMMA QuietTalk ==
  ASSUME SpeechInv, setup' = setup, queue' = queue, net'.up = net.up, SameHeard,
         hub'.connected <=> hub.connected, hub'.life = hub.life,
         \A x \in Calls : SameChain(call[x], call'[x])
  PROVE  SpeechInv'
<1>1. FlightInv'
  BY SameFlight DEF SpeechInv
<1>2. Wire' = Wire
  BY QuietWire
<1>3. ASSUME NEW x \in Calls PROVE TalkWell(x)'
  <2>1. TalkWell(x) /\ SameChain(call[x], call'[x])
    BY DEF SpeechInv
  <2>2. LastHeard(x)' = LastHeard(x)
    BY SameLast DEF SameHeard
  <2>3. SameLines(queue, queue')
    BY DEF SameLines
  <2>4. OutWell(queue', call'[x], x)
    BY <2>1, <2>3, OutSame DEF TalkWell
  <2>5. GoesWell(x)'
    BY <1>2, <2>1, <2>2 DEF TalkWell, GoesWell, SameChain
  <2>6. QED
    BY <2>4, <2>5 DEF TalkWell
<1>4. Calls' = Calls
  BY Fixed
<1>5. QED
  BY <1>1, <1>3, <1>4 DEF SpeechInv

-----------------------------------------------------------------------------
(* Steps that send                                                         *)

\* What is sent of a call is the next it has to say.
SaysNext(c, m) ==
  \A x \in Calls :
    IF Says(m, x)
    THEN /\ NoneOut(queue, x) /\ c.call[x].chain = "waiting" /\ m.n = c.call[x].chained
         /\ call[x].chained <= m.n
         /\ hub.connected => \/ Blank(Wire, x, LastHeard(x))
                             \/ /\ Reached(Wire, x, LastHeard(x), call[x].chained)
                                /\ m.n = call[x].chained + 1
    ELSE SameChain(call[x], c.call[x])

LEMMA SendsLine ==
  ASSUME TypeOK, hub.connected, NEW m \in Message,
         LET q == queue[hub.life]
         IN queue' = [queue EXCEPT ![hub.life] = [q EXCEPT !.buffer = Append(q.buffer, m)]]
  PROVE  /\ OtherLines(queue, queue', hub.life)
         /\ queue'[hub.life].flight = queue[hub.life].flight
         /\ queue'[hub.life].buffer = Append(queue[hub.life].buffer, m)
         /\ hub.life \in Life /\ queue[hub.life].buffer \in Seq(Message)
<1> DEFINE l == hub.life
           q == queue[l]
           p == [q EXCEPT !.buffer = Append(q.buffer, m)]
<1>1. l \in Life /\ q \in QueueType
  BY Typed DEF HubType
<1>2. p.flight = q.flight /\ p.buffer = Append(q.buffer, m)
  BY <1>1 DEF QueueType
<1>3. queue' = [queue EXCEPT ![l] = p]
  OBVIOUS
<1> HIDE DEF p
<1>4. queue'[l] = p /\ \A k \in Life : k # l => queue'[k] = queue[k]
  BY <1>1, <1>3, Typed
<1>5. q.buffer \in Seq(Message)
  BY <1>1 DEF QueueType
<1>6. QED
  BY <1>1, <1>2, <1>4, <1>5 DEF OtherLines

LEMMA SendsAppend ==
  ASSUME TypeOK, hub.connected, hub'.connected, hub'.life = hub.life, net'.up = net.up, NEW m \in Message,
         queue'[hub.life].buffer = Append(queue[hub.life].buffer, m)
  PROVE  Wire' = Append(Wire, m)
<1> DEFINE up == net.up
           b == queue[hub.life].buffer
<1>1. up \in Seq(Message) /\ b \in Seq(Message) /\ <<m>> \in Seq(Message)
  BY WireFacts
<1>2. Wire = up \o b /\ Wire' = up \o Append(b, m)
  BY DEF Wire
<1> HIDE DEF up, b
<1>3. Append(b, m) = b \o <<m>>
  BY <1>1, AppendIsConcat
<1>4. up \o b \in Seq(Message)
  BY <1>1, ConcatProperties
<1>5. Append(up \o b, m) = (up \o b) \o <<m>>
  BY <1>4, AppendIsConcat
<1>6. (up \o b) \o <<m>> = up \o (b \o <<m>>)
  BY <1>1, ConcatAssociative
<1>7. QED
  BY <1>2, <1>3, <1>5, <1>6

\* A call that has said all there is on the wire says the next.
LEMMA SaysOn ==
  ASSUME TypeOK, NEW x \in Calls, TalkWell(x), NEW m \in Message, NEW s, Wire' = Append(Wire, m),
         hub'.connected <=> hub.connected, LastHeard(x)' = LastHeard(x), SameChain(s, call'[x]),
         Says(m, x), m.n = s.chained,
         \/ Blank(Wire, x, LastHeard(x))
         \/ Reached(Wire, x, LastHeard(x), call[x].chained) /\ m.n = call[x].chained + 1
  PROVE  GoesWell(x)'
<1> DEFINE h == LastHeard(x)
           c == call[x].chained
<1>1. h \in Int /\ c \in Nat /\ Wire \in Seq(Message) /\ m.n \in Nat
  BY LastFacts DEF Message
<1>2. WireWell(Wire, x, h, c)
  BY DEF TalkWell, GoesWell
<1>3. Blank(Wire, x, h) \/ (Reached(Wire, x, h, c) /\ m.n = c + 1)
  OBVIOUS
<1> HIDE DEF h, c
<1>4. WireWell(Append(Wire, m), x, h, m.n) /\ Reached(Append(Wire, m), x, h, m.n)
  BY <1>1, <1>2, <1>3, WellAppend
<1>5. call'[x].chained = m.n
  BY DEF SameChain
<1>6. QED
  BY <1>4, <1>5 DEF GoesWell, h

\* Another message.
LEMMA SaysNothing ==
  ASSUME TypeOK, NEW x \in Calls, TalkWell(x), NEW m \in Message, Wire' = Append(Wire, m),
         hub'.connected <=> hub.connected, LastHeard(x)' = LastHeard(x), SameChain(call[x], call'[x]),
         ~Says(m, x)
  PROVE  GoesWell(x)'
<1> DEFINE h == LastHeard(x)
           c == call[x].chained
<1>1. h \in Int /\ c \in Nat /\ Wire \in Seq(Message)
  BY LastFacts
<1>2. WireWell(Wire, x, h, c)
  BY DEF TalkWell, GoesWell
<1>3. hub.connected /\ call[x].chain # "broken" => Blank(Wire, x, h) \/ Reached(Wire, x, h, c)
  BY DEF TalkWell, GoesWell
<1> HIDE DEF h, c
<1>4. /\ WireWell(Append(Wire, m), x, h, c)
      /\ Blank(Wire, x, h) => Blank(Append(Wire, m), x, h)
      /\ Reached(Wire, x, h, c) => Reached(Append(Wire, m), x, h, c)
  BY <1>1, <1>2, WellOther
<1>5. call'[x].chained = c /\ call'[x].chain = call[x].chain
  BY DEF SameChain, c
<1>6. QED
  BY <1>3, <1>4, <1>5 DEF GoesWell, h

\* Only a send that fails at once settles.
LEMMA SendsChain ==
  ASSUME NEW c \in ClientType, NEW d, NEW m, Sends(c, d, m), NEW x \in Calls
  PROVE  /\ d.call[x].chained = c.call[x].chained
         /\ c.hub.connected \/ ~Says(m, x) => d.call[x].chain = c.call[x].chain
<1> DEFINE no == FALSE
<1>1. no \in BOOLEAN /\ (Settles(c, d, <<>>, no) \/ (~c.hub.connected /\ Settles(c, d, <<m>>, no)))
  BY DEF Sends
<1> HIDE DEF no
<1>2. ASSUME Settles(c, d, <<>>, no)
      PROVE  d.call[x].chained = c.call[x].chained /\ d.call[x].chain = c.call[x].chain
  <2>1. \A i : i \notin DOMAIN <<>>
    OBVIOUS
  <2>2. QED
    BY <1>1, <1>2, <2>1, SettlesChain
<1>3. ASSUME Settles(c, d, <<m>>, no)
      PROVE  /\ d.call[x].chained = c.call[x].chained
             /\ ~Says(m, x) => d.call[x].chain = c.call[x].chain
  <2> DEFINE s == <<m>>
  <2>1. \A i \in DOMAIN s : s[i] = m
    OBVIOUS
  <2>2. Settles(c, d, s, no)
    BY <1>3
  <2> HIDE DEF s
  <2>3. QED
    BY <1>1, <2>1, <2>2, SettlesChain
<1>4. QED
  BY <1>1, <1>2, <1>3

LEMMA SendsTalk ==
  ASSUME TypeOK, SpeechInv, SameHeard, setup' = setup,
         NEW c \in ClientType, NEW m \in Message, Sends(c, Client', m),
         Client' \in ClientType, c.queue = queue, net'.up = net.up,
         c.hub.connected <=> hub.connected, c.hub.life = hub.life, SaysNext(c, m)
  PROVE  SpeechInv'
<1>0. Calls' = Calls /\ hub.life \in Life /\ <<>> \in Seq(Message)
  BY Fixed, Typed DEF HubType
<1>1. CASE hub.connected
  <2>1. Settles(c, Client', <<>>, FALSE) /\ Enqueued(c, Client', m)
    BY <1>1 DEF Sends
  <2>2. (hub'.connected <=> hub.connected) /\ hub'.life = hub.life
    BY <2>1, SettlesSameLife
  <2>3. /\ OtherLines(queue, queue', hub.life)
        /\ queue'[hub.life].flight = queue[hub.life].flight
        /\ queue'[hub.life].buffer = Append(queue[hub.life].buffer, m)
        /\ queue[hub.life].buffer \in Seq(Message)
    <3>1. LET q == queue[hub.life]
          IN queue' = [queue EXCEPT ![hub.life] = [q EXCEPT !.buffer = Append(q.buffer, m)]]
      BY <2>1 DEF Enqueued, Client
    <3>2. QED
      BY <1>1, <3>1, SendsLine
  <2>4. Wire' = Append(Wire, m)
    BY <1>1, <2>2, <2>3, SendsAppend
  <2>5. FlightInv'
    BY <2>2, <2>3, SameFlight DEF SpeechInv
  <2>6. ASSUME NEW x \in Calls PROVE TalkWell(x)'
    <3>1. TalkWell(x) /\ OutWell(queue, call[x], x)
      BY DEF SpeechInv, TalkWell
    <3>2. LastHeard(x)' = LastHeard(x)
      BY <2>2, SameLast DEF SameHeard
    <3>3. SameChain(c.call[x], call'[x])
      <4>1. /\ Client'.call[x].chained = c.call[x].chained
            /\ Client'.call[x].chain = c.call[x].chain
        BY <1>1, SendsChain
      <4>2. QED
        BY <4>1 DEF SameChain, Client
    <3>4. CASE Says(m, x)
      <4>1. /\ NoneOut(queue, x) /\ c.call[x].chain = "waiting" /\ m.n = c.call[x].chained
            /\ \/ Blank(Wire, x, LastHeard(x))
               \/ /\ Reached(Wire, x, LastHeard(x), call[x].chained)
                  /\ m.n = call[x].chained + 1
        BY <1>1, <3>4 DEF SaysNext
      <4>2. GoesWell(x)'
        BY <2>2, <2>4, <3>1, <3>2, <3>3, <3>4, <4>1, SaysOn
      <4>3. call'[x].chain = "waiting" /\ m.n = call'[x].chained
        BY <3>3, <4>1 DEF SameChain
      <4>4. OutWell(queue', call'[x], x)
        BY <1>0, <2>3, <3>1, <3>4, <4>1, <4>3, OutAppends
      <4>5. QED
        BY <4>2, <4>4 DEF TalkWell
    <3>5. CASE ~Says(m, x)
      <4>1. SameChain(call[x], call'[x])
        BY <3>3, <3>5 DEF SaysNext, SameChain
      <4>2. GoesWell(x)'
        BY <2>2, <2>4, <3>1, <3>2, <3>5, <4>1, SaysNothing
      <4>3. OutWell(queue', call'[x], x)
        BY <1>0, <2>3, <3>1, <3>5, <4>1, OutAppends
      <4>4. QED
        BY <4>2, <4>3 DEF TalkWell
    <3>6. QED
      BY <3>4, <3>5
  <2>7. QED
    BY <1>0, <2>5, <2>6 DEF SpeechInv
<1>2. CASE ~hub.connected
  <2>1. Settles(c, Client', <<m>>, FALSE) /\ queue' = queue
    BY <1>2 DEF Sends, Client
  <2>2. (hub'.connected <=> hub.connected) /\ hub'.life = hub.life
    BY <2>1, SettlesSameLife
  <2>3. FlightInv'
    BY <1>2, <2>2 DEF FlightInv
  <2>4. Wire = <<>> /\ Wire' = <<>>
    BY <1>2, <2>2 DEF Wire
  <2>5. ASSUME NEW x \in Calls PROVE TalkWell(x)'
    <3>1. OutWell(queue, call[x], x) /\ WireWell(Wire, x, LastHeard(x), call[x].chained)
      BY DEF SpeechInv, TalkWell, GoesWell
    <3>2. LastHeard(x)' = LastHeard(x)
      BY <2>2, SameLast DEF SameHeard
    <3>3. /\ call'[x].chained = c.call[x].chained
          /\ call'[x].chain = c.call[x].chain \/ Says(m, x)
      <4>1. /\ Client'.call[x].chained = c.call[x].chained
            /\ Client'.call[x].chain = c.call[x].chain \/ Says(m, x)
        BY SendsChain
      <4>2. QED
        BY <4>1 DEF Client
    <3>4. SameLines(queue, queue')
      BY <2>1 DEF SameLines
    <3>5. OutWell(queue', call'[x], x)
      <4>1. CASE Says(m, x)
        <5>1. NoneOut(queue, x)
          BY <4>1 DEF SaysNext
        <5>2. QED
          BY <3>4, <5>1, OutNone
      <4>2. CASE ~Says(m, x)
        <5>1. SameChain(call[x], call'[x])
          BY <3>3, <4>2 DEF SaysNext, SameChain
        <5>2. QED
          BY <3>1, <3>4, <5>1, OutSame
      <4>3. QED
        BY <4>1, <4>2
    <3>6. call[x].chained <= call'[x].chained
      <4>1. call[x].chained \in Nat
        BY LastFacts
      <4>2. Says(m, x) => call[x].chained <= c.call[x].chained
        BY DEF SaysNext
      <4>3. ~Says(m, x) => call[x].chained = c.call[x].chained
        BY DEF SaysNext, SameChain
      <4>4. QED
        BY <3>3, <4>1, <4>2, <4>3
    <3>7. WireWell(<<>>, x, LastHeard(x), call'[x].chained)
      <4>1. LastHeard(x) \in Int /\ call[x].chained \in Int
        BY LastFacts
      <4>2. call'[x].chained \in Int
        <5>1. Client'.call[x] \in CallType
          BY ClientFields
        <5>2. QED
          BY <5>1 DEF Client, CallType
      <4>3. LastHeard(x) <= call[x].chained
        BY <3>1 DEF WireWell
      <4>4. QED
        BY <3>6, <4>1, <4>2, <4>3, EmptyWell
    <3>8. GoesWell(x)'
      BY <1>2, <2>2, <2>4, <3>2, <3>7 DEF GoesWell
    <3>9. QED
      BY <3>5, <3>8 DEF TalkWell
  <2>6. QED
    BY <1>0, <2>3, <2>5 DEF SpeechInv
<1>3. QED
  BY <1>1, <1>2, Typed DEF HubType

LEMMA ChainTalk ==
  ASSUME TypeOK, SpeechInv, SameHeard, NEW y \in Calls, ChainGoesOn(y)
  PROVE  SpeechInv'
<1> DEFINE c == ChainStep(y)
           m == UploadItem(y, call[y].chained + 1)
<1>1. /\ CanChain(y) /\ net' = net /\ setup' = setup /\ c \in ClientType /\ m \in Message
      /\ Client' \in ClientType /\ Sends(c, Client', m)
  BY ChainFacts
<1>2. c.hub = hub /\ c.queue = queue
  BY DEF ChainStep, CallWith
<1>3. /\ c.call[y].chain = "waiting" /\ c.call[y].chained = call[y].chained + 1
      /\ \A x \in Calls : x # y => c.call[x] = call[x]
  BY Typed DEF ChainStep, CallWith, CallType
<1>4. m.of = y /\ m.n = call[y].chained + 1 /\ m.type \in {"StreamItem", "Completion"}
  BY DEF UploadItem
<1> HIDE DEF c, m
<1>5. call[y].chain = "ready" /\ call[y].chained \in Nat
  BY <1>1, LastFacts DEF CanChain
<1>6. TalkWell(y)
  BY DEF SpeechInv
<1>7. NoneOut(queue, y)
  BY <1>5, <1>6, NotWaiting DEF TalkWell
<1>8. hub.connected => \/ Blank(Wire, y, LastHeard(y))
                       \/ Reached(Wire, y, LastHeard(y), call[y].chained)
  BY <1>5, <1>6 DEF TalkWell, GoesWell
<1>9. SaysNext(c, m)
  <2> SUFFICES ASSUME NEW x \in Calls
               PROVE  IF Says(m, x)
    THEN /\ NoneOut(queue, x) /\ c.call[x].chain = "waiting" /\ m.n = c.call[x].chained
         /\ call[x].chained <= m.n
         /\ hub.connected => \/ Blank(Wire, x, LastHeard(x))
                             \/ /\ Reached(Wire, x, LastHeard(x), call[x].chained)
                                /\ m.n = call[x].chained + 1
    ELSE SameChain(call[x], c.call[x])
    BY DEF SaysNext
  <2>1. CASE x = y
    <3>1. Says(m, x)
      BY <1>4, <2>1 DEF Says
    <3>2. call[x].chained <= m.n
      BY <1>4, <1>5, <2>1
    <3>3. QED
      BY <1>3, <1>4, <1>7, <1>8, <2>1, <3>1, <3>2
  <2>2. CASE x # y
    BY <1>3, <1>4, <2>2 DEF Says, SameChain
  <2>3. QED
    BY <2>1, <2>2
<1>10. QED
  BY <1>1, <1>2, <1>9, SendsTalk

\* A message that is of no call's upload.
LEMMA AsideTalk ==
  ASSUME NEW c, NEW m, \A x \in Calls : ~Says(m, x) /\ SameChain(call[x], c.call[x])
  PROVE  SaysNext(c, m)
BY DEF SaysNext

LEMMA CancelTalk ==
  ASSUME TypeOK, SpeechInv, SameHeard, NEW y \in Calls, CancelGoesOn(y)
  PROVE  SpeechInv'
<1> DEFINE c == CancelStep(y)
           m == CancelInvocation(y)
<1>1. /\ net' = net /\ setup' = setup /\ c \in ClientType /\ m \in Message
      /\ Client' \in ClientType /\ Sends(c, Client', m)
  BY CancelFacts
<1>2. c.hub = hub /\ c.queue = queue
  BY DEF CancelStep, CallWith
<1>3. \A x \in Calls : c.call[x].chain = call[x].chain /\ c.call[x].chained = call[x].chained
  BY Typed DEF CancelStep, CallWith, CallType
<1>4. m.type = "CancelInvocation"
  BY DEF CancelInvocation
<1> HIDE DEF c, m
<1>5. SaysNext(c, m)
  BY <1>3, <1>4, AsideTalk DEF Says, SameChain
<1>6. QED
  BY <1>1, <1>2, <1>5, SendsTalk

LEMMA CallTalk ==
  ASSUME TypeOK, ClientInv(Client), ServerInv, MessagesInv, SpeechInv, SameHeard, NEW y \in Calls, Call(y)
  PROVE  SpeechInv'
<1> DEFINE c == CallStep(y)
           m == CallMessage(y)
<1>1. /\ ~call[y].made /\ net' = net /\ setup' = setup /\ c \in ClientType /\ m \in Message
      /\ Client' \in ClientType /\ Sends(c, Client', m)
  BY CallFacts DEF ClientInv
<1>2. (c.hub.connected <=> hub.connected) /\ c.hub.life = hub.life /\ c.queue = queue
  BY Typed DEF CallStep, HubType
<1>3. \A x \in Calls : c.call[x].chain = call[x].chain /\ c.call[x].chained = call[x].chained
  BY Typed DEF CallStep, CallType
<1>4. m.of = y /\ m.n = 0 /\ m.type = "Invocation"
  BY DEF CallMessage
<1> HIDE DEF c, m
<1>5. call[y].chain = "waiting" /\ call[y].chained = 0
  BY <1>1, Typed DEF ClientInv, IdsInv, Fresh
<1>6. \A k : UpWell(k) => ~Says(k, y)
  BY <1>1 DEF UpWell, Says
<1>7. NoneOut(queue, y)
  <2>1. \A l \in Life : AllUp(queue[l].flight) /\ AllUp(queue[l].buffer)
    BY DEF MessagesInv
  <2>2. \A l \in Life, w \in Ways : AllUp(Line(queue[l], w))
    BY <2>1 DEF Line, Ways
  <2>3. QED
    BY <1>6, <2>2 DEF NoneOut, AllUp
<1>8. Blank(Wire, y, LastHeard(y))
  <2>1. server[y].heard = <<>>
    BY <1>1 DEF ServerInv
  <2>2. LastHeard(y) = -1
    BY <2>1, LastFacts
  <2>3. \A i \in DOMAIN Wire : ~Says(Wire[i], y)
    BY <1>6, WireUp
  <2>4. QED
    BY <2>2, <2>3 DEF Blank
<1>9. SaysNext(c, m)
  <2> SUFFICES ASSUME NEW x \in Calls
               PROVE  IF Says(m, x)
    THEN /\ NoneOut(queue, x) /\ c.call[x].chain = "waiting" /\ m.n = c.call[x].chained
         /\ call[x].chained <= m.n
         /\ hub.connected => \/ Blank(Wire, x, LastHeard(x))
                             \/ /\ Reached(Wire, x, LastHeard(x), call[x].chained)
                                /\ m.n = call[x].chained + 1
    ELSE SameChain(call[x], c.call[x])
    BY DEF SaysNext
  <2>1. CASE x = y
    <3>1. Says(m, x)
      BY <1>4, <2>1 DEF Says
    <3>2. call[x].chained <= m.n
      BY <1>4, <1>5, <2>1
    <3>3. QED
      BY <1>3, <1>4, <1>5, <1>7, <1>8, <2>1, <3>1, <3>2
  <2>2. CASE x # y
    BY <1>3, <1>4, <2>2 DEF Says, SameChain
  <2>3. QED
    BY <2>1, <2>2
<1>10. QED
  BY <1>1, <1>2, <1>9, SendsTalk

LEMMA RanTalk ==
  ASSUME TypeOK, SpeechInv, SameHeard, setup' = setup, net'.up = net.up,
         NEW a \in Asks, NEW r \in AskType, Ran(a, r)
  PROVE  SpeechInv'
<1>1. /\ Client' \in ClientType
      /\ IF r.left = 0 /\ setup.expects
         THEN Reply(a, r) \in Message /\ Sends(Client, Client', Reply(a, r))
         ELSE Client' = Client
  BY RanFacts
<1>2. CASE r.left = 0 /\ setup.expects
  <2> DEFINE m == Reply(a, r)
  <2>0. a \in Nat
    BY Bounds, SetupFacts, Typed DEF Asks
  <2>1. m \in Message /\ m.type = "Reply"
    BY <2>0, VerdictFacts
  <2>2. Sends(Client, Client', m)
    BY <1>1, <1>2
  <2> HIDE DEF m
  <2>3. \A x \in Calls : ~Says(m, x) /\ SameChain(call[x], Client.call[x])
    BY <2>1, Typed DEF Says, SameChain
  <2>4. SaysNext(Client, m)
    BY <2>3, AsideTalk
  <2>5. QED
    BY <1>1, <2>1, <2>2, <2>4, Typed, SendsTalk
<1>3. CASE ~(r.left = 0 /\ setup.expects)
  <2>1. hub' = hub /\ queue' = queue /\ call' = call
    BY <1>1, <1>3, Typed DEF Client
  <2>2. \A x \in Calls : SameChain(call[x], call'[x])
    BY <2>1 DEF SameChain
  <2>3. QED
    BY <2>1, <2>2, QuietTalk
<1>4. QED
  BY <1>2, <1>3

-----------------------------------------------------------------------------
(* Batches that settle, connections that close                             *)

\* A batch of a line settles and the wire stays.
LEMMA SettlesGoes ==
  ASSUME NEW l \in Life, NEW w \in Ways, NEW x \in Calls, TalkWell(x), Wire' = Wire,
         hub'.connected => hub.connected, LastHeard(x)' = LastHeard(x),
         call'[x].chained = call[x].chained,
         \/ call'[x].chain = call[x].chain
         \/ \E i \in DOMAIN Line(queue[l], w) : Says(Line(queue[l], w)[i], x)
  PROVE  GoesWell(x)'
<1>1. /\ WireWell(Wire, x, LastHeard(x), call[x].chained)
      /\ hub.connected /\ call[x].chain # "broken" =>
           Blank(Wire, x, LastHeard(x)) \/ Reached(Wire, x, LastHeard(x), call[x].chained)
  BY DEF TalkWell, GoesWell
<1>2. call'[x].chain # "broken" => call[x].chain # "broken"
  <2>1. CASE call'[x].chain = call[x].chain
    BY <2>1
  <2>2. CASE \E i \in DOMAIN Line(queue[l], w) : Says(Line(queue[l], w)[i], x)
    <3>1. call[x].chain = "waiting"
      BY <2>2 DEF TalkWell, OutWell
    <3>2. QED
      BY <3>1
  <2>3. QED
    BY <2>1, <2>2
<1>3. QED
  BY <1>1, <1>2 DEF GoesWell

LEMMA CloseTalk ==
  ASSUME TypeOK, QueueInv, SpeechInv, SameHeard, Close
  PROVE  SpeechInv'
<1>1. /\ setup' = setup /\ hub.connected /\ hub' = [hub EXCEPT !.connected = FALSE, !.callbacks = {}]
      /\ call' = [x \in Calls |-> IF x \in Told THEN AfterCancel(call[x], x) ELSE call[x]]
      /\ queue' = QueueWith(hub.life, [queue[hub.life] EXCEPT !.executing = FALSE])
  BY CloseFacts
<1>2. ~hub'.connected /\ hub'.life = hub.life
  BY <1>1, Typed DEF HubType
<1>3. FlightInv'
  BY <1>2 DEF FlightInv
<1>4. Wire' = <<>>
  BY CloseWire
<1>5. SameLines(queue, queue')
  <2>1. \A k \in Life : queue'[k].flight = queue[k].flight /\ queue'[k].buffer = queue[k].buffer
    BY <1>1, Typed DEF QueueWith, QueueType
  <2>2. QED
    BY <2>1 DEF SameLines, Line
<1>6. ASSUME NEW x \in Calls PROVE TalkWell(x)'
  <2>1. OutWell(queue, call[x], x) /\ WireWell(Wire, x, LastHeard(x), call[x].chained)
    BY DEF SpeechInv, TalkWell, GoesWell
  <2>2. SameChain(call[x], call'[x])
    <3>1. CASE x \in Told
      BY <1>1, <3>1, Typed, CancelSettles DEF SameChain
    <3>2. CASE x \notin Told
      BY <1>1, <3>2 DEF SameChain
    <3>3. QED
      BY <3>1, <3>2
  <2>3. OutWell(queue', call'[x], x)
    BY <1>5, <2>1, <2>2, OutSame
  <2>4. LastHeard(x)' = LastHeard(x)
    BY <1>2, SameLast DEF SameHeard
  <2>5. WireWell(<<>>, x, LastHeard(x), call'[x].chained)
    BY <2>1, <2>2, EmptyWell DEF WireWell, SameChain
  <2>6. QED
    BY <1>2, <1>4, <2>3, <2>4, <2>5 DEF TalkWell, GoesWell
<1>7. QED
  BY <1>1, <1>3, <1>6, Fixed DEF SpeechInv

LEMMA ReopenTalk ==
  ASSUME TypeOK, QueueInv, SpeechInv, HeardInv, SameHeard, Reopen
  PROVE  SpeechInv'
<1>1. /\ UNCHANGED <<call, queue, net, setup>> /\ ~hub.connected
      /\ hub' = [hub EXCEPT !.connected = TRUE, !.life = hub.life + 1]
  BY ReopenFacts
<1>2. hub'.connected /\ hub'.life = hub.life + 1 /\ hub.life \in Nat
  BY <1>1, Typed, Bounds DEF HubType, Life
<1>3. Wire' = <<>>
  BY ReopenWire
<1>4. FlightInv'
  <2>1. net.up = <<>> /\ hub.life + 1 \in Life
    BY <1>1, <1>2, ReopenFacts, Bounds DEF QueueInv, Life
  <2>2. queue[hub.life + 1].flight \in Seq(Message)
    BY <2>1, Typed DEF QueueType
  <2>3. <<>> \in Seq(Message)
    OBVIOUS
  <2>4. Flown(<<>>, queue[hub.life + 1].flight)
    BY <2>2, <2>3, NoFlight
  <2>5. QED
    BY <1>1, <1>2, <2>1, <2>4 DEF FlightInv
<1>5. ASSUME NEW x \in Calls PROVE TalkWell(x)'
  <2>1. OutWell(queue', call'[x], x)
    BY <1>1 DEF SpeechInv, TalkWell
  <2>2. LastHeard(x)' = -1
    <3> DEFINE heard == server[x].heard
               n == Len(heard)
    <3>1. heard \in Seq(Life \X Nat)
      BY Typed DEF ServerType
    <3>2. heard # <<>> => n \in DOMAIN heard
      BY <3>1, EmptySeq, LenProperties
    <3>3. \A i \in DOMAIN heard : heard[i][1] <= hub.life /\ heard[i][1] \in Nat
      <4>1. \A i \in DOMAIN heard : heard[i][1] <= hub.life
        BY DEF HeardInv, LivesWell
      <4>2. \A i \in DOMAIN heard : heard[i] \in Life \X Nat
        BY <3>1, ElementOfSeq, LenProperties
      <4>3. QED
        BY <4>1, <4>2, Bounds DEF Life
    <3>4. server'[x].heard = heard
      BY DEF SameHeard
    <3> HIDE DEF heard, n
    <3>5. heard # <<>> => heard[n][1] # hub.life + 1
      BY <1>2, <3>2, <3>3
    <3>6. QED
      BY <1>2, <3>4, <3>5 DEF LastHeard, n
  <2>3. -1 <= call[x].chained
    <3>1. call[x].chained \in Nat
      BY LastFacts
    <3>2. QED
      BY <3>1
  <2>4. WireWell(<<>>, x, -1, call[x].chained) /\ Blank(<<>>, x, -1)
    BY <2>3, EmptyWell
  <2>5. QED
    BY <1>1, <1>3, <2>1, <2>2, <2>4 DEF TalkWell, GoesWell
<1>6. QED
  BY <1>1, <1>4, <1>5, Fixed DEF SpeechInv

LEMMA FlownConcat ==
  ASSUME NEW up \in Seq(Message), NEW b \in Seq(Message)
  PROVE  Flown(up \o b, b)
<1> DEFINE s == up \o b
           n == Len(up)
           k == Len(b)
<1>1. /\ n \in Nat /\ k \in Nat /\ DOMAIN s = 1 .. n + k /\ Len(s) = n + k
      /\ \A i \in 1 .. k : s[n + i] = b[i]
  BY ConcatMessages
<1> HIDE DEF s, n
<1>2. ASSUME NEW i \in DOMAIN s, i > Len(s) - k PROVE s[i] = b[i - Len(s) + k]
  <2>1. i - n \in 1 .. k /\ n + (i - n) = i /\ i - Len(s) + k = i - n
    BY <1>1, <1>2
  <2>2. s[n + (i - n)] = b[i - n]
    BY <1>1, <2>1
  <2>3. QED
    BY <2>1, <2>2
<1>3. QED
  BY <1>2 DEF Flown, s

\* What the send loop does to the lines and the chains.
LEMMA LoopLines ==
  ASSUME TypeOK, NEW l \in Life, LoopGoesOn(l)
  PROVE  /\ setup' = setup /\ queue[l].flight = <<>> /\ queue'[l].buffer = <<>>
         /\ \A k \in Life : k # l => queue'[k] = queue[k]
         /\ \/ queue'[l].flight = queue[l].buffer /\ call' = call
            \/ /\ queue'[l].flight = <<>>
               /\ \A x \in Calls :
                    /\ call'[x].chained = call[x].chained
                    /\ \/ call'[x].chain = call[x].chain
                       \/ \E i \in DOMAIN queue[l].buffer : Says(queue[l].buffer[i], x)
<1> DEFINE q == queue[l]
           b == q.buffer
<1>1. /\ Client' \in ClientType /\ q.flight = <<>> /\ setup' = setup
      /\ \/ call' = call /\ queue' = QueueWith(l, [q EXCEPT !.buffer = <<>>, !.flight = b])
         \/ /\ \E ok \in BOOLEAN : Settles(Client, Client', b, ok)
            /\ \/ queue' = QueueWith(l, [q EXCEPT !.buffer = <<>>, !.ended = TRUE])
               \/ queue' = QueueWith(l, [q EXCEPT !.buffer = <<>>])
  BY LoopFacts
<1>2. q \in QueueType /\ queue \in [Life -> QueueType]
  BY Typed
<1>3. ASSUME NEW r, queue' = QueueWith(l, r)
      PROVE  queue'[l] = r /\ \A k \in Life : k # l => queue'[k] = queue[k]
  BY <1>2, <1>3 DEF QueueWith
<1>4. ASSUME NEW ok \in BOOLEAN, Settles(Client, Client', b, ok), NEW x \in Calls
      PROVE  /\ call'[x].chained = call[x].chained
             /\ \/ call'[x].chain = call[x].chain
                \/ \E i \in DOMAIN b : Says(b[i], x)
  <2> HIDE DEF b
  <2>1. /\ Client'.call[x].chained = Client.call[x].chained
        /\ \/ Client'.call[x].chain = Client.call[x].chain
           \/ \E i \in DOMAIN b : Says(b[i], x)
    BY <1>4, Typed, SettlesChain
  <2>2. QED
    BY <2>1 DEF Client
<1>5. CASE call' = call /\ queue' = QueueWith(l, [q EXCEPT !.buffer = <<>>, !.flight = b])
  <2> DEFINE r == [q EXCEPT !.buffer = <<>>, !.flight = b]
  <2>1. r.buffer = <<>> /\ r.flight = b
    BY <1>2 DEF QueueType
  <2>2. queue' = QueueWith(l, r)
    BY <1>5
  <2> HIDE DEF r
  <2>3. QED
    BY <1>1, <1>3, <1>5, <2>1, <2>2
<1>6. CASE /\ \E ok \in BOOLEAN : Settles(Client, Client', b, ok)
           /\ \/ queue' = QueueWith(l, [q EXCEPT !.buffer = <<>>, !.ended = TRUE])
              \/ queue' = QueueWith(l, [q EXCEPT !.buffer = <<>>])
  <2>1. \E r : queue' = QueueWith(l, r) /\ r.buffer = <<>> /\ r.flight = q.flight
    <3> DEFINE r == [q EXCEPT !.buffer = <<>>, !.ended = TRUE]
               s == [q EXCEPT !.buffer = <<>>]
    <3>1. r.buffer = <<>> /\ r.flight = q.flight /\ s.buffer = <<>> /\ s.flight = q.flight
      BY <1>2 DEF QueueType
    <3>2. queue' = QueueWith(l, r) \/ queue' = QueueWith(l, s)
      BY <1>6
    <3> HIDE DEF r, s
    <3>3. QED
      BY <3>1, <3>2
  <2>2. queue'[l].buffer = <<>> /\ queue'[l].flight = <<>> /\ \A k \in Life : k # l => queue'[k] = queue[k]
    BY <1>1, <1>3, <2>1
  <2>3. \A x \in Calls : /\ call'[x].chained = call[x].chained
                         /\ \/ call'[x].chain = call[x].chain
                            \/ \E i \in DOMAIN b : Says(b[i], x)
    BY <1>4, <1>6
  <2>4. QED
    BY <1>1, <2>2, <2>3
<1>7. QED
  BY <1>1, <1>5, <1>6

LEMMA LoopTalk ==
  ASSUME TypeOK, QueueInv, SpeechInv, SameHeard, NEW l \in Life, LoopGoesOn(l)
  PROVE  SpeechInv'
<1>1. /\ setup' = setup /\ queue[l].flight = <<>> /\ queue'[l].buffer = <<>>
      /\ \A k \in Life : k # l => queue'[k] = queue[k]
      /\ \/ queue'[l].flight = queue[l].buffer /\ call' = call
         \/ /\ queue'[l].flight = <<>>
            /\ \A x \in Calls :
                 /\ call'[x].chained = call[x].chained
                 /\ \/ call'[x].chain = call[x].chain
                    \/ \E i \in DOMAIN queue[l].buffer : Says(queue[l].buffer[i], x)
  BY LoopLines
<1>2. /\ Wire' = Wire /\ (hub'.connected <=> hub.connected) /\ hub'.life = hub.life
      /\ queue[l].executing => hub.connected /\ l = hub.life
  BY LoopWire
<1>3. hub.life \in Life /\ net.up \in Seq(Message) /\ queue[l].buffer \in Seq(Message)
  BY Typed DEF HubType, NetType, QueueType
<1>4. FlightInv'
  <2> DEFINE p == queue'[hub.life].flight
  <2>1. /\ \/ ~queue[l].executing /\ queue'[l].flight = <<>> /\ net' = net
           \/ /\ queue[l].executing /\ net'.up = net.up \o queue[l].buffer
              /\ queue'[l].flight = IF setup.posts THEN queue[l].buffer ELSE <<>>
    BY LoopQueues
  <2>2. CASE ~queue[l].executing /\ queue'[l].flight = <<>> /\ net' = net
    <3>1. queue'[hub.life].flight = queue[hub.life].flight
      BY <1>1, <1>3, <2>2
    <3>2. QED
      BY <1>2, <2>2, <3>1, SameFlight DEF SpeechInv
  <2>3. CASE /\ queue[l].executing /\ net'.up = net.up \o queue[l].buffer
             /\ queue'[l].flight = IF setup.posts THEN queue[l].buffer ELSE <<>>
    <3>1. p = queue[l].buffer \/ p = <<>>
      BY <1>2, <2>3
    <3>2. net'.up \in Seq(Message)
      BY <1>3, <2>3, ConcatProperties
    <3>3. Flown(net'.up, p)
      BY <1>3, <2>3, <3>1, <3>2, FlownConcat, NoFlight
    <3>4. QED
      BY <1>2, <3>3 DEF FlightInv
  <2>4. QED
    BY <2>1, <2>2, <2>3
<1>5. ASSUME NEW x \in Calls PROVE TalkWell(x)'
  <2>1. TalkWell(x) /\ OutWell(queue, call[x], x)
    BY DEF SpeechInv, TalkWell
  <2>2. LastHeard(x)' = LastHeard(x)
    BY <1>2, SameLast DEF SameHeard
  <2>3. "buffer" \in Ways /\ \A p : Line(p, "buffer") = p.buffer
    BY DEF Ways, Line
  <2>4. /\ call'[x].chained = call[x].chained
        /\ \/ call'[x].chain = call[x].chain
           \/ \E i \in DOMAIN Line(queue[l], "buffer") : Says(Line(queue[l], "buffer")[i], x)
    BY <1>1, <2>3
  <2>5. GoesWell(x)'
    BY <1>2, <2>1, <2>2, <2>3, <2>4, SettlesGoes
  <2>6. OutWell(queue', call'[x], x)
    <3>1. CASE queue'[l].flight = queue[l].buffer /\ call' = call
      <4>1. OtherLines(queue, queue', l) /\ SameChain(call[x], call'[x])
        BY <1>1, <3>1 DEF OtherLines, SameChain
      <4>2. QED
        BY <1>1, <2>1, <3>1, <4>1, OutTakes
    <3>2. CASE queue'[l].flight = <<>>
      <4> DEFINE w == "buffer"
      <4>1. \A k \in Life, v \in Ways : k # l \/ v # w => Line(queue'[k], v) = Line(queue[k], v)
        BY <1>1, <3>2 DEF Ways, Line
      <4>2. Line(queue'[l], w) = <<>>
        <5>1. Line(queue'[l], w) = queue'[l].buffer
          BY DEF Line
        <5>2. QED
          BY <1>1, <5>1
      <4>3. /\ w \in Ways /\ call'[x].chained = call[x].chained
            /\ \/ call'[x].chain = call[x].chain
               \/ \E i \in DOMAIN Line(queue[l], w) : Says(Line(queue[l], w)[i], x)
        BY <2>3, <2>4
      <4> HIDE DEF w
      <4>4. QED
        BY <2>1, <4>1, <4>2, <4>3, OutClears
    <3>3. QED
      BY <1>1, <3>1, <3>2
  <2>7. QED
    BY <2>5, <2>6 DEF TalkWell
<1>6. QED
  BY <1>1, <1>4, <1>5, Fixed DEF SpeechInv

LEMMA ZeroGoes ==
  ASSUME NEW s \in Seq(Message), NEW x, NEW h \in Int, h >= -1, WireWell(s, x, h, 0)
  PROVE  Blank(s, x, h) \/ Reached(s, x, h, 0)
<1>1. h = 0 \/ h = -1
  BY DEF WireWell
<1>2. CASE h = 0
  BY <1>2 DEF Reached
<1>3. CASE h = -1 /\ ~Blank(s, x, h)
  <2>1. PICK i \in DOMAIN s : Says(s[i], x)
    BY <1>3 DEF Blank
  <2>2. h < s[i].n /\ s[i].n <= 0 /\ s[i].n \in Nat
    BY <2>1, NumberFacts DEF WireWell
  <2>3. s[i].n = 0
    BY <2>2
  <2>4. QED
    BY <2>1, <2>3 DEF Reached
<1>4. QED
  BY <1>1, <1>2, <1>3

\* What is lost was in flight.
LostOrFlew(s, N, b, flight, n) ==
  \A j \in DOMAIN s : IF j > N THEN \E k \in DOMAIN b : s[j] = b[k]
                      ELSE j <= n \/ \E k \in DOMAIN flight : s[j] = flight[k]

LEMMA LostFlew ==
  ASSUME NEW up \in Seq(Message), NEW b \in Seq(Message), NEW flight \in Seq(Message), NEW n \in Nat,
         n = IF Len(up) < Len(flight) THEN 0 ELSE Len(up) - Len(flight), Flown(up, flight)
  PROVE  LostOrFlew(up \o b, Len(up), b, flight, n)
<1> SUFFICES ASSUME NEW j \in DOMAIN (up \o b)
             PROVE  IF j > Len(up) THEN \E k \in DOMAIN b : (up \o b)[j] = b[k]
                    ELSE j <= n \/ \E k \in DOMAIN flight : (up \o b)[j] = flight[k]
  BY DEF LostOrFlew
<1> DEFINE s == up \o b
           N == Len(up)
           F == Len(flight)
<1>1. /\ N \in Nat /\ DOMAIN s = 1 .. N + Len(b) /\ DOMAIN up = 1 .. N /\ Len(b) \in Nat
      /\ DOMAIN b = 1 .. Len(b)
      /\ \A i \in 1 .. N : s[i] = up[i]
      /\ \A i \in 1 .. Len(b) : s[N + i] = b[i]
  BY ConcatMessages
<1>2. F \in Nat /\ DOMAIN flight = 1 .. F
  BY LenProperties
<1>3. n = IF N < F THEN 0 ELSE N - F
  OBVIOUS
<1>4. \A i \in DOMAIN up : i > N - F => up[i] = flight[i - N + F]
  BY DEF Flown
<1> HIDE DEF s, N, F
<1>5. j \in 1 .. N + Len(b)
  BY <1>1 DEF s
<1>6. CASE j > N
  <2>1. j - N \in 1 .. Len(b) /\ N + (j - N) = j
    BY <1>1, <1>5, <1>6
  <2>2. s[j] = b[j - N] /\ j - N \in DOMAIN b
    BY <1>1, <2>1
  <2>3. QED
    BY <1>6, <2>2 DEF s, N
<1>7. CASE ~(j > N) /\ ~(j <= n)
  <2>1. j \in 1 .. N /\ j > N - F /\ j - N + F \in 1 .. F
    BY <1>1, <1>2, <1>3, <1>5, <1>7
  <2>2. s[j] = flight[j - N + F] /\ j - N + F \in DOMAIN flight
    BY <1>1, <1>2, <1>4, <2>1
  <2>3. QED
    BY <2>2 DEF s
<1>8. QED
  BY <1>6, <1>7

\* Nothing that was said is lost but in flight, and nothing was said after it.
LEMMA CutKeeps ==
  ASSUME NEW up \in Seq(Message), NEW b \in Seq(Message), NEW flight \in Seq(Message), NEW n \in Nat,
         n = IF Len(up) < Len(flight) THEN 0 ELSE Len(up) - Len(flight), Flown(up, flight),
         NEW f, Cuts(up, b, n, f), NEW x,
         ~\E i \in DOMAIN flight, j \in DOMAIN b : Says(flight[i], x) /\ Says(b[j], x)
  PROVE  LET s == up \o b   t == SubSeq(up, 1, n) \o b
         IN /\ KeepsFirst(s, t, f, x)
            /\ (\A i \in DOMAIN flight : ~Says(flight[i], x)) => KeepsAll(s, t, f, x)
<1> DEFINE s == up \o b
           t == SubSeq(up, 1, n) \o b
           N == Len(up)
<1>1. /\ \A i \in DOMAIN t : f[i] \in DOMAIN s /\ t[i] = s[f[i]]
      /\ \A j \in DOMAIN s : j <= n \/ j > N => \E k \in DOMAIN t : f[k] = j
      /\ \A k \in DOMAIN t : f[k] <= n \/ f[k] > N
      /\ DOMAIN s \subseteq Nat
  BY DEF Cuts, Picks
<1>2. \A j \in DOMAIN s : IF j > N THEN \E k \in DOMAIN b : s[j] = b[k]
                          ELSE j <= n \/ \E k \in DOMAIN flight : s[j] = flight[k]
  <2>1. LostOrFlew(s, N, b, flight, n)
    BY LostFlew
  <2> HIDE DEF s, N
  <2>2. QED
    BY <2>1 DEF LostOrFlew
<1>3. N \in Nat /\ n <= N
  <2>1. Len(up) \in Nat /\ Len(flight) \in Nat
    BY LenProperties
  <2>2. QED
    BY <2>1
<1> HIDE DEF s, t, N
<1>4. ASSUME NEW i \in DOMAIN t, Says(t[i], x), NEW j \in DOMAIN s, j < f[i], Says(s[j], x),
             ~(j <= n), ~(j > N)
      PROVE  FALSE
  <2>1. PICK k \in DOMAIN flight : s[j] = flight[k]
    BY <1>2, <1>4
  <2>2. f[i] \in DOMAIN s /\ s[f[i]] = t[i] /\ f[i] \in Nat /\ j \in Nat
    BY <1>1
  <2>3. f[i] > N
    BY <1>1, <1>3, <1>4, <2>2
  <2>4. \E d \in DOMAIN b : s[f[i]] = b[d]
    BY <1>2, <2>2, <2>3
  <2>5. QED
    BY <1>4, <2>1, <2>2, <2>4
<1>5. KeepsFirst(s, t, f, x)
  BY <1>1, <1>4 DEF KeepsFirst
<1>6. ASSUME \A i \in DOMAIN flight : ~Says(flight[i], x) PROVE KeepsAll(s, t, f, x)
  BY <1>1, <1>2, <1>6 DEF KeepsAll
<1>7. QED
  BY <1>5, <1>6 DEF s, t

LEMMA NotTwice ==
  ASSUME NEW q, NEW r, NEW x, OutWell(q, r, x), NEW l \in Life,
         NEW i \in DOMAIN q[l].flight, NEW j \in DOMAIN q[l].buffer, Says(q[l].flight[i], x)
  PROVE  ~Says(q[l].buffer[j], x)
<1> DEFINE w == "flight"
           v == "buffer"
<1>1. w \in Ways /\ v \in Ways /\ v # w /\ Line(q[l], w) = q[l].flight /\ Line(q[l], v) = q[l].buffer
  BY DEF Ways, Line
<1> HIDE DEF w, v
<1>2. i \in DOMAIN Line(q[l], w) /\ j \in DOMAIN Line(q[l], v) /\ Says(Line(q[l], w)[i], x)
  BY <1>1
<1>3. ~Says(Line(q[l], v)[j], x)
  BY <1>1, <1>2, OnlyOut
<1>4. QED
  BY <1>1, <1>3

\* A post that fails before it arrives.
LEMMA CutGoes ==
  ASSUME TypeOK, MessagesInv, FlightInv, hub.connected, NEW x \in Calls, TalkWell(x),
         LET up == net.up   n == Unheard(hub.life)
         IN Wire' = SubSeq(up, 1, n) \o queue[hub.life].buffer,
         LastHeard(x)' = LastHeard(x), call'[x].chained = call[x].chained,
         LET flight == queue[hub.life].flight
         IN /\ call'[x].chain = call[x].chain \/ \E i \in DOMAIN flight : Says(flight[i], x)
            /\ call'[x].chain # "broken" =>
                 \A i \in DOMAIN flight : Says(flight[i], x) => flight[i].type = "Invocation"
  PROVE  GoesWell(x)'
<1> DEFINE l == hub.life
           up == net.up
           b == queue[l].buffer
           flight == queue[l].flight
           n == Unheard(l)
           s == up \o b
           t == SubSeq(up, 1, n) \o b
           h == LastHeard(x)
           c == call[x].chained
<1>1. /\ l \in Life /\ up \in Seq(Message) /\ b \in Seq(Message) /\ flight \in Seq(Message)
      /\ h \in Int /\ h >= -1 /\ c \in Nat /\ c \in Int
  BY LastFacts, Typed DEF HubType, NetType, QueueType
<1>1a. /\ call'[x].chain = call[x].chain \/ \E i \in DOMAIN flight : Says(flight[i], x)
       /\ call'[x].chain # "broken" =>
            \A i \in DOMAIN flight : Says(flight[i], x) => flight[i].type = "Invocation"
  OBVIOUS
<1>2. /\ n \in 0 .. Len(up) /\ n \in Nat
      /\ n = IF Len(up) < Len(flight) THEN 0 ELSE Len(up) - Len(flight)
  <2>1. n \in 0 .. Len(up) /\ Len(up) \in Nat
    BY <1>1, UnheardFacts
  <2>2. n \in Nat
    BY <2>1
  <2>3. QED
    BY <2>1, <2>2 DEF Unheard
<1>3. Wire = s /\ Wire' = t
  BY DEF Wire
<1>4. Flown(up, flight)
  BY DEF FlightInv
<1>5. ~\E i \in DOMAIN flight, j \in DOMAIN b : Says(flight[i], x) /\ Says(b[j], x)
  <2>1. OutWell(queue, call[x], x)
    BY DEF TalkWell
  <2>2. QED
    BY <1>1, <2>1, NotTwice
<1>6. WireWell(s, x, h, c)
  BY <1>3 DEF TalkWell, GoesWell
<1>7. \A i \in DOMAIN flight : Says(flight[i], x) =>
        call[x].chain = "waiting" /\ flight[i].n = c /\ (flight[i].type = "Invocation" => c = 0)
  <2>1. "flight" \in Ways /\ Line(queue[l], "flight") = flight
    BY DEF Ways, Line
  <2>2. OutWell(queue, call[x], x) /\ AllUp(flight)
    BY <1>1 DEF TalkWell, MessagesInv
  <2> HIDE DEF flight, c
  <2>3. ASSUME NEW i \in DOMAIN flight, Says(flight[i], x)
        PROVE  call[x].chain = "waiting" /\ flight[i].n = c /\ (flight[i].type = "Invocation" => c = 0)
    <3>1. call[x].chain = "waiting" /\ flight[i].n = call[x].chained
      BY <1>1, <2>1, <2>2, <2>3 DEF OutWell
    <3>2. flight[i].type = "Invocation" => flight[i].n = 0
      BY <2>2 DEF AllUp, UpWell
    <3>3. QED
      BY <3>1, <3>2 DEF c
  <2>4. QED
    BY <2>3
<1>8. PICK f : Cuts(up, b, n, f)
  BY <1>1, <1>2, CutFacts
<1>9. Picks(s, t, f) /\ t \in Seq(Message) /\ s \in Seq(Message)
  <2>1. SubSeq(up, 1, n) \in Seq(Message)
    BY <1>1, <1>2, PrefixFacts
  <2>2. t \in Seq(Message) /\ s \in Seq(Message)
    BY <1>1, <2>1, ConcatProperties
  <2>3. QED
    BY <1>8, <2>2 DEF Cuts
<1> HIDE DEF up, b, flight, n
<1>10. /\ KeepsFirst(s, t, f, x)
       /\ (\A i \in DOMAIN flight : ~Says(flight[i], x)) => KeepsAll(s, t, f, x)
  BY <1>1, <1>2, <1>4, <1>5, <1>8, CutKeeps
<1> HIDE DEF s, t, h, c
<1>11. WireWell(t, x, h, c)
  BY <1>1, <1>6, <1>9, <1>10, WellPicks
<1>12. ASSUME call'[x].chain # "broken" PROVE Blank(t, x, h) \/ Reached(t, x, h, c)
  <2>1. CASE \A i \in DOMAIN flight : ~Says(flight[i], x)
    <3>1. call'[x].chain = call[x].chain
      BY <1>1a, <2>1
    <3>2. Blank(s, x, h) \/ Reached(s, x, h, c)
      BY <1>3, <1>12, <3>1 DEF TalkWell, GoesWell, h, c
    <3>3. QED
      BY <1>9, <1>10, <2>1, <3>2, ReachedPicks
  <2>2. CASE \E i \in DOMAIN flight : Says(flight[i], x)
    <3>1. c = 0
      BY <1>1a, <1>7, <1>12, <2>2
    <3>2. WireWell(t, x, h, 0)
      BY <1>11, <3>1
    <3>3. QED
      BY <1>1, <1>9, <3>1, <3>2, ZeroGoes
  <2>3. QED
    BY <2>1, <2>2
<1>13. QED
  BY <1>3, <1>11, <1>12 DEF GoesWell, h, c

\* What the end of a post does to the lines and the chains.
LEMMA PostLines ==
  ASSUME TypeOK, NEW l \in Life, NEW ok \in BOOLEAN, NEW arrived \in BOOLEAN, PostEnds(l, ok, arrived)
  PROVE  LET flight == queue[l].flight
         IN /\ (hub'.connected <=> hub.connected) /\ hub'.life = hub.life
            /\ queue'[l].flight = <<>> /\ \A k \in Life : queue'[k].buffer = queue[k].buffer
            /\ \A k \in Life : k # l => queue'[k] = queue[k]
            /\ \A x \in Calls :
                 /\ call'[x].chained = call[x].chained
                 /\ call'[x].chain = call[x].chain \/ \E i \in DOMAIN flight : Says(flight[i], x)
                 /\ ~ok /\ call'[x].chain # "broken" =>
                      \A i \in DOMAIN flight : Says(flight[i], x) => flight[i].type = "Invocation"
<1> DEFINE flight == queue[l].flight
<1>1. /\ Client' \in ClientType /\ Settles(Client, Client', flight, ok)
      /\ queue' = QueueWith(l, [queue[l] EXCEPT !.flight = <<>>])
  BY PostFacts
<1>2. (hub'.connected <=> hub.connected) /\ hub'.life = hub.life
  BY <1>1, Typed, SettlesSameLife
<1>3. /\ \A k \in Life : queue'[k].buffer = queue[k].buffer
      /\ queue'[l].flight = <<>> /\ \A k \in Life : k # l => queue'[k] = queue[k]
  BY <1>1, Typed DEF QueueWith, QueueType
<1> HIDE DEF flight
<1>4. ASSUME NEW x \in Calls
      PROVE  /\ call'[x].chained = call[x].chained
             /\ call'[x].chain = call[x].chain \/ \E i \in DOMAIN flight : Says(flight[i], x)
             /\ ~ok /\ call'[x].chain # "broken" =>
                  \A i \in DOMAIN flight : Says(flight[i], x) => flight[i].type = "Invocation"
  <2>1. /\ Client'.call[x].chained = Client.call[x].chained
        /\ Client'.call[x].chain = Client.call[x].chain \/ \E i \in DOMAIN flight : Says(flight[i], x)
        /\ ~ok /\ Client'.call[x].chain # "broken" =>
             \/ Client'.call[x].chain = Client.call[x].chain
                /\ \A i \in DOMAIN flight : ~Says(flight[i], x)
             \/ \A i \in DOMAIN flight : Says(flight[i], x) => flight[i].type = "Invocation"
    BY <1>1, Typed, SettlesChain
  <2>2. Client'.call = call' /\ Client.call = call
    BY DEF Client
  <2>3. QED
    BY <2>1, <2>2
<1>5. QED
  BY <1>2, <1>3, <1>4 DEF flight

LEMMA PostTalk ==
  ASSUME TypeOK, QueueInv, MessagesInv, SpeechInv, SameHeard,
         NEW l \in Life, NEW ok \in BOOLEAN, NEW arrived \in BOOLEAN, PostEnds(l, ok, arrived)
  PROVE  SpeechInv'
<1> DEFINE flight == queue[l].flight
           w == "flight"
<1>1. /\ (hub'.connected <=> hub.connected) /\ hub'.life = hub.life
      /\ queue'[l].flight = <<>> /\ \A k \in Life : queue'[k].buffer = queue[k].buffer
      /\ \A k \in Life : k # l => queue'[k] = queue[k]
      /\ \A x \in Calls :
           /\ call'[x].chained = call[x].chained
           /\ call'[x].chain = call[x].chain \/ \E i \in DOMAIN flight : Says(flight[i], x)
           /\ ~ok /\ call'[x].chain # "broken" =>
                \A i \in DOMAIN flight : Says(flight[i], x) => flight[i].type = "Invocation"
  BY PostLines
<1>2. /\ (ok => arrived) /\ setup' = setup /\ net' \in NetType
      /\ net'.up = IF arrived \/ l # hub.life THEN net.up ELSE SubSeq(net.up, 1, Unheard(l))
  BY PostFacts
<1>3. hub.life \in Life /\ net'.up \in Seq(Message)
  BY <1>2, Typed DEF HubType, NetType
<1>4. FlightInv'
  <2>1. CASE l = hub.life
    <3>1. queue'[hub'.life].flight = <<>>
      BY <1>1, <2>1
    <3>2. Flown(net'.up, <<>>)
      BY <1>3, NoFlight
    <3>3. QED
      BY <3>1, <3>2 DEF FlightInv
  <2>2. CASE l # hub.life
    <3>1. queue'[hub.life].flight = queue[hub.life].flight
      BY <1>1, <1>3, <2>2
    <3>2. QED
      BY <1>1, <1>2, <2>2, <3>1, SameFlight DEF SpeechInv
  <2>3. QED
    BY <2>1, <2>2
<1>5. /\ w \in Ways /\ Line(queue[l], w) = flight /\ Line(queue'[l], w) = <<>>
      /\ \A k \in Life, v \in Ways : k # l \/ v # w => Line(queue'[k], v) = Line(queue[k], v)
  BY <1>1 DEF Ways, Line
<1> HIDE DEF w
<1>6. ASSUME NEW x \in Calls PROVE TalkWell(x)'
  <2>1. TalkWell(x) /\ OutWell(queue, call[x], x)
    BY DEF SpeechInv, TalkWell
  <2>2. LastHeard(x)' = LastHeard(x)
    BY <1>1, SameLast DEF SameHeard
  <2>3. /\ call'[x].chained = call[x].chained
        /\ \/ call'[x].chain = call[x].chain
           \/ \E i \in DOMAIN Line(queue[l], w) : Says(Line(queue[l], w)[i], x)
    BY <1>1, <1>5
  <2>4. OutWell(queue', call'[x], x)
    BY <1>5, <2>1, <2>3, OutClears
  <2>5. ASSUME Wire' = Wire PROVE GoesWell(x)'
    BY <1>1, <1>5, <2>1, <2>2, <2>3, <2>5, SettlesGoes
  <2>6. ASSUME net'.up = net.up PROVE GoesWell(x)'
    <3>1. Wire' = Wire
      BY <1>1, <1>3, <2>6, QuietWire
    <3>2. QED
      BY <2>5, <3>1
  <2>7. ASSUME ~hub.connected PROVE GoesWell(x)'
    <3>1. Wire' = Wire
      BY <1>1, <2>7 DEF Wire
    <3>2. QED
      BY <2>5, <3>1
  <2>8. ASSUME hub.connected /\ ~arrived /\ l = hub.life PROVE GoesWell(x)'
    <3>1. ~ok /\ net'.up = SubSeq(net.up, 1, Unheard(l))
      BY <1>2, <2>8
    <3>2. Wire' = SubSeq(net.up, 1, Unheard(hub.life)) \o queue[hub.life].buffer
      BY <1>1, <1>3, <2>8, <3>1 DEF Wire
    <3>3. LET f == queue[hub.life].flight
          IN /\ call'[x].chain = call[x].chain \/ \E i \in DOMAIN f : Says(f[i], x)
             /\ call'[x].chain # "broken" =>
                  \A i \in DOMAIN f : Says(f[i], x) => f[i].type = "Invocation"
      BY <1>1, <2>8, <3>1
    <3>4. FlightInv /\ hub.connected
      BY <2>8 DEF SpeechInv
    <3>5. QED
      BY <2>1, <2>2, <2>3, <3>2, <3>3, <3>4, CutGoes
  <2>9. GoesWell(x)'
    BY <1>2, <2>6, <2>7, <2>8
  <2>10. QED
    BY <2>4, <2>9 DEF TalkWell
<1>7. QED
  BY <1>2, <1>4, <1>6, Fixed DEF SpeechInv

LEMMA ReceivesHeard ==
  ASSUME TypeOK, IdsInv(Client), ServerInv, MessagesInv, ServerReceives, NEW x \in Calls
  PROVE  LET m == Head(net.up)
         IN server'[x].heard = IF Says(m, x) THEN Append(server[x].heard, At(m.n)) ELSE server[x].heard
<1> DEFINE m == Head(net.up)
           y == m.of
<1>1. /\ UpWell(m)
      /\ \/ m.type = "Invocation" /\ server' = ServerWith(y, Begun(y, m))
         \/ m.type \in {"StreamItem", "Completion"} /\ server' = ServerWith(y, Hearing(y, m.n))
         \/ /\ m.type = "CancelInvocation"
            /\ server' = IF server[y].state = "running" THEN ServerWith(y, Done(y)) ELSE server
         \/ m.type = "Reply" /\ server' = server
  BY ServerReceivesFacts
<1> HIDE DEF m
<1>2. server[x] \in ServerType /\ server \in [Calls -> ServerType]
  BY Typed
<1>3. ASSUME NEW r, server' = ServerWith(y, r) PROVE server'[x] = IF x = y THEN r ELSE server[x]
  BY <1>2, <1>3 DEF ServerWith
<1>4. CASE m.type = "Invocation" /\ server' = ServerWith(y, Begun(y, m))
  <2>1. m.n = 0
    BY <1>1, <1>4 DEF UpWell
  <2>2. Begun(x, m).heard = Append(server[x].heard, At(0))
    BY <1>2 DEF Begun, ServerType
  <2>3. Says(m, x) <=> x = y
    BY <1>4 DEF Says
  <2>4. server'[x] = IF x = y THEN Begun(y, m) ELSE server[x]
    BY <1>3, <1>4
  <2>5. QED
    BY <2>1, <2>2, <2>3, <2>4 DEF m
<1>5. CASE m.type \in {"StreamItem", "Completion"} /\ server' = ServerWith(y, Hearing(y, m.n))
  <2>1. Hearing(x, m.n).heard = Append(server[x].heard, At(m.n))
    BY <1>2 DEF Hearing, ServerType
  <2>2. Says(m, x) <=> x = y
    BY <1>5 DEF Says
  <2>3. server'[x] = IF x = y THEN Hearing(y, m.n) ELSE server[x]
    BY <1>3, <1>5
  <2>4. QED
    BY <2>1, <2>2, <2>3 DEF m
<1>6. CASE /\ m.type = "CancelInvocation"
           /\ server' = IF server[y].state = "running" THEN ServerWith(y, Done(y)) ELSE server
  <2>1. ~Says(m, x)
    BY <1>6 DEF Says
  <2>2. Done(x).heard = server[x].heard
    BY <1>2 DEF Done, ServerType
  <2>3. server'[x] = server[x] \/ (x = y /\ server'[x] = Done(y))
    BY <1>3, <1>6
  <2>4. QED
    BY <2>1, <2>2, <2>3 DEF m
<1>7. CASE m.type = "Reply" /\ server' = server
  BY <1>7 DEF Says, m
<1>8. QED
  BY <1>1, <1>4, <1>5, <1>6, <1>7

\* One more that was heard.
HeardLives(s, life) == \A i \in DOMAIN s : s[i][1] <= life
HeardGap(s) == \A i \in DOMAIN s \ {1} : s[i][1] = s[i - 1][1] => s[i][2] = s[i - 1][2] + 1
LastOf(s, life) == IF s # <<>> /\ s[Len(s)][1] = life THEN s[Len(s)][2] ELSE -1

LEMMA HearsNext ==
  ASSUME NEW s \in Seq(Life \X Nat), NEW life \in Life, NEW n \in Nat,
         HeardLives(s, life), HeardGap(s), LastOf(s, life) = -1 \/ n = LastOf(s, life) + 1
  PROVE  LET t == Append(s, <<life, n>>)
         IN HeardLives(t, life) /\ HeardGap(t) /\ LastOf(t, life) = n
<1> DEFINE t == Append(s, <<life, n>>)
           k == Len(s)
<1>0. <<life, n>> \in Life \X Nat /\ life \in Nat
  BY Bounds DEF Life
<1>1. /\ k \in Nat /\ DOMAIN s = 1 .. k /\ DOMAIN t = 1 .. k + 1 /\ Len(t) = k + 1
      /\ t[k + 1] = <<life, n>> /\ \A i \in 1 .. k : t[i] = s[i]
  BY <1>0, AppendProperties, LenProperties
<1>2. t # <<>>
  BY <1>1
<1>3. s # <<>> <=> k > 0
  BY <1>1, EmptySeq
<1>4. k > 0 => s[k] \in Life \X Nat
  BY <1>1, ElementOfSeq
<1>5. k > 0 /\ s[k][1] = life => n = s[k][2] + 1
  <2>1. ASSUME k > 0, s[k][1] = life PROVE n = s[k][2] + 1
    <3>1. LastOf(s, life) = s[k][2]
      BY <1>3, <2>1 DEF LastOf
    <3>2. s[k][2] \in Nat
      BY <1>4, <2>1
    <3>3. QED
      BY <3>1, <3>2
  <2>2. QED
    BY <2>1
<1> HIDE DEF t, k
<1>6. HeardLives(t, life)
  BY <1>0, <1>1 DEF HeardLives
<1>7. ASSUME NEW i \in DOMAIN t \ {1}, t[i][1] = t[i - 1][1] PROVE t[i][2] = t[i - 1][2] + 1
  <2>1. CASE i \in 1 .. k
    <3>1. i \in DOMAIN s \ {1} /\ i - 1 \in 1 .. k
      BY <1>1, <1>7, <2>1
    <3>2. t[i] = s[i] /\ t[i - 1] = s[i - 1]
      BY <1>1, <3>1
    <3>3. QED
      BY <1>7, <3>1, <3>2 DEF HeardGap
  <2>2. CASE i = k + 1
    <3>1. k > 0 /\ i - 1 = k /\ k \in 1 .. k
      BY <1>1, <1>7, <2>2
    <3>2. t[i - 1] = s[k] /\ t[i][1] = life /\ t[i][2] = n
      BY <1>1, <2>2, <3>1
    <3>3. QED
      BY <1>5, <1>7, <3>1, <3>2
  <2>3. QED
    BY <1>1, <2>1, <2>2
<1>8. LastOf(t, life) = n
  BY <1>1, <1>2 DEF LastOf
<1>9. QED
  BY <1>6, <1>7, <1>8 DEF HeardGap, t

\* What is left in flight when the first of the network arrived.
LEMMA FlownTail ==
  ASSUME NEW up \in Seq(Message), up # <<>>, NEW flight \in Seq(Message), Flown(up, flight)
  PROVE  Flown(Tail(up), flight)
<1> DEFINE t == Tail(up)
           n == Len(up)
           k == Len(flight)
<1>1. n \in Nat \ {0} /\ k \in Nat /\ DOMAIN up = 1 .. n /\ DOMAIN t = 1 .. n - 1 /\ Len(t) = n - 1
      /\ \A i \in 1 .. n - 1 : t[i] = up[i + 1]
  BY HeadTailProperties, LenProperties, EmptySeq
<1>2. \A i \in DOMAIN up : i > n - k => up[i] = flight[i - n + k]
  BY DEF Flown
<1> HIDE DEF t, n, k
<1>3. ASSUME NEW i \in DOMAIN t, i > Len(t) - k PROVE t[i] = flight[i - Len(t) + k]
  <2>1. i \in 1 .. n - 1 /\ i + 1 \in DOMAIN up /\ i + 1 > n - k /\ (i + 1) - n + k = i - Len(t) + k
    BY <1>1, <1>3
  <2>2. up[i + 1] = flight[(i + 1) - n + k]
    BY <1>2, <2>1
  <2>3. t[i] = up[i + 1]
    BY <1>1, <2>1
  <2>4. QED
    BY <2>1, <2>2, <2>3
<1>4. QED
  BY <1>3 DEF Flown, t, k

LEMMA ReceivesTalk ==
  ASSUME TypeOK, IdsInv(Client), ServerInv, MessagesInv, QueueInv, SpeechInv, HeardInv, ServerReceives
  PROVE  SpeechInv' /\ HeardInv'
<1> DEFINE m == Head(net.up)
           n == Len(Wire)
<1>1. /\ hub.connected /\ net.up # <<>> /\ UNCHANGED <<hub, call, queue, setup>>
      /\ m \in Message /\ net'.up = Tail(net.up)
  BY ServerReceivesFacts
<1>2. /\ n \in Nat \ {0} /\ Wire[1] = m /\ DOMAIN Wire = 1 .. n /\ DOMAIN Wire' = 1 .. n - 1
      /\ \A i \in DOMAIN Wire' : Wire'[i] = Wire[i + 1]
  BY <1>1, ReceivesWire
<1>3. Wire \in Seq(Message) /\ Wire' \in Seq(Message)
  <2>1. net.up \in Seq(Message) /\ queue[hub.life].buffer \in Seq(Message)
    BY Typed DEF NetType, QueueType, HubType
  <2>2. Tail(net.up) \in Seq(Message)
    BY <1>1, <2>1, HeadFacts
  <2>3. Wire = net.up \o queue[hub.life].buffer /\ Wire' = Tail(net.up) \o queue[hub.life].buffer
    BY <1>1 DEF Wire
  <2>4. QED
    BY <2>1, <2>2, <2>3, ConcatProperties
<1>4. hub.life \in Life /\ m.n \in Nat
  BY <1>1, Typed DEF HubType, Message
<1>5. FlightInv'
  <2>1. net.up \in Seq(Message) /\ queue[hub.life].flight \in Seq(Message)
    BY Typed DEF NetType, QueueType, HubType
  <2>2. Flown(net.up, queue[hub.life].flight)
    BY <1>1 DEF SpeechInv, FlightInv
  <2>3. Flown(net'.up, queue[hub.life].flight)
    BY <1>1, <2>1, <2>2, FlownTail
  <2>4. QED
    BY <1>1, <2>3 DEF FlightInv
<1> HIDE DEF m, n
<1>6. ASSUME NEW x \in Calls PROVE TalkWell(x)' /\ LivesWell(x)' /\ GapWell(x)'
  <2> DEFINE heard == server[x].heard
             h == LastHeard(x)
             c == call[x].chained
             life == hub.life
  <2>1. /\ TalkWell(x) /\ OutWell(queue, call[x], x) /\ WireWell(Wire, x, h, c)
        /\ call[x].chain # "broken" => Blank(Wire, x, h) \/ Reached(Wire, x, h, c)
    BY <1>1 DEF SpeechInv, TalkWell, GoesWell
  <2>2. h \in Int /\ c \in Nat /\ c \in Int
    BY LastFacts
  <2>3. heard \in Seq(Life \X Nat)
    BY Typed DEF ServerType
  <2>4. HeardLives(heard, life) /\ HeardGap(heard) /\ h = LastOf(heard, life)
    BY DEF HeardInv, LivesWell, GapWell, HeardLives, HeardGap, LastHeard, LastOf
  <2>5. server'[x].heard = IF Says(m, x) THEN Append(heard, At(m.n)) ELSE heard
    BY ReceivesHeard DEF m
  <2>6. hub'.life = life /\ hub'.connected = hub.connected /\ call' = call /\ queue' = queue
    BY <1>1
  <2>7. ASSUME NEW s, server'[x].heard = s, HeardLives(s, life), HeardGap(s), NEW g, LastOf(s, life) = g,
               WireWell(Wire', x, g, c),
               call[x].chain # "broken" => Blank(Wire', x, g) \/ Reached(Wire', x, g, c)
        PROVE  TalkWell(x)' /\ LivesWell(x)' /\ GapWell(x)'
    <3>1. LastHeard(x)' = g
      BY <2>6, <2>7 DEF LastHeard, LastOf
    <3>2. LivesWell(x)'
      BY <2>6, <2>7 DEF LivesWell, HeardLives
    <3>3. GapWell(x)'
      BY <2>7 DEF GapWell, HeardGap
    <3>4. OutWell(queue', call'[x], x)
      BY <2>1, <2>6
    <3>5. GoesWell(x)'
      BY <2>6, <2>7, <3>1 DEF GoesWell
    <3>6. QED
      BY <3>2, <3>3, <3>4, <3>5 DEF TalkWell
  <2>8. CASE Says(m, x)
    <3> DEFINE s == Append(heard, <<life, m.n>>)
    <3> HIDE DEF h, c
    <3>1. /\ h = -1 \/ m.n = h + 1
          /\ WireWell(Wire', x, m.n, c)
          /\ Blank(Wire, x, h) \/ Reached(Wire, x, h, c) => Reached(Wire', x, m.n, c)
      <4>1. Says(Wire[1], x) /\ Wire[1].n = m.n
        BY <1>2, <2>8
      <4>2. WireWell(Wire, x, h, c)
        BY <2>1
      <4>3. h \in Int /\ c \in Nat
        BY <2>2
      <4>4. /\ h = -1 \/ Wire[1].n = h + 1
            /\ WireWell(Wire', x, Wire[1].n, c)
            /\ Blank(Wire, x, h) \/ Reached(Wire, x, h, c) => Reached(Wire', x, Wire[1].n, c)
        BY <1>2, <1>3, <4>1, <4>2, <4>3, WellHeard
      <4>5. QED
        BY <4>1, <4>4
    <3>2. server'[x].heard = s
      BY <2>5, <2>8 DEF At
    <3> HIDE DEF heard
    <3>3. HeardLives(s, life) /\ HeardGap(s) /\ LastOf(s, life) = m.n
      BY <1>4, <2>3, <2>4, <3>1, HearsNext
    <3> HIDE DEF s
    <3>4. QED
      BY <2>1, <2>7, <3>1, <3>2, <3>3
  <2>9. CASE ~Says(m, x)
    <3> HIDE DEF h, c
    <3>1. /\ WireWell(Wire, x, h, c) => WireWell(Wire', x, h, c)
          /\ Blank(Wire, x, h) => Blank(Wire', x, h)
          /\ Reached(Wire, x, h, c) => Reached(Wire', x, h, c)
      <4>1. ~Says(Wire[1], x)
        BY <1>2, <2>9
      <4>2. QED
        BY <1>2, <1>3, <2>2, <4>1, WellNotHeard
    <3>2. server'[x].heard = heard
      BY <2>5, <2>9
    <3> HIDE DEF heard
    <3>3. QED
      BY <2>1, <2>4, <2>7, <3>1, <3>2
  <2>10. QED
    BY <2>8, <2>9
<1>7. Calls' = Calls
  BY <1>1, Fixed
<1>8. QED
  BY <1>5, <1>6, <1>7 DEF SpeechInv, HeardInv

\* What was heard stays heard.
LEMMA HeardKept ==
  ASSUME TypeOK, HeardInv, SameHeard, setup' = setup, hub'.life \in Nat, hub.life <= hub'.life
  PROVE  HeardInv'
<1>1. ASSUME NEW x \in Calls PROVE LivesWell(x)' /\ GapWell(x)'
  <2> DEFINE heard == server[x].heard
  <2>1. heard \in Seq(Life \X Nat) /\ hub.life \in Nat
    BY Typed, LastFacts DEF ServerType
  <2>2. server'[x].heard = heard
    BY DEF SameHeard
  <2>3. /\ \A i \in DOMAIN heard : heard[i][1] <= hub.life
        /\ \A i \in DOMAIN heard \ {1} : heard[i][1] = heard[i - 1][1] => heard[i][2] = heard[i - 1][2] + 1
    BY DEF HeardInv, LivesWell, GapWell
  <2> HIDE DEF heard
  <2>4. \A i \in DOMAIN heard : heard[i][1] \in Nat
    <3>1. \A i \in DOMAIN heard : heard[i] \in Life \X Nat
      BY <2>1, ElementOfSeq, LenProperties
    <3>2. QED
      BY <3>1, Bounds DEF Life
  <2>5. \A i \in DOMAIN heard : heard[i][1] <= hub'.life
    BY <2>1, <2>3, <2>4
  <2>6. QED
    BY <2>2, <2>3, <2>5 DEF LivesWell, GapWell
<1>2. QED
  BY <1>1, Fixed DEF HeardInv

LEMMA InitTalk == Init => SpeechInv /\ HeardInv
<1> SUFFICES ASSUME Init PROVE SpeechInv /\ HeardInv
  OBVIOUS
<1>1. SeenIndInv /\ TypeOK
  BY InitSeen DEF SeenIndInv, MessagesIndInv
<1>2. hub.connected /\ hub.life = 1 /\ net.up = <<>>
  BY DEF Init
<1>3. /\ \A x \in Calls : server[x].heard = <<>> /\ call[x].chained = 0
      /\ \A l \in Life : queue[l].buffer = <<>> /\ queue[l].flight = <<>>
  BY DEF Init
<1>4. \A i : i \notin DOMAIN <<>>
  OBVIOUS
<1>5. hub.life \in Life
  BY <1>1, LastFacts, Typed DEF HubType
<1>6. Wire = <<>>
  <2>1. Wire = <<>> \o <<>>
    BY <1>2, <1>3, <1>5 DEF Wire
  <2>2. QED
    BY <2>1
<1>7. FlightInv
  <2>1. net.up = <<>>
    BY <1>2
  <2>2. QED
    BY <1>4, <2>1 DEF FlightInv, Flown
<1>8. ASSUME NEW x \in Calls PROVE TalkWell(x) /\ LivesWell(x) /\ GapWell(x)
  <2>1. LastHeard(x) = -1 /\ call[x].chained = 0
    BY <1>1, <1>3, LastFacts
  <2>2. WireWell(<<>>, x, -1, 0) /\ Blank(<<>>, x, -1)
    BY EmptyWell
  <2>3. GoesWell(x)
    BY <1>6, <2>1, <2>2 DEF GoesWell
  <2>4. \A l \in Life, w \in Ways : Line(queue[l], w) = <<>>
    BY <1>3 DEF Line
  <2>5. OutWell(queue, call[x], x)
    BY <1>4, <2>4 DEF OutWell
  <2>6. server[x].heard = <<>>
    BY <1>3
  <2>7. LivesWell(x) /\ GapWell(x)
    BY <1>4, <2>6 DEF LivesWell, GapWell
  <2>8. QED
    BY <2>3, <2>5, <2>7 DEF TalkWell
<1>9. QED
  BY <1>7, <1>8 DEF SpeechInv, HeardInv

\* An answer says nothing.
LEMMA AnswerChains ==
  ASSUME TypeOK, NEW m, NEW y \in Calls,
         \/ call' = [call EXCEPT ![y] = AfterCompletion(call[y], y, m)]
         \/ call' = [call EXCEPT ![y] = AfterItem(call[y], m)]
  PROVE  \A x \in Calls : SameChain(call[x], call'[x])
<1>1. call[y] \in CallType /\ call \in [Calls -> CallType]
  BY Typed
<1>2. SameChain(call[y], AfterCompletion(call[y], y, m))
  BY <1>1, CompletionSettles DEF SameChain
<1>3. SameChain(call[y], AfterItem(call[y], m))
  BY <1>1 DEF AfterItem, SameChain, CallType
<1>4. \A x \in Calls : SameChain(call[x], call[x])
  BY DEF SameChain
<1>5. ASSUME NEW r, SameChain(call[y], r), call' = [call EXCEPT ![y] = r], NEW x \in Calls
      PROVE  SameChain(call[x], call'[x])
  <2>1. call'[x] = IF x = y THEN r ELSE call[x]
    BY <1>1, <1>5
  <2>2. QED
    BY <1>4, <1>5, <2>1
<1>6. QED
  BY <1>2, <1>3, <1>5

LEMMA SendsLife ==
  ASSUME NEW c \in ClientType, Client' \in ClientType, NEW m, Sends(c, Client', m)
  PROVE  (hub'.connected <=> c.hub.connected) /\ hub'.life = c.hub.life
<1> DEFINE no == FALSE
<1>1. no \in BOOLEAN /\ \E batch : Settles(c, Client', batch, no)
  BY DEF Sends
<1> HIDE DEF no
<1>2. QED
  BY <1>1, SettlesSameLife

LEMMA RanLife ==
  ASSUME TypeOK, NEW a \in Asks, NEW r \in AskType, Ran(a, r)
  PROVE  hub'.life = hub.life
<1>1. Client' \in ClientType /\ (Sends(Client, Client', Reply(a, r)) \/ Client' = Client)
  BY RanFacts
<1>2. CASE Client' = Client
  BY <1>2, Typed DEF Client
<1>3. CASE Sends(Client, Client', Reply(a, r))
  BY <1>1, <1>3, SendsLife, Typed
<1>4. QED
  BY <1>1, <1>2, <1>3

LEMMA ReceiveTalk ==
  ASSUME TypeOK, MessagesInv, SpeechInv, SameHeard, Receive
  PROVE  SpeechInv' /\ hub'.life = hub.life
<1> DEFINE m == Head(net.down)
<1>1. /\ DownWell(m) /\ net'.up = net.up /\ setup' = setup
      /\ \/ m.type = "Completion" /\ Complete(m)
         \/ m.type = "StreamItem" /\ StreamItem(m) /\ m.n \in 1 .. MaxItems
         \/ m.type = "Invocation" /\ Invoke(m.of)
  BY ReceiveFacts
<1> HIDE DEF m
<1>2. ASSUME queue' = queue, hub'.connected <=> hub.connected, hub'.life = hub.life,
             \A x \in Calls : SameChain(call[x], call'[x])
      PROVE  SpeechInv'
  BY <1>1, <1>2, QuietTalk
<1>3. \A x \in Calls : call' = call => SameChain(call[x], call'[x])
  BY DEF SameChain
<1>4. CASE m.type = "Completion" /\ Complete(m)
  <2>1. hub' = [hub EXCEPT !.callbacks = {p \in hub.callbacks : p[1] # m.id}] /\ queue' = queue
    BY <1>4 DEF Complete
  <2>2. (hub'.connected <=> hub.connected) /\ hub'.life = hub.life
    BY <2>1, Typed DEF HubType
  <2>3. \/ call' = call
        \/ \E y \in Calls : call' = [call EXCEPT ![y] = AfterCompletion(call[y], y, m)]
    BY <1>4, CompletionFacts, Typed DEF Client
  <2>4. \A x \in Calls : SameChain(call[x], call'[x])
    BY <1>3, <2>3, AnswerChains
  <2>5. QED
    BY <1>2, <2>1, <2>2, <2>4
<1>5. CASE m.type = "StreamItem" /\ StreamItem(m) /\ m.n \in 1 .. MaxItems
  <2>1. hub' = hub /\ queue' = queue
    BY <1>5, ItemFacts
  <2>2. \/ call' = call
        \/ \E y \in Calls : call' = [call EXCEPT ![y] = AfterItem(call[y], m)]
    BY <1>5, ItemFacts, Typed DEF Client
  <2>3. \A x \in Calls : SameChain(call[x], call'[x])
    BY <1>3, <2>2, AnswerChains
  <2>4. QED
    BY <1>2, <2>1, <2>3
<1>6. CASE m.type = "Invocation" /\ Invoke(m.of)
  <2>1. m.of \in Asks
    BY <1>1, <1>6 DEF DownWell
  <2>2. PICK r \in AskType : Ran(m.of, r)
    BY <1>6, <2>1, InvokeFacts
  <2>3. SpeechInv'
    BY <1>1, <2>1, <2>2, RanTalk
  <2>4. hub'.life = hub.life
    BY <2>1, <2>2, RanLife
  <2>5. QED
    BY <2>3, <2>4
<1>7. QED
  BY <1>1, <1>4, <1>5, <1>6

LEMMA NextTalk ==
  ASSUME SeenIndInv, SpeechInv, HeardInv, [Next]_vars
  PROVE  SpeechInv' /\ HeardInv'
<1>0. /\ TypeOK /\ ClientInv(Client) /\ IdsInv(Client) /\ ServerInv /\ MessagesInv /\ AsksInv
      /\ QueueInv /\ NextSteps /\ setup' = setup
  BY NextSeenInd DEF SeenIndInv, MessagesIndInv, ClientInv, NextSteps
<1>1. CASE ServerReceives
  BY <1>0, <1>1, ReceivesTalk
<1> SUFFICES ASSUME ~ServerReceives PROVE SpeechInv' /\ HeardInv'
  BY <1>1
<1>2. SameHeard /\ hub.life \in Nat
  BY <1>0, HeardStays, Typed, Bounds DEF HubType, Life
<1>3. ASSUME SpeechInv', hub'.life = hub.life PROVE SpeechInv' /\ HeardInv'
  BY <1>0, <1>2, <1>3, HeardKept
<1>4. ASSUME queue' = queue, net'.up = net.up, hub'.connected <=> hub.connected, hub'.life = hub.life,
             \A x \in Calls : SameChain(call[x], call'[x])
      PROVE  SpeechInv' /\ HeardInv'
  BY <1>0, <1>2, <1>3, <1>4, QuietTalk
<1>5. call' = call => \A x \in Calls : SameChain(call[x], call'[x])
  BY DEF SameChain
<1>6. ASSUME NEW l \in Life, LoopGoesOn(l) PROVE SpeechInv' /\ HeardInv'
  BY <1>0, <1>2, <1>3, <1>6, LoopTalk, LoopWire
<1>7. ASSUME NEW x \in Calls, ChainGoesOn(x) PROVE SpeechInv' /\ HeardInv'
  <2>1. /\ ChainStep(x) \in ClientType /\ Client' \in ClientType
        /\ Sends(ChainStep(x), Client', UploadItem(x, call[x].chained + 1))
    BY <1>0, <1>7, ChainFacts
  <2>2. ChainStep(x).hub = hub
    BY DEF ChainStep, CallWith
  <2>3. hub'.life = hub.life
    BY <2>1, <2>2, SendsLife
  <2>4. QED
    BY <1>0, <1>2, <1>3, <1>7, <2>3, ChainTalk
<1>8. ASSUME NEW x \in Calls, CancelGoesOn(x) PROVE SpeechInv' /\ HeardInv'
  <2>1. /\ CancelStep(x) \in ClientType /\ Client' \in ClientType
        /\ Sends(CancelStep(x), Client', CancelInvocation(x))
    BY <1>0, <1>8, CancelFacts
  <2>2. CancelStep(x).hub = hub
    BY DEF CancelStep, CallWith
  <2>3. hub'.life = hub.life
    BY <2>1, <2>2, SendsLife
  <2>4. QED
    BY <1>0, <1>2, <1>3, <1>8, <2>3, CancelTalk
<1>9. ASSUME NEW x \in Calls, Call(x) PROVE SpeechInv' /\ HeardInv'
  <2>1. /\ CallStep(x) \in ClientType /\ Client' \in ClientType
        /\ Sends(CallStep(x), Client', CallMessage(x))
    BY <1>0, <1>9, CallFacts
  <2>2. CallStep(x).hub.life = hub.life
    BY <1>0, Typed DEF CallStep, HubType
  <2>3. hub'.life = hub.life
    BY <2>1, <2>2, SendsLife
  <2>4. QED
    BY <1>0, <1>2, <1>3, <1>9, <2>3, CallTalk
<1>10. ASSUME NEW x \in Calls, Push(x) \/ Dispose(x) PROVE SpeechInv' /\ HeardInv'
  <2>1. queue' = queue /\ net' = net /\ (hub'.connected <=> hub.connected) /\ hub'.life = hub.life
    BY <1>0, <1>10, PushFacts, DisposeFacts, Typed DEF HubType
  <2>2. \/ call' = [call EXCEPT ![x] = [call[x] EXCEPT !.pushed = call[x].pushed + 1]]
        \/ call' = [call EXCEPT ![x] = [call[x] EXCEPT !.cancel = "wanted"]]
    BY <1>0, <1>10, PushFacts, DisposeFacts DEF Client, CallWith
  <2>3. \A y \in Calls : SameChain(call[y], call'[y])
    <3>1. call[x] \in CallType /\ call \in [Calls -> CallType]
      BY <1>0, Typed
    <3> DEFINE r == [call[x] EXCEPT !.pushed = call[x].pushed + 1]
               s == [call[x] EXCEPT !.cancel = "wanted"]
    <3>2. SameChain(call[x], r) /\ SameChain(call[x], s)
      BY <3>1 DEF CallType, SameChain
    <3>3. call' = [call EXCEPT ![x] = r] \/ call' = [call EXCEPT ![x] = s]
      BY <2>2
    <3> HIDE DEF r, s
    <3>4. \A y \in Calls : call'[y] = call[y] \/ (y = x /\ (call'[y] = r \/ call'[y] = s))
      BY <3>1, <3>3
    <3>5. QED
      BY <3>2, <3>4 DEF SameChain
  <2>4. QED
    BY <1>4, <2>1, <2>3
<1>11. ASSUME On \/ Off PROVE SpeechInv' /\ HeardInv'
  <2>1. /\ call' = call /\ queue' = queue /\ net' = net
        /\ (hub'.connected <=> hub.connected) /\ hub'.life = hub.life
    BY <1>0, <1>11, MethodsFacts, Typed DEF HubType
  <2>2. QED
    BY <1>4, <1>5, <2>1
<1>12. ASSUME NEW a \in Asks, NEW how, HandlerEnds(a, how) PROVE SpeechInv' /\ HeardInv'
  <2>1. net' = net /\ \E r \in AskType : Ran(a, r)
    BY <1>0, <1>12, HandlerFacts
  <2>2. QED
    BY <1>0, <1>2, <1>3, <2>1, RanTalk, RanLife
<1>13. ASSUME Receive PROVE SpeechInv' /\ HeardInv'
  BY <1>0, <1>2, <1>3, <1>13, ReceiveTalk
<1>14. ASSUME NEW l \in Life, NEW ok \in BOOLEAN, NEW arrived \in BOOLEAN, PostEnds(l, ok, arrived)
       PROVE  SpeechInv' /\ HeardInv'
  BY <1>0, <1>2, <1>3, <1>14, PostTalk, PostLines
<1>15. ASSUME Close PROVE SpeechInv' /\ HeardInv'
  <2>1. hub'.life = hub.life
    BY <1>0, <1>15, CloseFacts, Typed DEF HubType
  <2>2. QED
    BY <1>0, <1>2, <1>3, <1>15, <2>1, CloseTalk
<1>16. ASSUME Reopen PROVE SpeechInv' /\ HeardInv'
  <2>1. hub'.life = hub.life + 1
    BY <1>0, <1>16, ReopenFacts, Typed DEF HubType
  <2>2. hub'.life \in Nat /\ hub.life <= hub'.life
    BY <1>2, <2>1
  <2>3. HeardInv'
    BY <1>0, <1>2, <2>2, HeardKept
  <2>4. QED
    BY <1>0, <1>2, <1>16, <2>3, ReopenTalk
<1>17. ASSUME NEW x \in Calls, NEW ok \in BOOLEAN, ServerCompletes(x, ok) PROVE SpeechInv' /\ HeardInv'
  BY <1>0, <1>4, <1>5, <1>17, CompletesFacts
<1>18. ASSUME NEW x \in Calls, ServerYields(x) PROVE SpeechInv' /\ HeardInv'
  BY <1>0, <1>4, <1>5, <1>18, YieldsFacts
<1>19. ASSUME NEW a \in Asks, ServerAsks(a) PROVE SpeechInv' /\ HeardInv'
  BY <1>0, <1>4, <1>5, <1>19, AsksFacts
<1>20. ASSUME UNCHANGED vars PROVE SpeechInv' /\ HeardInv'
  BY <1>4, <1>5, <1>20 DEF vars
<1>21. QED
  BY <1>6, <1>7, <1>8, <1>9, <1>10, <1>11, <1>12, <1>13, <1>14, <1>15, <1>16, <1>17, <1>18, <1>19, <1>20
  DEF Next, GoesOn, Page, Handlers, Posts, Server, Completes, Yields

\* What an observer sees, in order.
LEMMA ShapeOrder ==
  ASSUME NEW seen \in Seq(Notice), NEW k \in Nat, SeenShape(seen, k), NEW i \in DOMAIN seen
  PROVE  /\ seen[i] \notin End => seen[i] = Item(i)
         /\ seen[i] = Completed => i = k + 1 /\ k < Len(seen)
         /\ i > 1 /\ seen[i - 1] \in End => seen[i] = Failed
<1>1. DOMAIN seen = 1 .. Len(seen) /\ Len(seen) \in Nat /\ i \in Nat
  BY LenProperties
<1>2. /\ k \in 0 .. Len(seen) /\ \A j \in 1 .. k : seen[j] = Item(j)
      /\ k < Len(seen) => seen[k + 1] \in End
      /\ \A j \in k + 2 .. Len(seen) : seen[j] = Failed
  BY DEF SeenShape
<1>3. \A j : Item(j) \notin End /\ Item(j) # Completed
  BY DEF Item, End, Completed, Failed
<1>4. Failed \in End /\ Failed # Completed
  BY DEF End, Completed, Failed
<1>5. CASE i \in 1 .. k
  <2>1. seen[i] = Item(i)
    BY <1>2, <1>5
  <2>2. i > 1 => seen[i - 1] \notin End
    <3>1. i > 1 => i - 1 \in 1 .. k
      BY <1>2, <1>5
    <3>2. i > 1 => seen[i - 1] = Item(i - 1)
      BY <1>2, <3>1
    <3>3. QED
      BY <1>3, <3>2
  <2>3. QED
    BY <1>3, <2>1, <2>2
<1>6. CASE i = k + 1
  <2>1. k < Len(seen) /\ seen[i] \in End
    BY <1>1, <1>2, <1>6
  <2>2. i > 1 => seen[i - 1] \notin End
    <3>1. i > 1 => i - 1 \in 1 .. k
      BY <1>6
    <3>2. i > 1 => seen[i - 1] = Item(i - 1)
      BY <1>2, <3>1
    <3>3. QED
      BY <1>3, <3>2
  <2>3. QED
    BY <1>6, <2>1, <2>2
<1>7. CASE i \in k + 2 .. Len(seen)
  BY <1>2, <1>4, <1>7
<1>8. QED
  BY <1>1, <1>5, <1>6, <1>7

LEMMA TalkOrder == SeenIndInv /\ HeardInv => StreamsInOrder
<1> SUFFICES ASSUME SeenIndInv, HeardInv, NEW x \in Calls
             PROVE  LET seen == call[x].seen   heard == server[x].heard IN
                    /\ \A i \in DOMAIN seen :
                         /\ seen[i] \notin End => seen[i] = Item(i)
                         /\ seen[i] = Completed => server[x].state = "done" /\ server[x].items = i - 1
                         /\ i > 1 /\ seen[i - 1] \in End => seen[i] = Failed
                    /\ \A i \in DOMAIN heard \ {1} :
                         heard[i][1] = heard[i - 1][1] => heard[i][2] = heard[i - 1][2] + 1
  BY DEF StreamsInOrder
<1> DEFINE seen == call[x].seen
<1>1. TypeOK /\ SeenInv
  BY DEF SeenIndInv, MessagesIndInv
<1>2. seen \in Seq(Notice)
  BY <1>1, Typed DEF CallType
<1>3. PICK k \in Nat : SeenWell(x, k)
  BY <1>1 DEF SeenInv
<1>4. /\ SeenShape(seen, k)
      /\ k < Len(seen) /\ seen[k + 1] = Completed => server[x].state = "done" /\ server[x].items = k
  BY <1>3 DEF SeenWell
<1> HIDE DEF seen
<1>5. ASSUME NEW i \in DOMAIN seen
      PROVE  /\ seen[i] \notin End => seen[i] = Item(i)
             /\ seen[i] = Completed => server[x].state = "done" /\ server[x].items = i - 1
             /\ i > 1 /\ seen[i - 1] \in End => seen[i] = Failed
  <2>1. /\ seen[i] \notin End => seen[i] = Item(i)
        /\ seen[i] = Completed => i = k + 1 /\ k < Len(seen)
        /\ i > 1 /\ seen[i - 1] \in End => seen[i] = Failed
    BY <1>2, <1>4, ShapeOrder
  <2>2. seen[i] = Completed => server[x].state = "done" /\ server[x].items = k /\ k = i - 1
    BY <1>4, <2>1
  <2>3. QED
    BY <2>1, <2>2
<1>6. GapWell(x)
  BY DEF HeardInv
<1>7. QED
  BY <1>5, <1>6 DEF GapWell, seen

\* StreamsInOrder: streams keep their order.  An observer sees the items as the server
\* sent them and their end after the last (_processIncomingData and the callbacks of
\* stream()); on one connection the server hears what a call says without a gap, though
\* posts fail and later ones succeed (promiseQueue of _launchStreams, TransportSendQueue).
THEOREM StreamsStayInOrder == Spec => []StreamsInOrder
<1> DEFINE Inv == SeenIndInv /\ SpeechInv /\ HeardInv
<1>1. Init => Inv
  BY InitSeen, InitTalk
<1>2. Inv /\ [Next]_vars => Inv'
  BY NextSeenInd, NextTalk
<1>3. Inv => StreamsInOrder
  BY TalkOrder
<1>4. QED
  BY <1>1, <1>2, <1>3, PTL DEF Spec

-----------------------------------------------------------------------------
(* The frames of the MessagePack protocol *)

Byte == 0 .. 255

LEMMA ShiftValues ==
  /\ Shift[1] = 1 /\ Shift[2] = 128 /\ Shift[3] = 128 * 128
  /\ Shift[4] = 128 * 128 * 128 /\ Shift[5] = 128 * 128 * 128 * 128
  BY SMT DEF Shift

LEMMA SizeIsNat ==
  ASSUME NEW size \in Size
  PROVE  size \in Nat /\ size < 8 * (128 * 128 * 128 * 128)
<1>1. MaxSize < 8 * (128 * 128 * 128 * 128) /\ MaxSize \in Int
  BY SMT DEF MaxSize
<1>2. size \in Nat /\ size <= MaxSize
  BY SMT, <1>1 DEF Size
<1>3. QED
  BY SMT, <1>1, <1>2

LEMMA SizeBytesBound ==
  ASSUME NEW size \in Size
  PROVE  /\ SizeBytes(size) \in 1 .. 5
         /\ SizeBytes(size) = 1 => size < 128
         /\ SizeBytes(size) = 2 => size < 128 * 128
         /\ SizeBytes(size) = 3 => size < 128 * 128 * 128
         /\ SizeBytes(size) = 4 => size < 128 * 128 * 128 * 128
  BY SMT, SizeIsNat DEF SizeBytes

\* The groups of seven bits of a size.
Digit(size, i) == (size \div Shift[i]) % 128

LEMMA WrittenByte ==
  ASSUME NEW size \in Size, NEW i \in 1 .. SizeBytes(size)
  PROVE  /\ Digit(size, i) \in 0 .. 127
         /\ WriteSize(size)[i] = Digit(size, i) + (IF i < SizeBytes(size) THEN 128 ELSE 0)
         /\ WriteSize(size)[i] % 128 = Digit(size, i)
<1>1. i \in 1 .. 5 /\ SizeBytes(size) \in 1 .. 5
  BY SMT, SizeBytesBound
<1>2. size \div Shift[i] \in Int
  BY SMT, SizeIsNat, <1>1, ShiftValues
<1>3. Digit(size, i) \in 0 .. 127
  BY SMT, <1>2 DEF Digit
<1>4. WriteSize(size)[i] = Digit(size, i) + (IF i < SizeBytes(size) THEN 128 ELSE 0)
  BY SMT DEF WriteSize, Digit
<1>5. WriteSize(size)[i] % 128 = Digit(size, i)
  BY SMT, <1>1, <1>3, <1>4
<1>6. QED
  BY SMT, <1>3, <1>4, <1>5

LEMMA DigitsAddUp ==
  ASSUME NEW size \in Size
  PROVE  LET Part(i) == IF i <= SizeBytes(size) THEN Digit(size, i) * Shift[i] ELSE 0
         IN Part(1) + Part(2) + Part(3) + Part(4) + Part(5) = size
<1> DEFINE a == size % 128
           b == ((size \div 128) % 128) * 128
           c == ((size \div (128 * 128)) % 128) * (128 * 128)
           d == ((size \div (128 * 128 * 128)) % 128) * (128 * 128 * 128)
           e == ((size \div (128 * 128 * 128 * 128)) % 128) * (128 * 128 * 128 * 128)
<1>0. size \in Nat /\ size < 8 * (128 * 128 * 128 * 128)
  BY SMT, SizeIsNat
<1>1. /\ Digit(size, 1) * Shift[1] = a /\ Digit(size, 2) * Shift[2] = b
      /\ Digit(size, 3) * Shift[3] = c /\ Digit(size, 4) * Shift[4] = d
      /\ Digit(size, 5) * Shift[5] = e
  BY SMT, SizeIsNat, ShiftValues DEF Digit
<1>2. size < 128 => a = size
  BY SMT, <1>0
<1>3. size < 128 * 128 => a + b = size
  BY SMT, <1>0
<1>4. size < 128 * 128 * 128 => a + b + c = size
  BY SMT, <1>0
<1>5. size < 128 * 128 * 128 * 128 => a + b + c + d = size
  BY SMT, <1>0
<1>6. a + b + c + d + e = size
  BY SMT, <1>0
<1>7. a \in Int /\ b \in Int /\ c \in Int /\ d \in Int /\ e \in Int
  BY SMT, <1>0
<1> HIDE DEF a, b, c, d, e
<1>8. QED
  BY SMT, <1>1, <1>2, <1>3, <1>4, <1>5, <1>6, <1>7, SizeBytesBound, <1>0

LEMMA WriteSizeType ==
  ASSUME NEW size \in Size
  PROVE  WriteSize(size) \in Seq(Byte) /\ Len(WriteSize(size)) = SizeBytes(size)
<1>1. SizeBytes(size) \in Nat
  BY SMT, SizeBytesBound
<1>2. \A i \in 1 .. SizeBytes(size) : WriteSize(size)[i] \in Byte
  <2> SUFFICES ASSUME NEW i \in 1 .. SizeBytes(size)
               PROVE  WriteSize(size)[i] \in Byte
    BY Zenon
  <2>1. /\ Digit(size, i) \in 0 .. 127
        /\ WriteSize(size)[i] = Digit(size, i) + (IF i < SizeBytes(size) THEN 128 ELSE 0)
    BY SMT, WrittenByte
  <2>2. QED
    BY SMT, <2>1 DEF Byte
<1>3. WriteSize(size) \in [1 .. SizeBytes(size) -> Byte]
  BY Zenon, <1>2 DEF WriteSize
<1>4. WriteSize(size) \in Seq(Byte)
  <2> DEFINE n == SizeBytes(size)
  <2>1. WriteSize(size) \in [1 .. n -> Byte] /\ n \in Nat
    BY Zenon, <1>1, <1>3
  <2> HIDE DEF n
  <2>2. WriteSize(size) \in Seq(Byte)
    BY Zenon, <2>1, SeqDef
  <2>3. QED
    BY Zenon, <2>2
<1>5. DOMAIN WriteSize(size) = 1 .. SizeBytes(size)
  BY SMT DEF WriteSize
<1>6. Len(WriteSize(size)) \in Nat /\ DOMAIN WriteSize(size) = 1 .. Len(WriteSize(size))
  BY SMT, <1>4, LenProperties
<1>7. QED
  BY SMT, <1>1, <1>4, <1>5, <1>6

\* Where the parts of s \o t \o u \o v are.
PartsOf(s, t, u, v) ==
  LET all == (s \o (t \o u)) \o v
  IN /\ Len(s \o (t \o u)) = Len(s) + Len(t) + Len(u)
     /\ Len(all) = Len(s) + Len(t) + Len(u) + Len(v)
     /\ \A i \in 1 .. Len(t) : all[Len(s) + i] = t[i]
     /\ \A i \in 1 .. Len(u) : all[Len(s) + Len(t) + i] = u[i]

LEMMA FourParts ==
  ASSUME NEW S, NEW s \in Seq(S), NEW t \in Seq(S), NEW u \in Seq(S), NEW v \in Seq(S)
  PROVE  (s \o (t \o u)) \o v \in Seq(S) /\ PartsOf(s, t, u, v)
<1> DEFINE tu == t \o u
           stu == s \o tu
           all == stu \o v
<1>1. Len(s) \in Nat /\ Len(t) \in Nat /\ Len(u) \in Nat /\ Len(v) \in Nat
  BY SMT, LenProperties
<1>2. /\ tu \in Seq(S) /\ Len(tu) = Len(t) + Len(u)
      /\ \A i \in 1 .. Len(t) + Len(u) : tu[i] = IF i <= Len(t) THEN t[i] ELSE u[i - Len(t)]
  BY Zenon, ConcatProperties
<1> HIDE DEF tu
<1>3. /\ stu \in Seq(S) /\ Len(stu) = Len(s) + Len(tu)
      /\ \A i \in 1 .. Len(s) + Len(tu) : stu[i] = IF i <= Len(s) THEN s[i] ELSE tu[i - Len(s)]
  <2>1. tu \in Seq(S)
    BY <1>2
  <2>2. QED
    BY Zenon, <2>1, ConcatProperties
<1> HIDE DEF stu
<1>4. /\ all \in Seq(S) /\ Len(all) = Len(stu) + Len(v)
      /\ \A i \in 1 .. Len(stu) + Len(v) : all[i] = IF i <= Len(stu) THEN stu[i] ELSE v[i - Len(stu)]
  <2>1. stu \in Seq(S)
    BY <1>3
  <2>2. QED
    BY Zenon, <2>1, ConcatProperties
<1> HIDE DEF all
<1>5. ASSUME NEW i \in 1 .. Len(t)
      PROVE  all[Len(s) + i] = t[i]
  <2>1. all[Len(s) + i] = stu[Len(s) + i]
    BY SMT, <1>1, <1>2, <1>3, <1>4
  <2>2. stu[Len(s) + i] = tu[i]
    BY SMT, <1>1, <1>2, <1>3
  <2>3. QED
    BY SMT, <1>1, <1>2, <2>1, <2>2
<1>6. ASSUME NEW i \in 1 .. Len(u)
      PROVE  all[Len(s) + Len(t) + i] = u[i]
  <2>1. all[Len(s) + (Len(t) + i)] = tu[Len(t) + i]
    BY SMT, <1>1, <1>2, <1>3, <1>4
  <2>2. QED
    BY SMT, <1>1, <1>2, <2>1
<1>7. QED
  BY SMT, <1>1, <1>2, <1>3, <1>4, <1>5, <1>6 DEF PartsOf, tu, stu, all

-----------------------------------------------------------------------------
\* The size of a message stands at offset, whatever follows.
SizeStands(bytes, offset, size) ==
  /\ bytes \in Seq(Byte) /\ offset \in Nat /\ size \in Size
  /\ offset + SizeBytes(size) <= Len(bytes)
  /\ \A i \in 1 .. SizeBytes(size) : bytes[offset + i] = WriteSize(size)[i]

LEMMA PrefixFound ==
  ASSUME NEW bytes, NEW offset, NEW size, SizeStands(bytes, offset, size)
  PROVE  PrefixAt(bytes, offset) = SizeBytes(size)
<1> DEFINE limit == IF Len(bytes) - offset < MaxLengthPrefixSize THEN Len(bytes) - offset
                    ELSE MaxLengthPrefixSize
           Last(k) == bytes[offset + k] < 128 \/ k = limit
           n == SizeBytes(size)
<1>1. /\ size \in Size /\ offset \in Nat /\ Len(bytes) \in Nat /\ offset + n <= Len(bytes)
      /\ \A i \in 1 .. n : bytes[offset + i] = WriteSize(size)[i]
  BY SMT DEF SizeStands
<1>2. n \in 1 .. 5
  BY SMT, <1>1, SizeBytesBound
<1>3. limit \in n .. 5
  BY SMT, <1>1, <1>2 DEF MaxLengthPrefixSize
<1>4. ASSUME NEW i \in 1 .. n - 1
      PROVE  WriteSize(size)[i] \in Int /\ ~(WriteSize(size)[i] < 128)
  <2>1. i \in 1 .. SizeBytes(size) /\ i < SizeBytes(size)
    BY SMT, <1>2
  <2>2. WriteSize(size)[i] = Digit(size, i) + 128 /\ Digit(size, i) \in 0 .. 127
    BY SMT, <1>1, <2>1, WrittenByte
  <2>3. QED
    BY SMT, <2>2
<1>5. WriteSize(size)[n] < 128
  <2>1. n \in 1 .. SizeBytes(size) /\ ~(n < SizeBytes(size))
    BY SMT, <1>2
  <2>2. WriteSize(size)[n] = Digit(size, n) + 0 /\ Digit(size, n) \in 0 .. 127
    BY SMT, <1>1, <2>1, WrittenByte
  <2>3. QED
    BY SMT, <2>2
<1>6. ASSUME NEW i \in 1 .. n - 1
      PROVE  ~Last(i)
  <2> HIDE DEF limit, n
  <2>1. i \in 1 .. n /\ i < n
    BY SMT, <1>2
  <2>2. bytes[offset + i] = WriteSize(size)[i]
    BY SMT, <1>1, <2>1
  <2>3. i # limit
    BY SMT, <1>2, <1>3, <2>1
  <2>4. QED
    BY SMT, <1>4, <2>2, <2>3
<1>7. Last(n)
  <2>1. n \in 1 .. n
    BY SMT, <1>2
  <2> HIDE DEF limit, n
  <2>2. bytes[offset + n] = WriteSize(size)[n]
    BY <1>1, <2>1
  <2>3. QED
    BY <1>5, <2>2
<1> HIDE DEF Last, limit, n
<1>8. \A k \in 1 .. limit : Last(k) /\ (\A j \in 1 .. k - 1 : ~Last(j)) => k = n
  BY SMT, <1>2, <1>3, <1>6, <1>7
<1>9. n = CHOOSE k \in 1 .. limit : Last(k) /\ \A j \in 1 .. k - 1 : ~Last(j)
  BY SMT, <1>2, <1>3, <1>6, <1>7, <1>8
<1>10. QED
  BY SMT, <1>9 DEF PrefixAt, Last, limit, n

LEMMA SizeFound ==
  ASSUME NEW bytes, NEW offset, NEW size, SizeStands(bytes, offset, size)
  PROVE  SizeAt(bytes, offset) = size /\ ~BadSize(bytes, offset)
<1> DEFINE n == SizeBytes(size)
           Part(i) == IF i <= n THEN Digit(size, i) * Shift[i] ELSE 0
<1>1. /\ size \in Size /\ offset \in Nat
      /\ \A i \in 1 .. n : bytes[offset + i] = WriteSize(size)[i]
  BY SMT DEF SizeStands
<1>2. n \in 1 .. 5 /\ PrefixAt(bytes, offset) = n
  BY SMT, <1>1, SizeBytesBound, PrefixFound
<1>3. \A i \in 1 .. 5 : Group(bytes, offset, i) = Part(i)
  BY SMT, <1>1, <1>2, WrittenByte DEF Group
<1>4. SizeAt(bytes, offset) = size
  <2>1. Part(1) + Part(2) + Part(3) + Part(4) + Part(5) = size
    BY SMT, <1>1, DigitsAddUp
  <2> HIDE DEF Part
  <2>2. QED
    BY SMT, <1>3, <2>1 DEF SizeAt
<1>5. WriteSize(size)[n] = Digit(size, n) /\ Digit(size, n) \in 0 .. 127
  BY SMT, <1>1, <1>2, WrittenByte
<1>6. n = 5 => Digit(size, n) <= 7
  BY SMT, <1>1, SizeIsNat, ShiftValues DEF Digit
<1>7. ~BadSize(bytes, offset)
  BY SMT, <1>1, <1>2, <1>5, <1>6 DEF BadSize, MaxLengthPrefixSize
<1>8. QED
  BY SMT, <1>4, <1>7

\* A message of any size the format allows, written between any other bytes, is
\* found whole by parse, which goes on right after it.
THEOREM ReadsBackWhatWasWritten ==
  ASSUME NEW before \in Seq(Byte), NEW output \in Seq(Byte), NEW after \in Seq(Byte),
         Len(output) \in Size
  PROVE  LET bytes == before \o Write(output) \o after
             offset == Len(before)
         IN /\ ~BadSize(bytes, offset) /\ ~Incomplete(bytes, offset)
            /\ MessageAt(bytes, offset) = output
            /\ NextOffset(bytes, offset) = Len(before \o Write(output))
<1> DEFINE size == Len(output)
           prefix == WriteSize(size)
           bytes == before \o Write(output) \o after
           offset == Len(before)
<1>1. prefix \in Seq(Byte) /\ Len(prefix) = SizeBytes(size) /\ SizeBytes(size) \in Nat
  BY SMT, WriteSizeType, SizeBytesBound
<1>2. size \in Nat /\ offset \in Nat
  BY SMT
<1> HIDE DEF size, prefix
<1>3. Write(output) = prefix \o output
  BY SMT DEF Write, size, prefix
<1>4. /\ bytes \in Seq(Byte)
      /\ Len(before \o Write(output)) = offset + Len(prefix) + size
      /\ Len(bytes) = offset + Len(prefix) + size + Len(after)
      /\ \A i \in 1 .. Len(prefix) : bytes[offset + i] = prefix[i]
      /\ \A i \in 1 .. size : bytes[offset + Len(prefix) + i] = output[i]
  <2>1. output \in Seq(Byte) /\ prefix \in Seq(Byte)
    BY SMT, <1>1
  <2>2. bytes = (before \o (prefix \o output)) \o after
    BY Zenon, <1>3
  <2>3. bytes \in Seq(Byte) /\ PartsOf(before, prefix, output, after)
    BY Zenon, <2>1, <2>2, FourParts
  <2> HIDE DEF bytes
  <2>4. QED
    BY Zenon, <1>3, <2>2, <2>3 DEF PartsOf, size
<1>5. Len(after) \in Nat
  BY SMT, LenProperties
<1> HIDE DEF bytes, offset
<1>6. SizeStands(bytes, offset, size)
  BY SMT, <1>1, <1>2, <1>4, <1>5 DEF SizeStands, size, prefix
<1>7. /\ PrefixAt(bytes, offset) = Len(prefix)
      /\ SizeAt(bytes, offset) = size /\ ~BadSize(bytes, offset)
  BY SMT, <1>1, <1>6, PrefixFound, SizeFound
<1>8. ~Incomplete(bytes, offset)
  BY SMT, <1>1, <1>2, <1>4, <1>5, <1>7 DEF Incomplete
<1>9. NextOffset(bytes, offset) = Len(before \o Write(output))
  BY SMT, <1>4, <1>7 DEF NextOffset
<1>10. MessageAt(bytes, offset) = output
  <2> DEFINE start == offset + Len(prefix)
             read == SubSeq(bytes, start + 1, start + size)
  <2>1. start \in Nat /\ Len(bytes) \in Nat /\ start + size <= Len(bytes)
    BY SMT, <1>1, <1>2, <1>4, <1>5
  <2>2. \A i \in start + 1 .. start + size : bytes[i] \in Byte
    <3>1. \A i \in start + 1 .. start + size : i \in 1 .. Len(bytes)
      <4> HIDE DEF start, bytes, size
      <4>1. size \in Nat
        BY SMT, <1>2
      <4>2. QED
        BY SMT, <2>1, <4>1
    <3>2. \A i \in 1 .. Len(bytes) : bytes[i] \in Byte
      <4> HIDE DEF bytes
      <4>1. bytes \in Seq(Byte)
        BY <1>4
      <4>2. QED
        BY <4>1, ElementOfSeq
    <3> HIDE DEF start, bytes, size
    <3>3. QED
      BY <3>1, <3>2
  <2>3. \A i \in 1 .. size : bytes[start + i] = output[i]
    BY SMT, <1>4
  <2> HIDE DEF start
  <2>4. /\ read \in Seq(Byte) /\ Len(read) = size
        /\ \A i \in 1 .. size : read[i] = bytes[start + i]
    BY SMT, <1>2, <2>1, <2>2, SubSeqProperties
  <2>5. read = output
    <3> HIDE DEF read
    <3>1. QED
      BY SMT, <1>2, <2>3, <2>4, SeqEqual DEF size
  <2>6. QED
    BY SMT, <1>7, <2>5 DEF MessageAt, start
<1>11. QED
  BY SMT, <1>7, <1>8, <1>9, <1>10 DEF bytes, offset
=============================================================================

---------------------------- MODULE HttpConnection ----------------------------
(***************************************************************************)
(* HttpConnection of signalr.js with its transports: negotiation, fallback *)
(* from one transport to the next, and stopping at any moment.             *)
(*                                                                         *)
(* As in HubConnection an action is what the one thread runs without a     *)
(* pause; functions are operators from a state of the connection to the    *)
(* next, and what waits behind an await goes on before the next event.     *)
(***************************************************************************)
EXTENDS Naturals, Sequences, FiniteSets

CONSTANTS
  MaxStarts,      \* bound: calls of start()
  MaxTransports,  \* bound: transports constructed
  MaxStops,       \* bound: calls of stop()
  MaxRedirects,   \* MAX_REDIRECTS
  Setups          \* options, offers of the server and faults, see Setup

ASSUME BoundsAssumption == {MaxStarts, MaxTransports, MaxStops} \subseteq Nat
ASSUME MaxRedirectsAssumption == MaxRedirects \in Nat \ {0}

Kind == {"WebSockets", "ServerSentEvents", "LongPolling"}
Format == {"Text", "Binary"}

\* offer is availableTransports of the negotiation, here with the formats that each
\* takes; allowed are those of options.transport that the browser supports.
Endpoint == [transport : Kind \cup {"unknown"}, formats : SUBSET Format]
Status == {200, 204}
Setup(s) ==
  /\ s.offer \in Seq(Endpoint)
  /\ s.allowed \in SUBSET Kind /\ s.format \in Format
  /\ s.skipNegotiation \in BOOLEAN
  /\ s.restartsInside \in BOOLEAN      \* does the owner start again inside onclose
  /\ s.firstPolls \subseteq Status /\ s.firstPolls # {}   \* status of a first poll
  /\ s.deleteFails \in BOOLEAN         \* may the DELETE of long polling fail

ASSUME SetupsAssumption == \A s \in Setups : Setup(s)

Transport == 1 .. MaxTransports
NoTransport == 0                 \* undefined
TransportOrNone == Transport \cup {NoTransport}
Stops == 1 .. MaxStops

VARIABLES
  conn,       \* the fields of HttpConnection
  start,      \* the async functions start and _startInternal
  transport,  \* the transports constructed so far
  stop,       \* the calls of stop()
  late,       \* event sources that opened after connect() had rejected
  setup       \* fixed

vars == <<conn, start, transport, stop, late, setup>>

\* Where start waits; "connected" and "refused" go on at once.
StartPC == {"idle", "negotiating", "renegotiating", "connecting", "connected", "refused",
            "stopped"}
StopPC == {"none", "starting", "transport", "deleted", "stopping", "done", "threw"}
TransportState == {"none", "connecting", "open", "deleting", "closed", "failed"}
LateState == {"no", "open", "ended"}

Init ==
  /\ conn = [state |-> "Disconnected",
             started |-> FALSE,              \* _connectionStarted
             transport |-> NoTransport,
             queue |-> NoTransport,          \* the transport of _sendQueue
             stopPending |-> FALSE,          \* _stopPromise is not settled
             inherentKeepAlive |-> FALSE,
             starts |-> 0, transports |-> 0, negotiations |-> 0,
             closes |-> 0, ends |-> 0]       \* calls of onclose; ends of a connection
  /\ start = [pc |-> "idle", next |-> 1, redirects |-> 0, negotiated |-> FALSE]
  /\ transport = [i \in Transport |-> [kind |-> "none", state |-> "none", aborted |-> FALSE,
                                       token |-> 0]]
  /\ stop = [s \in Stops |-> [pc |-> "none", awaits |-> 0, transport |-> NoTransport]]
  /\ late = [i \in Transport |-> "no"]
  /\ setup \in Setups

StartCount == 0 .. MaxStarts
RedirectCount == 0 .. MaxRedirects
Candidate == 1 .. Len(setup.offer) + 1

ConnType ==
  [state : {"Disconnected", "Connecting", "Connected", "Disconnecting"},
   started : BOOLEAN, transport : TransportOrNone, queue : TransportOrNone,
   stopPending : BOOLEAN, inherentKeepAlive : BOOLEAN, starts : StartCount,
   transports : TransportOrNone, negotiations : Nat, closes : Nat, ends : Nat]
StartType ==
  [pc : StartPC, next : Candidate, redirects : RedirectCount, negotiated : BOOLEAN]
TransportType ==
  [Transport -> [kind : Kind \cup {"none"}, state : TransportState, aborted : BOOLEAN,
                 token : Nat]]

TypeOK ==
  /\ conn \in ConnType /\ start \in StartType /\ transport \in TransportType
  /\ stop \in [Stops -> [pc : StopPC, awaits : Nat, transport : TransportOrNone]]
  /\ late \in [Transport -> LateState]

-----------------------------------------------------------------------------
(* The functions.  c holds conn, start and transport.                      *)

Client == [conn |-> conn, start |-> start, transport |-> transport]
Becomes(c) == conn' = c.conn /\ start' = c.start /\ transport' = c.transport

Goto(c, pc) == [c EXCEPT !.start.pc = pc]

\* new WebSocketTransport and its kin, then transport.connect with the connection
\* token of the last negotiation.
StartTransport(c, kind) ==
  LET i == c.conn.transports + 1
  IN Goto([c EXCEPT !.conn.transports = i, !.conn.transport = i,
                    !.transport[i] = [kind |-> kind, state |-> "connecting", aborted |-> FALSE,
                                      token |-> c.conn.negotiations]],
          "connecting")

\* _resolveTransportOrError
Usable(e) == e.transport \in setup.allowed /\ setup.format \in e.formats

\* The endpoints not tried yet, past those that are skipped.
NextUsable(from) ==
  LET usable == {n \in from .. Len(setup.offer) : Usable(setup.offer[n])}
  IN IF usable = {} THEN Len(setup.offer) + 1
     ELSE CHOOSE n \in usable : \A m \in usable : n <= m

StartFailsStillPending(c) ==   \* mutant: _stopPromise is not resolved
  Goto([c EXCEPT !.conn.state = "Disconnected", !.conn.transport = NoTransport,
                 !.conn.ends = c.conn.ends + 1], "idle")

\* The catch block of _startInternal; start() then rejects.
StartFails(c) ==
  Goto([c EXCEPT !.conn.state = "Disconnected", !.conn.transport = NoTransport,
                 !.conn.stopPending = FALSE, !.conn.ends = c.conn.ends + 1], "idle")

\* The loop of _createTransport: the next endpoint, which needs a negotiation of its
\* own unless it is the first that is tried.  Its transport is constructed before that;
\* until it is started the last one, which failed, stands for it as this.transport.
TryNext(c) ==
  LET n == NextUsable(c.start.next)
      at == [c EXCEPT !.start.next = n]
  IN IF n > Len(setup.offer) THEN StartFails(at)
     ELSE IF c.start.negotiated
          THEN StartTransport([at EXCEPT !.start.next = n + 1, !.start.negotiated = FALSE],
                              setup.offer[n].transport)
          ELSE Goto([at EXCEPT !.conn.transport = c.conn.transports], "renegotiating")

\* The last part of _startInternal, and start() after it.
StartDone(c) ==
  LET i == c.conn.transport
      kept == [c EXCEPT !.conn.inherentKeepAlive =
                          c.conn.inherentKeepAlive
                          \/ (i # NoTransport /\ c.transport[i].kind = "LongPolling")]
  IN IF c.conn.state = "Connecting"
     THEN Goto([kept EXCEPT !.conn.state = "Connected", !.conn.started = TRUE], "idle")
     ELSE Goto(kept, "stopped")

MayStart(c) == /\ c.conn.starts < MaxStarts /\ c.conn.transports < MaxTransports
               /\ c.conn.transports + Len(setup.offer) <= MaxTransports

\* Only a WebSocket can do without a negotiation.
SkipNegotiation(c) ==
  IF setup.allowed = {"WebSockets"} THEN StartTransport(c, "WebSockets") ELSE Goto(c, "refused")

StartCall(c) ==
  LET begun == [c EXCEPT !.conn.state = "Connecting", !.conn.starts = c.conn.starts + 1,
                         !.start = [pc |-> "negotiating", next |-> 1, redirects |-> 0,
                                    negotiated |-> FALSE]]
  IN IF setup.skipNegotiation THEN SkipNegotiation(begun) ELSE begun

\* _stopConnection, the onclose of a transport, throws while connecting.
StopConnectionThrows(c) == c.conn.state = "Connecting"

\* onclose, where the owner may start again.
Restarts(told) == IF setup.restartsInside /\ MayStart(told) THEN StartCall(told) ELSE told

Off(c) == [c EXCEPT !.conn.state = "Disconnected", !.conn.stopPending = FALSE,
                    !.conn.queue = NoTransport, !.conn.transport = NoTransport]
Told(c) == [c EXCEPT !.conn.started = FALSE, !.conn.closes = c.conn.closes + 1, !.conn.ends = c.conn.ends + 1]

StopConnectionTells(c) ==   \* mutant: onclose for a start that failed, too
  IF c.conn.state \in {"Disconnected", "Connecting"} THEN [c EXCEPT !.conn.transport = NoTransport]
  ELSE Restarts(Told(Off(c)))

StopConnectionKeepsQueue(c) ==   \* mutant: _sendQueue is not dropped
  IF c.conn.state \in {"Disconnected", "Connecting"} THEN [c EXCEPT !.conn.transport = NoTransport]
  ELSE LET off == [Off(c) EXCEPT !.conn.queue = c.conn.queue]
       IN IF ~c.conn.started THEN off ELSE Restarts(Told(off))

StopConnection(c) ==
  IF c.conn.state \in {"Disconnected", "Connecting"} THEN [c EXCEPT !.conn.transport = NoTransport]
  ELSE IF ~c.conn.started THEN Off(c) ELSE Restarts(Told(Off(c)))

\* A transport is closed and raises its onclose.
RaiseOnClose(c, i) == StopConnection([c EXCEPT !.transport[i].state = "closed"])

\* transport.stop of a WebSocket or an event source
CloseAtOnce(c, i) == IF c.transport[i].state = "open" THEN RaiseOnClose(c, i) ELSE c

\* transport.stop of long polling: the poll is aborted, then DELETE is sent
AbortPoll(c, i) ==
  LET aborted == [c EXCEPT !.transport[i].aborted = TRUE]
  IN [aborted EXCEPT !.transport[i].state = "deleting"]

-----------------------------------------------------------------------------
(* What goes on before the next event: start first, it was the first to wait. *)

StartReady ==
  \/ start.pc \in {"connected", "refused"}
  \/ start.pc = "stopped" /\ ~conn.stopPending

StopReady(s) ==
  \/ stop[s].pc = "starting" /\ start.pc \in {"idle", "stopped"}
  \/ stop[s].pc = "deleted"
  \/ stop[s].pc = "stopping" /\ ~conn.stopPending

Idle == ~StartReady /\ \A s \in Stops : ~StopReady(s)

\* transport.connect resolved.
Connected ==
  /\ start.pc = "connected"
  /\ Becomes(StartDone(Client))
  /\ UNCHANGED <<stop, late, setup>>

\* transport.connect rejected: the next endpoint, unless stop() was called.
Refused ==
  /\ start.pc = "refused"
  /\ Becomes(IF conn.state = "Connecting" /\ ~setup.skipNegotiation THEN TryNext(Client)
             ELSE StartFails(Client))
  /\ UNCHANGED <<stop, late, setup>>

\* start() has waited for _stopPromise and rejects.
StartStopped ==
  /\ start.pc = "stopped" /\ ~conn.stopPending
  /\ Becomes(Goto([Client EXCEPT !.conn.ends = conn.ends + 1], "idle"))
  /\ UNCHANGED <<stop, late, setup>>

\* A stop() stops the transport of the moment it goes on.
StopGoto(s, pc) == stop' = [stop EXCEPT ![s].pc = pc, ![s].transport = conn.transport]

StopTransportAtOnce(s) ==   \* mutant: stop() does not wait for the start
  /\ ~StartReady
  /\ stop[s].pc = "starting"
  /\ LET i == conn.transport
     IN \/ i = NoTransport /\ StopGoto(s, "stopping") /\ UNCHANGED <<conn, start, transport>>
        \/ /\ i # NoTransport
           /\ StopGoto(s, "deleted")
           /\ Becomes(CloseAtOnce(Client, i))
  /\ UNCHANGED <<late, setup>>

\* _stopInternal: the start is over, the transport is stopped.
StopTransport(s) ==
  /\ ~StartReady
  /\ stop[s].pc = "starting" /\ start.pc \in {"idle", "stopped"}
  /\ LET i == conn.transport
     IN \/ /\ i = NoTransport
           /\ StopGoto(s, "stopping") /\ UNCHANGED <<conn, start, transport>>
        \/ /\ i # NoTransport /\ transport[i].kind = "LongPolling"
           /\ StopGoto(s, "transport")
           /\ Becomes(AbortPoll(Client, i))
        \/ /\ i # NoTransport /\ transport[i].kind # "LongPolling"
           /\ StopGoto(s, "deleted")
           /\ Becomes(CloseAtOnce(Client, i))
  /\ UNCHANGED <<late, setup>>

\* transport.stop() resolved.
TransportStopped(s) ==
  /\ ~StartReady
  /\ stop[s].pc = "deleted"
  /\ StopGoto(s, "stopping")
  /\ conn' = [conn EXCEPT !.transport = NoTransport]
  /\ UNCHANGED <<start, transport, late, setup>>

StopReturns(s) ==
  /\ ~StartReady
  /\ stop[s].pc = "stopping" /\ ~conn.stopPending
  /\ stop' = [stop EXCEPT ![s] = [pc |-> "done", awaits |-> 0, transport |-> NoTransport]]
  /\ UNCHANGED <<conn, start, transport, late, setup>>

-----------------------------------------------------------------------------
(* The owner of the connection, HubConnection.                             *)

Start ==
  /\ Idle /\ conn.state = "Disconnected" /\ start.pc = "idle" /\ MayStart(Client)
  /\ Becomes(StartCall(Client))
  /\ UNCHANGED <<stop, late, setup>>

Stop(s) ==
  /\ Idle /\ stop[s].pc = "none" /\ \A r \in 1 .. s - 1 : stop[r].pc # "none"
  /\ conn.state # "Disconnected"
  /\ IF conn.state = "Disconnecting"
     THEN /\ stop' = [stop EXCEPT ![s] = [pc |-> "stopping", awaits |-> conn.ends + 1,
                                          transport |-> NoTransport]]
          /\ UNCHANGED conn
     ELSE /\ stop' = [stop EXCEPT ![s] = [pc |-> "starting", awaits |-> conn.ends + 1,
                                          transport |-> NoTransport]]
          /\ conn' = [conn EXCEPT !.state = "Disconnecting", !.stopPending = TRUE]
  /\ UNCHANGED <<start, transport, late, setup>>

\* send: the queue is made for the transport of the first send.
Send ==
  /\ Idle /\ conn.state = "Connected" /\ conn.queue = NoTransport
  /\ conn' = [conn EXCEPT !.queue = conn.transport]
  /\ UNCHANGED <<start, transport, stop, late, setup>>

-----------------------------------------------------------------------------
(* The network and the server.                                             *)

\* _getNegotiationResponse, its redirects, and the first transport.
Negotiated(redirect) ==
  /\ Idle /\ start.pc = "negotiating"
  /\ LET heard == [Client EXCEPT !.conn.negotiations = conn.negotiations + 1,
                              !.start.redirects = start.redirects + 1]
     IN Becomes(IF conn.state \in {"Disconnecting", "Disconnected"} THEN StartFails(heard)
                ELSE IF redirect /\ heard.start.redirects < MaxRedirects THEN heard
                ELSE IF redirect THEN StartFails(heard)
                ELSE TryNext([heard EXCEPT !.start.negotiated = TRUE]))
  /\ UNCHANGED <<stop, late, setup>>

\* The token for the next endpoint; nothing looks at a stop() here.  When a late event
\* source has dropped this.transport meanwhile, _startTransport throws and the endpoint
\* counts as tried.
Renegotiated ==
  /\ Idle /\ start.pc = "renegotiating"
  /\ LET heard == [Client EXCEPT !.conn.negotiations = conn.negotiations + 1]
     IN Becomes(IF conn.transport = NoTransport
                THEN Goto([heard EXCEPT !.start.next = start.next + 1], "refused")
                ELSE TryNext([heard EXCEPT !.start.negotiated = TRUE]))
  /\ UNCHANGED <<stop, late, setup>>

\* No answer, an error or not a SignalR endpoint.
NegotiationFails ==
  /\ Idle /\ start.pc \in {"negotiating", "renegotiating"}
  /\ Becomes(StartFails(Client))
  /\ UNCHANGED <<stop, late, setup>>

Is(i, kind, state) == transport[i].kind = kind /\ transport[i].state = state

Opened(i) == Goto([Client EXCEPT !.transport[i].state = "open"], "connected")

SocketOpens(i) ==
  /\ Idle /\ Is(i, "WebSockets", "connecting")
  /\ Becomes(Opened(i))
  /\ UNCHANGED <<stop, late, setup>>

\* Server-sent events refuse binary, whatever the server says they take.
EventSourceOpens(i) ==
  /\ Idle /\ Is(i, "ServerSentEvents", "connecting") /\ setup.format = "Text"
  /\ Becomes(Opened(i))
  /\ UNCHANGED <<stop, late, setup>>

\* The first poll returns.  One that returns 2xx but not 200 ends the loop of polls,
\* which raises onclose at once; what that throws is lost in _receiving, and connect
\* resolves.
FirstPoll(i, status) ==
  /\ Idle /\ Is(i, "LongPolling", "connecting")
  /\ Becomes(IF status = 200 THEN Opened(i) ELSE Goto(RaiseOnClose(Client, i), "connected"))
  /\ UNCHANGED <<stop, late, setup>>

\* connect() rejects.  An event source is left as it is: see LateOpens.
OpenFails(i) ==
  /\ Idle /\ transport[i].state = "connecting"
  /\ Becomes(Goto([Client EXCEPT !.transport[i].state = "failed"], "refused"))
  /\ UNCHANGED <<stop, late, setup>>

\* The server or the network closes a transport, or a message that was received
\* throws; what onclose throws is lost.
Closes(i) ==
  /\ Idle
  /\ Becomes(RaiseOnClose(Client, i))
  /\ UNCHANGED <<stop, late, setup>>

SocketCloses(i) == Is(i, "WebSockets", "open") /\ Closes(i)
EventSourceCloses(i) == Is(i, "ServerSentEvents", "open") /\ Closes(i)

\* A poll returns 204, or fails; if it was aborted, onclose is left to stop().
PollsEnd(i) == Is(i, "LongPolling", "open") /\ ~transport[i].aborted /\ Closes(i)

\* onerror rejects connect() and neither closes the event source nor keeps the browser
\* from connecting it again: onopen then gives it to a transport that start() has given
\* up, and that nobody stops.  (Binary is refused before there is an event source.)
LateOpens(i) ==
  /\ Idle /\ Is(i, "ServerSentEvents", "failed") /\ setup.format = "Text"
  /\ late[i] = "no"
  /\ late' = [late EXCEPT ![i] = "open"]
  /\ UNCHANGED <<conn, start, transport, stop, setup>>

\* Its end is taken for the end of the connection, whatever transport that has by then.
LateCloses(i) ==
  /\ Idle /\ late[i] = "open"
  /\ late' = [late EXCEPT ![i] = "ended"]
  /\ Becomes(StopConnection(Client))
  /\ UNCHANGED <<stop, setup>>

\* DELETE returns: onclose, then stop() of the transport resolves; or one of the two
\* throws, and _stopConnection runs again.
Deleted(i, ok) ==
  /\ Idle /\ transport[i].state = "deleting"
  /\ ok \/ setup.deleteFails
  /\ LET raised == RaiseOnClose(Client, i)
         waits == {s \in Stops : stop[s].pc = "transport" /\ stop[s].transport = i}
         failed == ~ok \/ StopConnectionThrows(Client)
         throws == failed /\ StopConnectionThrows(raised)
     IN /\ Becomes(IF failed THEN StopConnection(raised) ELSE raised)
        /\ stop' = [s \in Stops |-> IF s \notin waits THEN stop[s]
                                    ELSE [stop[s] EXCEPT !.pc = IF throws THEN "threw" ELSE "deleted"]]
  /\ UNCHANGED <<late, setup>>

-----------------------------------------------------------------------------
GoesOn ==
  \/ Connected \/ Refused \/ StartStopped
  \/ \E s \in Stops : StopTransport(s) \/ TransportStopped(s) \/ StopReturns(s)

Answers ==
  \/ Renegotiated \/ NegotiationFails \/ \E redirect \in BOOLEAN : Negotiated(redirect)

Settles(i) ==
  \/ OpenFails(i) \/ SocketOpens(i) \/ EventSourceOpens(i)
  \/ \E status \in setup.firstPolls : FirstPoll(i, status)
  \/ \E ok \in BOOLEAN : Deleted(i, ok)

Next ==
  \/ GoesOn
  \/ Start \/ Send \/ \E s \in Stops : Stop(s)
  \/ Answers
  \/ \E i \in Transport :
       \/ Settles(i) \/ SocketCloses(i) \/ EventSourceCloses(i) \/ PollsEnd(i)
       \/ LateOpens(i) \/ LateCloses(i)

Spec == Init /\ [][Next]_vars

\* What is ready runs, and requests end: they have timeouts.
FairSpec ==
  /\ Spec
  /\ WF_vars(GoesOn)
  /\ WF_vars(Answers)
  /\ WF_vars(\E i \in Transport : Settles(i))

-----------------------------------------------------------------------------
(* Properties.                                                             *)

\* An event source that opened late and ends takes the connection of the moment with it;
\* the properties hold until then.
Undisturbed == \A i \in Transport : late[i] # "ended"

TokenIsItsOwn(i) ==
  transport[i].token # 0 => \A j \in Transport \ {i} : transport[i].token # transport[j].token

\* "The transport should always be set if currently connected" (_stopInternal): it is
\* open, a token of its own negotiation opened it, also after a fallback, and data goes
\* to it, not to one of an earlier life; unless a first poll returns 2xx but not 200
\* (see FirstPoll).
TransportWhenConnected ==
  Idle /\ Undisturbed =>
    /\ conn.state = "Connected" =>
         /\ conn.transport # NoTransport /\ transport[conn.transport].state = "open"
         /\ TokenIsItsOwn(conn.transport)
    /\ conn.queue # NoTransport => conn.state # "Disconnected" /\ conn.queue = conn.transport

\* No socket or poll is forgotten: a transport that start() waits for or has opened, or
\* that is on its way to close, is the one that stop() would stop, also after a fallback
\* or a restart.  What no stop() reaches are the event sources that opened after start()
\* had given them up (LateOpens), and what one of them drops when it ends.
NoTransportForgotten ==
  Idle /\ Undisturbed => \A i \in Transport :
    transport[i].state \in {"connecting", "open", "deleting"} => i = conn.transport

\* HubConnection may rely on Connection: start, onclose and stop in their order.
Contract == INSTANCE Connection
  WITH phase <- IF start.pc # "idle" THEN "opening" ELSE IF conn.started THEN "up" ELSE "off",
       stopping <- conn.state = "Disconnecting" \/ start.pc = "stopped",
       closes <- conn.closes, ends <- conn.ends,
       awaits <- [s \in Stops |-> stop[s].awaits]

ImplementsConnection ==
  Contract!Init /\ [][Undisturbed' => Contract!Next]_(Contract!vars)

\* Every start settles and every stop returns, whatever fails in between: "stopInternal
\* should never throw so just observe it" (stop()).
EveryCallEnds ==
  /\ start.pc # "idle" ~> start.pc = "idle" \/ ~Undisturbed
  /\ \A s \in Stops : stop[s].pc # "none" ~> stop[s].pc = "done" \/ ~Undisturbed

=============================================================================

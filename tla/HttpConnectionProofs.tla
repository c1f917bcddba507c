------------------------ MODULE HttpConnectionProofs ------------------------
(***************************************************************************)
(* Proofs about HttpConnection, for any options, offers of the server and  *)
(* numbers of starts, stops and transports, and the proof that it          *)
(* implements Connection.  c is a state of the client as in                *)
(* HttpConnection; each of its functions has a lemma of its own.           *)
(***************************************************************************)
EXTENDS HttpConnection, WellFoundedInduction, TLAPS

Typed(c) == c \in [conn : ConnType, start : StartType, transport : TransportType]

Opening(c) == c.start.pc \in {"negotiating", "renegotiating", "connecting", "refused"}

\* What is left to construct when n endpoints are tried already.
Room(c) == c.conn.transports + Len(setup.offer) + 1 <= MaxTransports + c.start.next

\* No start is under way and no connection is up.
Quiet(c) == ~c.conn.started /\ \A i \in Transport : c.transport[i].state # "connecting"

\* What the bounds on redirects and transports rest on: start() is at one endpoint at a
\* time, and has come to an end once the connection is up.
Bounded(c) ==
  /\ c.conn.started => c.start.pc = "idle" /\ c.conn.state \in {"Connected", "Disconnecting"}
  /\ \A i \in Transport : c.transport[i].state = "connecting" => c.start.pc = "connecting"
  /\ \A i, j \in Transport :
       c.transport[i].state = "connecting" /\ c.transport[j].state = "connecting" => i = j
  /\ c.start.pc = "negotiating" => c.start.redirects < MaxRedirects
  /\ Opening(c) /\ ~setup.skipNegotiation => Room(c)
  /\ setup.skipNegotiation => c.start.pc \notin {"negotiating", "renegotiating"}
  /\ c.start.pc = "renegotiating" => c.start.next <= Len(setup.offer)

StopTyped == stop \in [Stops -> [pc : StopPC, awaits : Nat, transport : TransportOrNone]]
LateTyped == late \in [Transport -> LateState]

TInv == setup \in Setups /\ Typed(Client) /\ StopTyped /\ Bounded(Client)

-----------------------------------------------------------------------------
(* Types.                                                                  *)

LEMMA SetupTyped ==
  ASSUME setup \in Setups
  PROVE  /\ Len(setup.offer) \in Nat /\ setup.allowed \subseteq Kind
         /\ setup.skipNegotiation \in BOOLEAN /\ setup.restartsInside \in BOOLEAN
         /\ setup.deleteFails \in BOOLEAN
  BY SetupsAssumption DEF Setup

\* A set of numbers has a smallest one.
LEMMA SmallestNat ==
  ASSUME NEW S, S \subseteq Nat, S # {}
  PROVE  \E n \in S : \A m \in S : n <= m
<1> DEFINE R == OpToRel(<, Nat)
<1>1. PICK n \in S : \A m \in S : ~(<<m, n>> \in R)
  BY WFMin, NatLessThanWellFounded
<1>2. \A m \in S : n <= m
  <2> SUFFICES ASSUME NEW m \in S
               PROVE  n <= m
    OBVIOUS
  <2>1. m \in Nat /\ n \in Nat /\ <<m, n>> \in Nat \X Nat
    OBVIOUS
  <2>2. ~(m < n)
    BY <1>1, <2>1 DEF OpToRel
  <2>3. QED
    BY <2>1, <2>2
<1>3. QED
  BY <1>2

LEMMA SetsTyped ==
  ASSUME setup \in Setups
  PROVE  /\ MaxTransports \in Nat /\ MaxStarts \in Nat /\ MaxRedirects \in Nat \ {0}
         /\ NoTransport \in TransportOrNone /\ 0 \in TransportOrNone
         /\ \A i \in Transport : i \in TransportOrNone /\ i # NoTransport
         /\ \A n \in TransportOrNone : n \in Nat /\ n <= MaxTransports
                                      /\ (n < MaxTransports => n + 1 \in Transport)
                                      /\ (n # NoTransport => n \in Transport)
         /\ \A n \in StartCount : n \in Nat /\ (n < MaxStarts => n + 1 \in StartCount)
         /\ \A n \in RedirectCount : n \in Nat /\ (n < MaxRedirects => n + 1 \in RedirectCount)
         /\ 0 \in RedirectCount /\ 1 \in Candidate /\ Len(setup.offer) + 1 \in Candidate
         /\ \A n \in Candidate : n \in Nat /\ n <= Len(setup.offer) + 1
                                /\ (n <= Len(setup.offer) => n + 1 \in Candidate)
<1>1. MaxTransports \in Nat /\ MaxStarts \in Nat /\ MaxRedirects \in Nat \ {0}
  BY BoundsAssumption, MaxRedirectsAssumption
<1>2. Len(setup.offer) \in Nat
  BY SetupTyped
<1>3. QED
  BY <1>1, <1>2 DEF TransportOrNone, Transport, NoTransport, StartCount, RedirectCount, Candidate

LEMMA StartFailsTyped ==
  ASSUME setup \in Setups, NEW c, Typed(c), Quiet(c)
  PROVE  Typed(StartFails(c)) /\ Bounded(StartFails(c))
<1>1. c.conn.ends + 1 \in Nat
  BY DEF Typed, ConnType
<1>2. Typed(StartFails(c))
  BY <1>1, SetsTyped DEF Typed, StartFails, Goto, ConnType, StartType, StartPC
<1>3. /\ StartFails(c).start.pc = "idle" /\ StartFails(c).transport = c.transport
      /\ StartFails(c).conn.started = c.conn.started
  BY DEF Typed, StartFails, Goto, StartType, ConnType
<1>4. QED
  BY <1>2, <1>3 DEF Bounded, Opening, Quiet

LEMMA StartTransportTyped ==
  ASSUME setup \in Setups, NEW c, Typed(c), Quiet(c), NEW kind \in Kind,
         c.conn.transports < MaxTransports,
         ~setup.skipNegotiation => c.conn.transports + Len(setup.offer) + 2 <= MaxTransports + c.start.next
  PROVE  Typed(StartTransport(c, kind)) /\ Bounded(StartTransport(c, kind))
<1> DEFINE d == StartTransport(c, kind)
<1>1. c.conn.transports + 1 \in Transport /\ c.conn.transports + 1 \in TransportOrNone
  BY SetsTyped DEF Typed, ConnType
<1>2. Typed(d)
  BY <1>1, SetsTyped DEF Typed, StartTransport, Goto, ConnType, StartType, TransportType,
     StartPC, TransportState
<1>3. d.start.pc = "connecting" /\ d.start.next = c.start.next
      /\ d.conn.transports = c.conn.transports + 1 /\ d.conn.started = c.conn.started
      /\ \A j \in Transport : j # c.conn.transports + 1 => d.transport[j] = c.transport[j]
  BY <1>1 DEF Typed, StartTransport, Goto, StartType, ConnType, TransportType
<1> HIDE DEF d
<1>4. c.conn.transports \in Nat /\ c.start.next \in Nat /\ Len(setup.offer) \in Nat
      /\ MaxTransports \in Nat
  BY SetsTyped, SetupTyped DEF Typed, ConnType, StartType
<1>5. ~setup.skipNegotiation => Room(d)
  BY <1>3, <1>4 DEF Room
<1>6. QED
  BY <1>2, <1>3, <1>5 DEF Bounded, Quiet, d

LEMMA NextUsableTyped ==
  ASSUME setup \in Setups, NEW from \in Candidate
  PROVE  /\ NextUsable(from) \in Candidate /\ from <= NextUsable(from)
         /\ NextUsable(from) <= Len(setup.offer) => Usable(setup.offer[NextUsable(from)])
<1> DEFINE usable == {n \in from .. Len(setup.offer) : Usable(setup.offer[n])}
<1>1. CASE usable = {}
  BY <1>1, SetsTyped, SetupTyped DEF NextUsable
<1>2. CASE usable # {}
  <2>1. usable \subseteq Nat
    <3>1. from \in Nat /\ Len(setup.offer) \in Nat
      BY SetsTyped, SetupTyped
    <3>2. QED
      BY <3>1
  <2>2. \E n \in usable : \A m \in usable : n <= m
    BY <1>2, <2>1, SmallestNat
  <2>3. NextUsable(from) \in usable
    BY <1>2, <2>2 DEF NextUsable
  <2>4. QED
    BY <2>3, SetsTyped, SetupTyped DEF Candidate
<1>3. QED
  BY <1>1, <1>2

LEMMA UsableKind ==
  ASSUME setup \in Setups, NEW n \in 1 .. Len(setup.offer), Usable(setup.offer[n])
  PROVE  setup.offer[n].transport \in Kind
  BY SetupTyped DEF Usable

LEMMA RoomShrinks ==
  ASSUME NEW t \in Nat, NEW len \in Nat, NEW max \in Nat, NEW from \in Nat, NEW n \in Nat,
         from <= n, t + len + 1 <= max + from
  PROVE  /\ t + len + 1 <= max + n /\ t + len + 2 <= max + (n + 1)
         /\ n <= len => t < max
  OBVIOUS

LEMMA TryNextTyped ==
  ASSUME setup \in Setups, ~setup.skipNegotiation, NEW c, Typed(c), Quiet(c), Room(c)
  PROVE  Typed(TryNext(c)) /\ Bounded(TryNext(c))
<1> DEFINE n == NextUsable(c.start.next)
           at == [c EXCEPT !.start.next = n]
<1>1. c.start.next \in Candidate
  BY DEF Typed, StartType
<1>2. n \in Candidate /\ c.start.next <= n
      /\ (n <= Len(setup.offer) => Usable(setup.offer[n]))
  BY <1>1, NextUsableTyped
<1>3. n \in Nat /\ c.start.next \in Nat /\ Len(setup.offer) \in Nat /\ c.conn.transports \in Nat
      /\ MaxTransports \in Nat /\ n <= Len(setup.offer) + 1
  BY <1>1, <1>2, SetsTyped, SetupTyped DEF Typed, ConnType
<1> HIDE DEF n
<1>4. Typed(at) /\ Quiet(at) /\ at.conn = c.conn /\ at.start.next = n /\ at.start.pc = c.start.pc
  BY <1>2 DEF Typed, StartType, Quiet
<1>5. CASE n > Len(setup.offer)
  <2>1. TryNext(c) = StartFails(at)
    BY <1>5 DEF TryNext, n
  <2>2. QED
    BY <1>4, <2>1, StartFailsTyped
<1>6. CASE n <= Len(setup.offer) /\ c.start.negotiated
  <2> DEFINE tried == [at EXCEPT !.start.next = n + 1, !.start.negotiated = FALSE]
  <2>1. TryNext(c) = StartTransport(tried, setup.offer[n].transport)
    BY <1>3, <1>6 DEF TryNext, n
  <2>2. n \in 1 .. Len(setup.offer) /\ n + 1 \in Candidate
    BY <1>2, <1>3, <1>6 DEF Candidate
  <2>3. setup.offer[n].transport \in Kind
    BY <1>2, <1>6, <2>2, UsableKind
  <2>4. Typed(tried) /\ Quiet(tried) /\ tried.start.next = n + 1 /\ tried.conn = c.conn
    BY <1>4, <2>2 DEF Typed, StartType, Quiet
  <2> HIDE DEF tried, at
  <2>5. /\ tried.conn.transports < MaxTransports
        /\ tried.conn.transports + Len(setup.offer) + 2 <= MaxTransports + tried.start.next
    <3>1. /\ c.conn.transports < MaxTransports
          /\ c.conn.transports + Len(setup.offer) + 2 <= MaxTransports + (n + 1)
      BY <1>2, <1>3, <1>6, RoomShrinks DEF Room
    <3>2. QED
      BY <2>4, <3>1
  <2>6. QED
    BY <2>1, <2>3, <2>4, <2>5, StartTransportTyped
<1>7. CASE n <= Len(setup.offer) /\ ~c.start.negotiated
  <2> DEFINE chosen == [at EXCEPT !.conn.transport = c.conn.transports]
             d == Goto(chosen, "renegotiating")
  <2>1. TryNext(c) = d
    BY <1>3, <1>7 DEF TryNext, n
  <2>a. c.conn.transports \in TransportOrNone
    BY DEF Typed, ConnType
  <2>b. /\ Typed(chosen) /\ Quiet(chosen) /\ chosen.conn.transports = c.conn.transports
        /\ chosen.start.next = n
    BY <1>4, <2>a DEF Typed, ConnType, Quiet
  <2> HIDE DEF chosen
  <2>2. /\ Typed(d) /\ Quiet(d) /\ d.conn.transports = c.conn.transports
        /\ d.start.next = n /\ d.start.pc = "renegotiating"
    BY <2>b DEF Goto, Typed, StartType, StartPC, Quiet
  <2> HIDE DEF d
  <2>3. Room(d)
    <3>1. c.conn.transports + Len(setup.offer) + 1 <= MaxTransports + n
      BY <1>2, <1>3, RoomShrinks DEF Room
    <3>2. QED
      BY <2>2, <3>1 DEF Room
  <2>4. QED
    BY <1>7, <2>1, <2>2, <2>3 DEF Bounded, Quiet
<1>8. QED
  BY <1>3, <1>5, <1>6, <1>7

LEMMA StartDoneTyped ==
  ASSUME NEW c, Typed(c), Quiet(c)
  PROVE  Typed(StartDone(c)) /\ Bounded(StartDone(c))
<1> DEFINE alive == c.conn.inherentKeepAlive
                      \/ (c.conn.transport # NoTransport
                            /\ c.transport[c.conn.transport].kind = "LongPolling")
           kept == [c EXCEPT !.conn.inherentKeepAlive = alive]
           up == [kept EXCEPT !.conn.state = "Connected", !.conn.started = TRUE]
<1>1. alive \in BOOLEAN
  BY DEF Typed, ConnType
<1> HIDE DEF alive
<1>2. Typed(kept) /\ kept.conn.started = c.conn.started /\ kept.transport = c.transport
  BY <1>1 DEF Typed, ConnType
<1>3. Typed(up) /\ up.conn.state = "Connected" /\ up.transport = c.transport
  BY <1>2 DEF Typed, ConnType
<1>4. StartDone(c) = IF c.conn.state = "Connecting" THEN Goto(up, "idle") ELSE Goto(kept, "stopped")
  BY DEF StartDone, alive
<1> HIDE DEF kept, up
<1>5. /\ Typed(Goto(up, "idle")) /\ Goto(up, "idle").start.pc = "idle"
      /\ Goto(up, "idle").conn = up.conn /\ Goto(up, "idle").transport = up.transport
      /\ Typed(Goto(kept, "stopped")) /\ Goto(kept, "stopped").start.pc = "stopped"
      /\ Goto(kept, "stopped").conn = kept.conn /\ Goto(kept, "stopped").transport = kept.transport
  BY <1>2, <1>3 DEF Goto, Typed, StartType, StartPC
<1>6. Bounded(Goto(up, "idle")) /\ Bounded(Goto(kept, "stopped"))
  BY <1>2, <1>3, <1>5 DEF Bounded, Opening, Quiet
<1>7. QED
  BY <1>4, <1>5, <1>6

LEMMA StartCallTyped ==
  ASSUME setup \in Setups, NEW c, Typed(c), Quiet(c), MayStart(c)
  PROVE  Typed(StartCall(c)) /\ Bounded(StartCall(c))
<1> DEFINE begun == [c EXCEPT !.conn.state = "Connecting", !.conn.starts = c.conn.starts + 1,
                              !.start = [pc |-> "negotiating", next |-> 1, redirects |-> 0,
                                         negotiated |-> FALSE]]
<1>1. c.conn.starts + 1 \in StartCount
  BY SetsTyped DEF MayStart, Typed, ConnType
<1>2. Typed(begun) /\ Quiet(begun)
  BY <1>1, SetsTyped DEF Typed, ConnType, StartType, StartPC, Quiet
<1>3. /\ begun.conn.transports = c.conn.transports /\ begun.start.pc = "negotiating"
      /\ begun.start.next = 1 /\ begun.start.redirects = 0
  BY DEF Typed, ConnType
<1>4. StartCall(c) = IF setup.skipNegotiation THEN SkipNegotiation(begun) ELSE begun
  BY DEF StartCall
<1> HIDE DEF begun
<1>5. c.conn.transports \in Nat /\ c.conn.transports < MaxTransports
      /\ c.conn.transports + Len(setup.offer) <= MaxTransports
      /\ Len(setup.offer) \in Nat /\ MaxTransports \in Nat /\ MaxRedirects \in Nat \ {0}
  BY SetsTyped, SetupTyped DEF MayStart, Typed, ConnType
<1>6. CASE ~setup.skipNegotiation
  <2>1. Bounded(begun)
    BY <1>2, <1>3, <1>5, <1>6 DEF Bounded, Room, Quiet
  <2>2. QED
    BY <1>2, <1>4, <1>6, <2>1
<1>7. CASE setup.skipNegotiation /\ setup.allowed = {"WebSockets"}
  <2>1. StartCall(c) = StartTransport(begun, "WebSockets")
    BY <1>4, <1>7 DEF SkipNegotiation
  <2>2. QED
    BY <1>2, <1>3, <1>5, <1>7, <2>1, StartTransportTyped DEF Kind
<1>8. CASE setup.skipNegotiation /\ setup.allowed # {"WebSockets"}
  <2>1. StartCall(c) = Goto(begun, "refused")
    BY <1>4, <1>8 DEF SkipNegotiation
  <2>2. /\ Typed(Goto(begun, "refused")) /\ Goto(begun, "refused").start.pc = "refused"
        /\ Quiet(Goto(begun, "refused"))
    BY <1>2 DEF Goto, Typed, StartType, StartPC, Quiet
  <2>3. QED
    BY <1>8, <2>1, <2>2 DEF Bounded, Quiet
<1>9. QED
  BY <1>6, <1>7, <1>8

LEMMA StopConnectionTyped ==
  ASSUME setup \in Setups, NEW c, Typed(c), Bounded(c)
  PROVE  Typed(StopConnection(c)) /\ Bounded(StopConnection(c))
<1> DEFINE bare == [c EXCEPT !.conn.transport = NoTransport]
           off == Off(c)
           told == Told(off)
<1>1. Typed(bare) /\ Bounded(bare)
  <2>1. /\ Typed(bare) /\ bare.start = c.start /\ bare.transport = c.transport
        /\ bare.conn.transports = c.conn.transports /\ bare.conn.started = c.conn.started
        /\ bare.conn.state = c.conn.state
    BY SetsTyped DEF Typed, ConnType
  <2>2. QED
    BY <2>1 DEF Bounded, Opening, Room
<1>2. /\ Typed(off) /\ off.start = c.start /\ off.transport = c.transport
      /\ off.conn.transports = c.conn.transports /\ off.conn.started = c.conn.started
  BY SetsTyped DEF Off, Typed, ConnType
<1> HIDE DEF off
<1>3. CASE c.conn.state \in {"Disconnected", "Connecting"}
  BY <1>1, <1>3 DEF StopConnection
<1>4. CASE c.conn.state \notin {"Disconnected", "Connecting"} /\ ~c.conn.started
  <2>1. Bounded(off)
    BY <1>2, <1>4 DEF Bounded, Opening, Room
  <2>2. QED
    BY <1>2, <1>4, <2>1 DEF StopConnection, off
<1>5. CASE c.conn.state \notin {"Disconnected", "Connecting"} /\ c.conn.started
  <2>1. off.conn.closes + 1 \in Nat /\ off.conn.ends + 1 \in Nat
    BY <1>2 DEF Typed, ConnType
  <2>2. /\ Typed(told) /\ told.start = c.start /\ told.transport = c.transport
        /\ ~told.conn.started
    BY <1>2, <2>1 DEF Told, Typed, ConnType
  <2> HIDE DEF told
  <2>3. c.start.pc = "idle" /\ Quiet(told) /\ Bounded(told)
    BY <1>5, <2>2 DEF Bounded, Quiet, Opening
  <2>4. Typed(Restarts(told)) /\ Bounded(Restarts(told))
    BY <2>2, <2>3, StartCallTyped DEF Restarts
  <2>5. QED
    BY <1>5, <2>4 DEF StopConnection, told, off
<1>6. QED
  BY <1>3, <1>4, <1>5

LEMMA TransportSet ==
  ASSUME NEW c, Typed(c), Bounded(c), NEW i \in Transport,
         NEW state \in TransportState \ {"connecting"}
  PROVE  LET d == [c EXCEPT !.transport[i].state = state]
         IN /\ Typed(d) /\ Bounded(d) /\ d.conn = c.conn /\ d.start = c.start
            /\ d.transport[i].state = state
            /\ \A j \in Transport \ {i} : d.transport[j] = c.transport[j]
            /\ \A j \in Transport : d.transport[j].token = c.transport[j].token
<1> DEFINE d == [c EXCEPT !.transport[i].state = state]
<1>1. /\ Typed(d) /\ d.conn = c.conn /\ d.start = c.start
      /\ d.transport[i].state = state
      /\ \A j \in Transport \ {i} : d.transport[j] = c.transport[j]
      /\ \A j \in Transport : d.transport[j].token = c.transport[j].token
  BY DEF Typed, TransportType
<1> HIDE DEF d
<1>2. Bounded(d)
  BY <1>1 DEF Bounded, Opening, Room
<1>3. QED
  BY <1>1, <1>2 DEF d

LEMMA RaiseOnCloseTyped ==
  ASSUME setup \in Setups, NEW c, Typed(c), Bounded(c), NEW i \in Transport
  PROVE  Typed(RaiseOnClose(c, i)) /\ Bounded(RaiseOnClose(c, i))
<1>1. "closed" \in TransportState \ {"connecting"}
  BY DEF TransportState
<1>2. QED
  BY <1>1, TransportSet, StopConnectionTyped DEF RaiseOnClose

LEMMA AbortPollTyped ==
  ASSUME NEW c, Typed(c), Bounded(c), NEW i \in Transport
  PROVE  Typed(AbortPoll(c, i)) /\ Bounded(AbortPoll(c, i))
<1> DEFINE aborted == [c EXCEPT !.transport[i].aborted = TRUE]
<1>1. /\ Typed(aborted) /\ aborted.conn = c.conn /\ aborted.start = c.start
      /\ \A j \in Transport : aborted.transport[j].state = c.transport[j].state
  BY DEF Typed, TransportType
<1>2. AbortPoll(c, i) = [aborted EXCEPT !.transport[i].state = "deleting"]
  BY DEF AbortPoll
<1> HIDE DEF aborted
<1>3. Bounded(aborted)
  BY <1>1 DEF Bounded, Opening, Room
<1>4. "deleting" \in TransportState \ {"connecting"}
  BY DEF TransportState
<1>5. QED
  BY <1>1, <1>2, <1>3, <1>4, TransportSet

LEMMA GotoTyped ==
  ASSUME NEW c, Typed(c), Quiet(c), NEW pc \in {"idle", "connected", "stopped"}
  PROVE  Typed(Goto(c, pc)) /\ Bounded(Goto(c, pc))
<1>1. /\ Typed(Goto(c, pc)) /\ Goto(c, pc).start.pc = pc
      /\ Goto(c, pc).conn = c.conn /\ Goto(c, pc).transport = c.transport
  BY DEF Goto, Typed, StartType, StartPC
<1>2. QED
  BY <1>1 DEF Bounded, Opening, Quiet

-----------------------------------------------------------------------------
(* Type correctness.                                                       *)

\* What is proved of a state of the client holds of the variables it becomes.
LEMMA BecomesTyped ==
  ASSUME NEW d, Typed(d), Bounded(d), Becomes(d), UNCHANGED setup
  PROVE  /\ conn' \in ConnType' /\ start' \in StartType' /\ transport' \in TransportType'
         /\ Bounded(Client)'
<1>1. conn' = d.conn /\ start' = d.start /\ transport' = d.transport
  BY DEF Becomes
<1>2. d.conn \in ConnType /\ d.start \in StartType /\ d.transport \in TransportType
  BY DEF Typed
<1>3. ConnType' = ConnType /\ StartType' = StartType /\ TransportType' = TransportType
  BY DEF ConnType, StartType, Candidate, TransportType
<1>4. Bounded(Client)'
  BY <1>1 DEF Bounded, Opening, Room, Client
<1>5. QED
  BY <1>1, <1>2, <1>3, <1>4

LEMMA StopGotoTyped ==
  ASSUME StopTyped, Typed(Client), NEW s \in Stops, NEW pc \in StopPC, StopGoto(s, pc)
  PROVE  StopTyped'
<1> DEFINE moved == [[stop[s] EXCEPT !.pc = pc] EXCEPT !.transport = conn.transport]
<1>1. conn.transport \in TransportOrNone
  BY DEF Typed, Client, ConnType
<1>2. moved \in [pc : StopPC, awaits : Nat, transport : TransportOrNone]
  BY <1>1 DEF StopTyped
<1>3. stop' = [stop EXCEPT ![s] = moved]
  BY DEF StopGoto, StopTyped
<1> HIDE DEF moved
<1>4. QED
  BY <1>2, <1>3 DEF StopTyped

LEMMA InitTInv == Init => TInv
<1> SUFFICES ASSUME Init
             PROVE  TInv
  OBVIOUS
<1>1. setup \in Setups
  BY DEF Init
<1>2. conn \in ConnType
  BY <1>1, SetsTyped DEF Init, ConnType, StartCount
<1>3. start \in StartType
  BY <1>1, SetsTyped DEF Init, StartType, StartPC
<1>4. transport \in TransportType
  BY DEF Init, TransportType, TransportState
<1>5. StopTyped
  BY <1>1, SetsTyped DEF Init, StopTyped, StopPC
<1>6. Bounded(Client)
  BY DEF Init, Client, Bounded, Opening
<1>7. QED
  BY <1>1, <1>2, <1>3, <1>4, <1>5, <1>6 DEF TInv, Typed, Client

LEMMA TInvFacts ==
  ASSUME TInv
  PROVE  /\ setup \in Setups /\ Typed(Client) /\ Bounded(Client) /\ StopTyped
         /\ Client.conn = conn /\ Client.start = start /\ Client.transport = transport
         /\ conn.negotiations + 1 \in Nat /\ conn.ends + 1 \in Nat
  BY DEF TInv, Typed, Client, ConnType

LEMMA ClientQuiet ==
  ASSUME TInv, start.pc # "connecting",
         start.pc # "idle" \/ conn.state \notin {"Connected", "Disconnecting"}
  PROVE  Quiet(Client)
  BY TInvFacts DEF Bounded, Quiet

\* Every step is a function of the client, and moves the calls of stop() on.
Stepped(d) == Becomes(d) /\ Typed(d) /\ Bounded(d) /\ UNCHANGED setup

LEMMA SteppedTyped ==
  ASSUME TInv, NEW d, Stepped(d), StopTyped'
  PROVE  TInv'
  BY BecomesTyped, TInvFacts DEF Stepped, TInv, Typed, Client

LEMMA NegotiatedTyped ==
  ASSUME TInv, NEW redirect \in BOOLEAN, Negotiated(redirect)
  PROVE  TInv'
<1> DEFINE heard == [Client EXCEPT !.conn.negotiations = conn.negotiations + 1,
                                   !.start.redirects = start.redirects + 1]
           chosen == [heard EXCEPT !.start.negotiated = TRUE]
<1>1. /\ setup \in Setups /\ Typed(Client) /\ Bounded(Client) /\ StopTyped
      /\ Client.start = start /\ start.pc = "negotiating" /\ StopTyped' /\ UNCHANGED setup
      /\ conn.negotiations + 1 \in Nat
  BY TInvFacts DEF Negotiated, StopTyped
<1>2. start.redirects + 1 \in RedirectCount
  BY <1>1, SetsTyped DEF Bounded, Typed, StartType
<1>3. ~setup.skipNegotiation /\ Room(Client)
  BY <1>1 DEF Bounded, Opening
<1>4. Quiet(Client)
  BY <1>1, ClientQuiet
<1>5. /\ Typed(heard) /\ Quiet(heard)
      /\ heard.start.pc = "negotiating" /\ heard.start.redirects = start.redirects + 1
      /\ heard.start.next = start.next /\ heard.conn.transports = Client.conn.transports
  BY <1>1, <1>2, <1>4 DEF Typed, ConnType, StartType, Quiet
<1> HIDE DEF heard
<1>6. Room(heard)
  BY <1>1, <1>3, <1>5 DEF Room
<1>7. /\ Typed(chosen) /\ Quiet(chosen) /\ chosen.start.next = heard.start.next
      /\ chosen.conn = heard.conn
  BY <1>5 DEF Typed, StartType, Quiet
<1> HIDE DEF chosen
<1>8. Room(chosen)
  BY <1>6, <1>7 DEF Room
<1>9. Typed(TryNext(chosen)) /\ Bounded(TryNext(chosen))
  BY <1>1, <1>3, <1>7, <1>8, TryNextTyped
<1>10. Typed(StartFails(heard)) /\ Bounded(StartFails(heard))
  BY <1>1, <1>5, StartFailsTyped
<1>11. heard.start.redirects < MaxRedirects => Bounded(heard)
  BY <1>3, <1>5, <1>6 DEF Bounded, Quiet
<1>12. \/ Becomes(StartFails(heard)) \/ Becomes(TryNext(chosen))
       \/ heard.start.redirects < MaxRedirects /\ Becomes(heard)
  BY DEF Negotiated, heard, chosen
<1>13. QED
  BY <1>1, <1>5, <1>9, <1>10, <1>11, <1>12, SteppedTyped DEF Stepped

LEMMA DeletedTyped ==
  ASSUME TInv, NEW i \in Transport, NEW ok \in BOOLEAN, Deleted(i, ok)
  PROVE  TInv'
<1> DEFINE raised == RaiseOnClose(Client, i)
<1>1. Typed(raised) /\ Bounded(raised) /\ setup \in Setups
  BY TInvFacts, RaiseOnCloseTyped
<1> HIDE DEF raised
<1>2. Typed(StopConnection(raised)) /\ Bounded(StopConnection(raised))
  BY <1>1, StopConnectionTyped
<1>3. UNCHANGED setup /\ (Becomes(raised) \/ Becomes(StopConnection(raised)))
  BY DEF Deleted, raised
<1>4. StopTyped'
  <2>1. PICK throws \in BOOLEAN, waits \in SUBSET Stops :
          stop' = [s \in Stops |-> IF s \notin waits THEN stop[s]
                                  ELSE [stop[s] EXCEPT !.pc = IF throws THEN "threw" ELSE "deleted"]]
    BY DEF Deleted, StopConnectionThrows
  <2>2. \A s \in Stops : [stop[s] EXCEPT !.pc = IF throws THEN "threw" ELSE "deleted"]
                            \in [pc : StopPC, awaits : Nat, transport : TransportOrNone]
    BY TInvFacts DEF StopTyped, StopPC
  <2>3. QED
    BY <2>1, <2>2, TInvFacts DEF StopTyped
<1>5. QED
  BY <1>1, <1>2, <1>3, <1>4, SteppedTyped DEF Stepped

LEMMA StepTInv == TInv /\ [Next]_vars => TInv'
<1> SUFFICES ASSUME TInv, [Next]_vars
             PROVE  TInv'
  OBVIOUS
<1>f. /\ setup \in Setups /\ Typed(Client) /\ Bounded(Client) /\ StopTyped
      /\ Client.conn = conn /\ Client.start = start /\ Client.transport = transport
      /\ conn.negotiations + 1 \in Nat /\ conn.ends + 1 \in Nat
  BY TInvFacts
<1>0. {"idle", "connected", "stopped"} \subseteq StartPC
      /\ {"open", "closed", "failed", "deleting"} \subseteq TransportState
  BY DEF StartPC, TransportState
<1>1. CASE Connected
  <2>1. Quiet(Client)
    BY <1>1, ClientQuiet DEF Connected
  <2>2. Stepped(StartDone(Client))
    BY <1>f, <1>1, <2>1, StartDoneTyped DEF Connected, Stepped
  <2>3. QED
    BY <1>f, <1>1, <2>2, SteppedTyped DEF Connected, StopTyped
<1>2. CASE Refused
  <2>1. Quiet(Client) /\ UNCHANGED <<stop, setup>>
    BY <1>2, ClientQuiet DEF Refused
  <2>2. CASE Becomes(StartFails(Client))
    BY <1>f, <2>1, <2>2, StartFailsTyped, SteppedTyped DEF StopTyped, Stepped
  <2>3. CASE ~setup.skipNegotiation /\ Becomes(TryNext(Client))
    <3>1. Room(Client)
      BY <1>f, <1>2, <2>3 DEF Refused, Bounded, Opening
    <3>2. QED
      BY <1>f, <2>1, <2>3, <3>1, TryNextTyped, SteppedTyped DEF StopTyped, Stepped
  <2>4. QED
    BY <1>2, <2>2, <2>3 DEF Refused
<1>3. CASE StartStopped
  <2> DEFINE ended == [Client EXCEPT !.conn.ends = conn.ends + 1]
  <2>1. Quiet(Client)
    BY <1>3, ClientQuiet DEF StartStopped
  <2>2. Typed(ended) /\ Quiet(ended)
    BY <1>f, <2>1 DEF Typed, ConnType, Quiet
  <2> HIDE DEF ended
  <2>3. Stepped(Goto(ended, "idle"))
    BY <1>3, <2>2, GotoTyped DEF StartStopped, Stepped, ended
  <2>4. QED
    BY <1>f, <1>3, <2>3, SteppedTyped DEF StartStopped, StopTyped
<1>4. ASSUME NEW s \in Stops, StopTransport(s)
      PROVE  TInv'
  <2> DEFINE i == conn.transport
  <2>1. i # NoTransport => i \in Transport
    BY <1>f, SetsTyped DEF Typed, ConnType
  <2>2. StopTyped'
    BY <1>f, <1>4, StopGotoTyped DEF StopTransport, StopPC
  <2>3. CASE UNCHANGED <<conn, start, transport>>
    <3>1. Stepped(Client)
      BY <1>f, <1>4, <2>3 DEF StopTransport, Becomes, Stepped
    <3>2. QED
      BY <2>2, <3>1, SteppedTyped
  <2>4. CASE i # NoTransport /\ Becomes(AbortPoll(Client, i))
    <3>1. Typed(AbortPoll(Client, i)) /\ Bounded(AbortPoll(Client, i))
      BY <1>f, <2>1, <2>4, AbortPollTyped
    <3>2. Stepped(AbortPoll(Client, i))
      BY <1>4, <2>4, <3>1 DEF StopTransport, Stepped
    <3>3. QED
      BY <2>2, <3>2, SteppedTyped
  <2>5. CASE i # NoTransport /\ Becomes(CloseAtOnce(Client, i))
    <3>1. Typed(CloseAtOnce(Client, i)) /\ Bounded(CloseAtOnce(Client, i))
      BY <1>f, <2>1, <2>5, RaiseOnCloseTyped DEF CloseAtOnce
    <3>2. Stepped(CloseAtOnce(Client, i))
      BY <1>4, <2>5, <3>1 DEF StopTransport, Stepped
    <3>3. QED
      BY <2>2, <3>2, SteppedTyped
  <2>6. QED
    BY <1>4, <2>3, <2>4, <2>5 DEF StopTransport
<1>5. ASSUME NEW s \in Stops, TransportStopped(s)
      PROVE  TInv'
  <2> DEFINE d == [Client EXCEPT !.conn.transport = NoTransport]
  <2>1. StopTyped'
    BY <1>f, <1>5, StopGotoTyped DEF TransportStopped, StopPC
  <2>2. /\ Typed(d) /\ d.conn = [conn EXCEPT !.transport = NoTransport]
        /\ d.start = start /\ d.transport = transport
    BY <1>f, SetsTyped DEF Typed, ConnType
  <2> HIDE DEF d
  <2>3. Bounded(d)
    BY <1>f, <2>2 DEF Bounded, Opening, Room, Typed, ConnType
  <2>4. Stepped(d)
    BY <1>5, <2>2, <2>3 DEF TransportStopped, Stepped, Becomes
  <2>5. QED
    BY <2>1, <2>4, SteppedTyped
<1>6. ASSUME NEW s \in Stops, StopReturns(s)
      PROVE  TInv'
  <2>1. StopTyped'
    BY <1>f, <1>6, SetsTyped DEF StopReturns, StopTyped, StopPC
  <2>2. Stepped(Client)
    BY <1>f, <1>6 DEF StopReturns, Stepped, Becomes
  <2>3. QED
    BY <2>1, <2>2, SteppedTyped
<1>7. CASE Start
  <2>1. Quiet(Client)
    BY <1>7, ClientQuiet DEF Start
  <2>2. Stepped(StartCall(Client))
    BY <1>f, <1>7, <2>1, StartCallTyped DEF Start, Stepped
  <2>3. QED
    BY <1>f, <1>7, <2>2, SteppedTyped DEF Start, StopTyped
<1>8. CASE Send
  <2> DEFINE d == [Client EXCEPT !.conn.queue = conn.transport]
  <2>1. /\ Typed(d) /\ d.conn = [conn EXCEPT !.queue = conn.transport]
        /\ d.start = start /\ d.transport = transport
    BY <1>f DEF Typed, ConnType
  <2> HIDE DEF d
  <2>2. Bounded(d)
    BY <1>f, <2>1 DEF Bounded, Opening, Room, Typed, ConnType
  <2>3. Stepped(d)
    BY <1>8, <2>1, <2>2 DEF Send, Stepped, Becomes
  <2>4. QED
    BY <1>f, <1>8, <2>3, SteppedTyped DEF Send, StopTyped
<1>9. ASSUME NEW s \in Stops, Stop(s)
      PROVE  TInv'
  <2> DEFINE d == [Client EXCEPT !.conn.state = "Disconnecting", !.conn.stopPending = TRUE]
  <2>1. StopTyped'
    BY <1>f, <1>9, SetsTyped DEF Stop, StopTyped, StopPC
  <2>2. CASE UNCHANGED conn
    <3>1. Stepped(Client)
      BY <1>f, <1>9, <2>2 DEF Stop, Stepped, Becomes
    <3>2. QED
      BY <2>1, <3>1, SteppedTyped
  <2>3. CASE conn' = [conn EXCEPT !.state = "Disconnecting", !.stopPending = TRUE]
    <3>1. /\ Typed(d) /\ d.conn = [conn EXCEPT !.state = "Disconnecting", !.stopPending = TRUE]
          /\ d.start = start /\ d.transport = transport
      BY <1>f DEF Typed, ConnType
    <3> HIDE DEF d
    <3>2. Bounded(d)
      BY <1>f, <3>1 DEF Bounded, Opening, Room, Typed, ConnType
    <3>3. Stepped(d)
      BY <1>9, <2>3, <3>1, <3>2 DEF Stop, Stepped, Becomes
    <3>4. QED
      BY <2>1, <3>3, SteppedTyped
  <2>4. QED
    BY <1>9, <2>2, <2>3 DEF Stop
<1>10. CASE Renegotiated
  <2> DEFINE known == [Client EXCEPT !.conn.negotiations = conn.negotiations + 1,
                                     !.start.negotiated = TRUE]
  <2>1. ~setup.skipNegotiation /\ Room(Client) /\ Quiet(Client)
    BY <1>f, <1>10, ClientQuiet DEF Renegotiated, Bounded, Opening
  <2>2. /\ Typed(known) /\ Quiet(known) /\ known.start.next = start.next
        /\ known.conn.transports = conn.transports
    BY <1>f, <2>1 DEF Typed, ConnType, StartType, Quiet
  <2> HIDE DEF known
  <2>3. Room(known)
    BY <1>f, <2>1, <2>2 DEF Room
  <2>4. CASE Becomes(TryNext(known))
    <3>1. Stepped(TryNext(known))
      BY <1>f, <1>10, <2>1, <2>2, <2>3, <2>4, TryNextTyped DEF Renegotiated, Stepped
    <3>2. QED
      BY <1>f, <1>10, <3>1, SteppedTyped DEF Renegotiated, StopTyped
  <2> DEFINE heard == [Client EXCEPT !.conn.negotiations = conn.negotiations + 1]
             tried == [heard EXCEPT !.start.next = start.next + 1]
  <2>5. CASE Becomes(Goto(tried, "refused"))
    <3>1. start.next + 1 \in Candidate /\ start.next \in Nat /\ Len(setup.offer) \in Nat
      BY <1>f, <1>10, SetsTyped, SetupTyped DEF Renegotiated, Bounded, Typed, StartType
    <3>2. Typed(heard) /\ Quiet(heard) /\ heard.conn.transports = conn.transports
      BY <1>f, <2>1 DEF Typed, ConnType, Quiet
    <3> HIDE DEF heard
    <3>3. /\ Typed(tried) /\ Quiet(tried) /\ tried.start.next = start.next + 1
          /\ tried.conn = heard.conn
      BY <3>1, <3>2 DEF Typed, StartType, Quiet
    <3> HIDE DEF tried
    <3>4. /\ Typed(Goto(tried, "refused")) /\ Quiet(Goto(tried, "refused"))
          /\ Goto(tried, "refused").start.pc = "refused"
          /\ Goto(tried, "refused").start.next = start.next + 1
          /\ Goto(tried, "refused").conn = heard.conn
      BY <3>3 DEF Goto, Typed, StartType, StartPC, Quiet
    <3>5. conn.transports \in Nat /\ MaxTransports \in Nat
      BY <1>f, SetsTyped DEF Typed, ConnType
    <3>a. conn.transports + Len(setup.offer) + 1 <= MaxTransports + start.next
      BY <1>f, <2>1 DEF Room
    <3>b. conn.transports + Len(setup.offer) + 1 <= MaxTransports + (start.next + 1)
      BY <3>1, <3>5, <3>a
    <3>6. Room(Goto(tried, "refused"))
      BY <3>2, <3>4, <3>b DEF Room
    <3>7. Bounded(Goto(tried, "refused"))
      BY <3>4, <3>6 DEF Bounded, Quiet
    <3>8. Stepped(Goto(tried, "refused"))
      BY <1>10, <2>5, <3>4, <3>7 DEF Renegotiated, Stepped
    <3>9. QED
      BY <1>f, <1>10, <3>8, SteppedTyped DEF Renegotiated, StopTyped
  <2>6. Becomes(TryNext(known)) \/ Becomes(Goto(tried, "refused"))
    BY <1>10 DEF Renegotiated, known
  <2>7. QED
    BY <2>4, <2>5, <2>6
<1>11. CASE NegotiationFails
  <2>1. Quiet(Client)
    BY <1>11, ClientQuiet DEF NegotiationFails
  <2>2. Stepped(StartFails(Client))
    BY <1>f, <1>11, <2>1, StartFailsTyped DEF NegotiationFails, Stepped
  <2>3. QED
    BY <1>f, <1>11, <2>2, SteppedTyped DEF NegotiationFails, StopTyped
<1>12. ASSUME NEW redirect \in BOOLEAN, Negotiated(redirect)
       PROVE  TInv'
  BY <1>12, NegotiatedTyped
<1>13. ASSUME NEW i \in Transport, NEW state \in {"open", "failed"},
              NEW pc \in {"connected", "refused"},
              transport[i].state = "connecting", UNCHANGED <<stop, setup>>,
              Becomes(Goto([Client EXCEPT !.transport[i].state = state], pc))
       PROVE  TInv'
  <2> DEFINE d == [Client EXCEPT !.transport[i].state = state]
  <2>1. /\ Typed(d) /\ Bounded(d) /\ d.conn = conn /\ d.start = start
        /\ d.transport[i].state = state
        /\ \A j \in Transport \ {i} : d.transport[j] = transport[j]
    <3>1. state \in TransportState \ {"connecting"}
      BY DEF TransportState
    <3>2. QED
      BY <1>f, <3>1, TransportSet
  <2>2. start.pc = "connecting" /\ ~conn.started
    BY <1>f, <1>13 DEF Bounded
  <2> HIDE DEF d
  <2>3. Quiet(d)
    BY <1>f, <1>13, <2>1, <2>2 DEF Bounded, Quiet
  <2>4. ~setup.skipNegotiation => Room(d)
    BY <2>1, <2>2 DEF Bounded, Opening
  <2>5. /\ Typed(Goto(d, pc)) /\ Goto(d, pc).start.pc = pc /\ Goto(d, pc).start.next = start.next
        /\ Goto(d, pc).conn = conn /\ Goto(d, pc).transport = d.transport
    BY <2>1 DEF Goto, Typed, StartType, StartPC
  <2>6. Bounded(Goto(d, pc))
    BY <2>1, <2>3, <2>4, <2>5 DEF Bounded, Quiet, Room
  <2>7. Stepped(Goto(d, pc))
    BY <1>13, <2>5, <2>6 DEF Stepped, d
  <2>8. QED
    BY <1>f, <1>13, <2>7, SteppedTyped DEF StopTyped
<1>14. ASSUME NEW i \in Transport, transport[i].state = "connecting", UNCHANGED <<stop, setup>>,
              Becomes(Goto(RaiseOnClose(Client, i), "connected"))
       PROVE  TInv'
  <2> DEFINE d == [Client EXCEPT !.transport[i].state = "closed"]
             raised == StopConnection(d)
  <2>1. /\ Typed(d) /\ Bounded(d) /\ d.conn = conn /\ d.start = start
        /\ d.transport[i].state = "closed"
        /\ \A j \in Transport \ {i} : d.transport[j] = transport[j]
    <3>1. "closed" \in TransportState \ {"connecting"}
      BY DEF TransportState
    <3>2. QED
      BY <1>f, <3>1, TransportSet
  <2>2. RaiseOnClose(Client, i) = raised
    BY DEF RaiseOnClose
  <2> HIDE DEF d
  <2>3. Quiet(d)
    BY <1>f, <1>14, <2>1 DEF Bounded, Quiet
  <2>4. Typed(raised)
    BY <1>f, <2>1, StopConnectionTyped
  <2>5. Quiet(raised)
    BY <2>1, <2>3 DEF StopConnection, Off, Quiet, Typed, ConnType
  <2> HIDE DEF raised
  <2>6. Stepped(Goto(raised, "connected"))
    BY <1>14, <2>2, <2>4, <2>5, GotoTyped DEF Stepped
  <2>7. QED
    BY <1>f, <1>14, <2>6, SteppedTyped DEF StopTyped
<1>15. ASSUME NEW i \in Transport, Closes(i)
       PROVE  TInv'
  <2>1. Stepped(RaiseOnClose(Client, i))
    BY <1>f, <1>15, RaiseOnCloseTyped DEF Closes, Stepped
  <2>2. QED
    BY <1>f, <1>15, <2>1, SteppedTyped DEF Closes, StopTyped
<1>16. ASSUME NEW i \in Transport, NEW ok \in BOOLEAN, Deleted(i, ok)
       PROVE  TInv'
  BY <1>16, DeletedTyped
<1>17. CASE UNCHANGED vars
  BY <1>17 DEF vars, TInv, Typed, StopTyped, Bounded, Opening, Room, Client, ConnType, StartType,
     Candidate, TransportType
<1>18. ASSUME NEW i \in Transport, Settles(i)
       PROVE  TInv'
  <2>1. CASE OpenFails(i)
    BY <1>13, <2>1 DEF OpenFails
  <2>2. CASE SocketOpens(i) \/ EventSourceOpens(i)
    BY <1>13, <2>2 DEF SocketOpens, EventSourceOpens, Opened, Is
  <2>3. ASSUME NEW status \in setup.firstPolls, FirstPoll(i, status)
        PROVE  TInv'
    BY <1>13, <1>14, <2>3 DEF FirstPoll, Opened, Is
  <2>4. QED
    BY <1>16, <1>18, <2>1, <2>2, <2>3 DEF Settles
<1>19. ASSUME NEW i \in Transport, LateOpens(i)
       PROVE  TInv'
  <2>1. Stepped(Client)
    BY <1>f, <1>19 DEF LateOpens, Stepped, Becomes
  <2>2. QED
    BY <1>f, <1>19, <2>1, SteppedTyped DEF LateOpens, StopTyped
<1>20. ASSUME NEW i \in Transport, LateCloses(i)
       PROVE  TInv'
  <2>1. Stepped(StopConnection(Client))
    BY <1>f, <1>20, StopConnectionTyped DEF LateCloses, Stepped
  <2>2. QED
    BY <1>f, <1>20, <2>1, SteppedTyped DEF LateCloses, StopTyped
<1>21. QED
  BY <1>1, <1>2, <1>3, <1>4, <1>5, <1>6, <1>7, <1>8, <1>9, <1>10, <1>11, <1>12, <1>15, <1>17, <1>18,
     <1>19, <1>20
  DEF Next, GoesOn, Answers, SocketCloses, EventSourceCloses, PollsEnd

\* A late event source opens once and ends once.
LEMMA StepLate ==
  ASSUME LateTyped, [Next]_vars
  PROVE  LateTyped' /\ (Undisturbed' => Undisturbed)
<1>1. CASE late' = late
  BY <1>1 DEF LateTyped, Undisturbed
<1>2. ASSUME NEW i \in Transport, LateOpens(i) \/ LateCloses(i)
      PROVE  LateTyped' /\ (Undisturbed' => Undisturbed)
  <2>1. PICK state \in {"open", "ended"} : late' = [late EXCEPT ![i] = state]
    BY <1>2 DEF LateOpens, LateCloses
  <2>2. late[i] # "ended"
    BY <1>2 DEF LateOpens, LateCloses
  <2>3. QED
    BY <2>1, <2>2 DEF LateTyped, LateState, Undisturbed
<1>3. late' = late \/ \E i \in Transport : LateOpens(i) \/ LateCloses(i)
  BY DEF Next, GoesOn, Answers, Settles, Connected, Refused, StartStopped, StopTransport,
     TransportStopped, StopReturns, Start, Send, Stop, Renegotiated, NegotiationFails, Negotiated,
     OpenFails, SocketOpens, EventSourceOpens, FirstPoll, Deleted, SocketCloses,
     EventSourceCloses, PollsEnd, Closes, vars
<1>4. QED
  BY <1>1, <1>2, <1>3

LEMMA SpecTInv == Spec => [](TInv /\ LateTyped)
<1>1. Init => LateTyped
  BY DEF Init, LateTyped, LateState
<1>2. LateTyped /\ [Next]_vars => LateTyped'
  BY StepLate
<1>3. QED
  BY <1>1, <1>2, InitTInv, StepTInv, PTL DEF Spec

\* Every reachable state of the connection is well typed, whatever the options, the
\* server's offers and the calls of start() and stop().
THEOREM ConnectionTypeCorrect == Spec => []TypeOK
<1>1. TInv /\ LateTyped => TypeOK
  BY DEF TInv, TypeOK, Typed, Client, StopTyped, LateTyped
<1>2. QED
  BY <1>1, SpecTInv, PTL

-----------------------------------------------------------------------------
(* No transport is forgotten.                                              *)

\* Without the two set-ups that break it: a first poll with a status that ends the
\* polls, and a restart inside onclose that needs no negotiation.
OrdinarySetup(s) == s.firstPolls = {200} /\ ~(s.skipNegotiation /\ s.restartsInside)
OrdinarySetups == \A s \in Setups : OrdinarySetup(s)

Active(c, i) == c.transport[i].state \in {"connecting", "open", "deleting"}
Still(c) == \A i \in Transport : ~Active(c, i)
Starting(c) == c.start.pc \notin {"idle", "stopped"}
UsesOpen(c) ==
  c.conn.transport # NoTransport /\ c.transport[c.conn.transport].state = "open"

\* The transport that start or stop is busy with is the one in use.
Sound(c) ==
  /\ \A i \in Transport : Active(c, i) => i = c.conn.transport /\ c.conn.state # "Disconnected"
  /\ Starting(c) => c.conn.state \in {"Connecting", "Disconnecting"}
  /\ c.conn.state = "Connecting" => Starting(c)
  /\ c.start.pc \in {"negotiating", "renegotiating", "refused"} => Still(c)
  /\ c.start.pc = "connecting" =>
       c.conn.transport # NoTransport /\ c.transport[c.conn.transport].state = "connecting"
  /\ c.start.pc = "connected" => UsesOpen(c)
  /\ c.conn.state = "Connected" => c.start.pc = "idle" /\ UsesOpen(c)
  /\ \A i \in Transport : c.transport[i].state = "deleting" =>
       ~Starting(c) /\ c.conn.state = "Disconnecting" /\ c.conn.stopPending
  /\ c.conn.queue # NoTransport =>
       /\ c.conn.queue = c.conn.transport
       /\ c.transport[c.conn.queue].state \in {"open", "deleting"}

\* A token is used once.
TokensOwn(c) ==
  /\ \A i \in Transport : c.transport[i].token <= c.conn.negotiations
  /\ \A i, j \in Transport : c.transport[i].token = c.transport[j].token =>
       i = j \/ c.transport[i].token = 0
  /\ setup.skipNegotiation => c.conn.negotiations = 0
\* The last negotiation has not opened a transport yet.
Fresh(c) ==
  setup.skipNegotiation \/ \A i \in Transport : c.transport[i].token < c.conn.negotiations
\* A token that is kept from one endpoint to the next would be used twice.
Tokens(c) == TokensOwn(c) /\ (Opening(c) => ~c.start.negotiated)

\* Two calls of stop() are never busy with a transport at once.
StopsApart(c, st) ==
  /\ \A s, r \in Stops : st[s].pc = "starting" /\ st[r].pc = "starting" => s = r
  /\ \A s \in Stops : st[s].pc = "starting" =>
       \/ c.conn.state = "Disconnecting" /\ c.conn.stopPending
       \/ c.start.pc = "idle" /\ c.conn.transport = NoTransport
  /\ \A s \in Stops : st[s].pc = "deleted" =>
       /\ c.start.pc \in {"idle", "stopped", "negotiating"} /\ Still(c)
       /\ \A r \in Stops : st[r].pc # "starting"
  /\ \A i \in Transport : c.transport[i].state = "deleting" =>
       \A s \in Stops : st[s].pc \notin {"starting", "deleted"}

Inductive == Sound(Client) /\ Tokens(Client) /\ StopsApart(Client, stop)

IInv == TInv /\ Inductive

\* No transport is in use and none is on its way.
Clear(c) == Typed(c) /\ Still(c) /\ c.conn.queue = NoTransport

LEMMA StartFailsSound ==
  ASSUME NEW c, Clear(c), TokensOwn(c)
  PROVE  LET d == StartFails(c)
         IN /\ Sound(d) /\ Tokens(d) /\ Still(d)
            /\ d.start.pc = "idle" /\ d.conn.transport = NoTransport
<1> DEFINE d == StartFails(c)
<1>1. /\ d.start.pc = "idle" /\ d.conn.transport = NoTransport /\ d.conn.state = "Disconnected"
      /\ d.conn.queue = c.conn.queue /\ d.conn.negotiations = c.conn.negotiations
      /\ d.transport = c.transport
  BY DEF Clear, Typed, StartFails, Goto, StartType, ConnType
<1> HIDE DEF d
<1>2. Still(d)
  BY <1>1 DEF Clear, Still, Active
<1>3. Sound(d)
  BY <1>1, <1>2 DEF Clear, Sound, Starting, Still, Active
<1>4. Tokens(d)
  BY <1>1 DEF Tokens, TokensOwn, Opening
<1>5. QED
  BY <1>1, <1>2, <1>3, <1>4 DEF d

LEMMA StartTransportSound ==
  ASSUME setup \in Setups, NEW c, Clear(c), TokensOwn(c), Fresh(c), ~c.start.negotiated,
         NEW kind \in Kind, c.conn.transports < MaxTransports,
         c.conn.state \in {"Connecting", "Disconnecting"}
  PROVE  LET d == StartTransport(c, kind)
         IN /\ Sound(d) /\ Tokens(d) /\ d.start.pc = "connecting"
            /\ d.conn.state = c.conn.state /\ d.conn.stopPending = c.conn.stopPending
            /\ \A i \in Transport : d.transport[i].state # "deleting"
<1> DEFINE d == StartTransport(c, kind)
           new == c.conn.transports + 1
<1>1. new \in Transport /\ new # NoTransport
  BY SetsTyped DEF Clear, Typed, ConnType
<1>2. /\ d.start.pc = "connecting" /\ d.start.negotiated = c.start.negotiated
      /\ d.conn.transport = new /\ d.conn.state = c.conn.state
      /\ d.conn.queue = c.conn.queue /\ d.conn.negotiations = c.conn.negotiations
      /\ d.conn.stopPending = c.conn.stopPending
      /\ d.transport[new].state = "connecting" /\ d.transport[new].token = c.conn.negotiations
      /\ \A i \in Transport : i # new => d.transport[i] = c.transport[i]
  BY <1>1 DEF Clear, Typed, StartTransport, Goto, StartType, ConnType, TransportType
<1> HIDE DEF d, new
<1>3. \A i \in Transport : i # new => d.transport[i].state \notin {"connecting", "open", "deleting"}
  BY <1>2 DEF Clear, Still, Active
<1>4. Sound(d)
  BY <1>1, <1>2, <1>3 DEF Clear, Sound, Starting, Still, Active
<1>5. c.conn.negotiations \in Nat /\ \A i \in Transport : c.transport[i].token \in Nat
  BY DEF Clear, Typed, ConnType, TransportType
<1>6. Tokens(d)
  BY <1>1, <1>2, <1>5 DEF Tokens, TokensOwn, Fresh
<1>7. QED
  BY <1>2, <1>3, <1>4, <1>6 DEF d

LEMMA TryNextSound ==
  ASSUME setup \in Setups, ~setup.skipNegotiation, NEW c, Clear(c), Room(c), TokensOwn(c),
         c.start.negotiated => Fresh(c), c.conn.state \in {"Connecting", "Disconnecting"}
  PROVE  LET d == TryNext(c)
         IN /\ Sound(d) /\ Tokens(d) /\ \A i \in Transport : d.transport[i].state # "deleting"
            /\ \/ d.start.pc = "idle" /\ d.conn.transport = NoTransport
               \/ d.conn.state = c.conn.state /\ d.conn.stopPending = c.conn.stopPending
<1> DEFINE n == NextUsable(c.start.next)
           at == [c EXCEPT !.start.next = n]
<1>1. c.start.next \in Candidate
  BY DEF Clear, Typed, StartType
<1>2. n \in Candidate /\ c.start.next <= n
      /\ (n <= Len(setup.offer) => Usable(setup.offer[n]))
  BY <1>1, NextUsableTyped
<1>3. n \in Nat /\ c.start.next \in Nat /\ Len(setup.offer) \in Nat /\ c.conn.transports \in Nat
      /\ MaxTransports \in Nat /\ n <= Len(setup.offer) + 1
  BY <1>1, <1>2, SetsTyped, SetupTyped DEF Clear, Typed, ConnType
<1> HIDE DEF n
<1>4. /\ Clear(at) /\ TokensOwn(at) /\ at.conn = c.conn /\ at.transport = c.transport
      /\ at.start.negotiated = c.start.negotiated
  BY <1>2 DEF Clear, Typed, StartType, Still, Active, TokensOwn
<1>5. CASE n > Len(setup.offer)
  <2>1. TryNext(c) = StartFails(at)
    BY <1>5 DEF TryNext, n
  <2> HIDE DEF at
  <2>2. QED
    BY <1>4, <2>1, StartFailsSound DEF Still, Active
<1>6. CASE n <= Len(setup.offer) /\ c.start.negotiated
  <2> DEFINE tried == [at EXCEPT !.start.next = n + 1, !.start.negotiated = FALSE]
  <2>1. TryNext(c) = StartTransport(tried, setup.offer[n].transport)
    BY <1>3, <1>6 DEF TryNext, n
  <2>2. n \in 1 .. Len(setup.offer) /\ n + 1 \in Candidate
    BY <1>2, <1>3, <1>6 DEF Candidate
  <2>3. setup.offer[n].transport \in Kind
    BY <1>2, <1>6, <2>2, UsableKind
  <2> HIDE DEF at
  <2>4. /\ Typed(tried) /\ ~tried.start.negotiated
        /\ tried.conn = c.conn /\ tried.transport = c.transport
    BY <1>4, <2>2 DEF Clear, Typed, StartType
  <2> HIDE DEF tried
  <2>5. Clear(tried) /\ TokensOwn(tried) /\ Fresh(tried)
    BY <1>6, <2>4 DEF Clear, Still, Active, TokensOwn, Fresh
  <2>6. tried.conn.transports < MaxTransports
    <3>1. c.conn.transports < MaxTransports
      BY <1>2, <1>3, <1>6, RoomShrinks DEF Room
    <3>2. QED
      BY <2>4, <3>1
  <2>7. QED
    BY <2>1, <2>3, <2>4, <2>5, <2>6, StartTransportSound
<1>7. CASE n <= Len(setup.offer) /\ ~c.start.negotiated
  <2> DEFINE chosen == [at EXCEPT !.conn.transport = c.conn.transports]
             d == Goto(chosen, "renegotiating")
  <2>1. TryNext(c) = d
    BY <1>3, <1>7 DEF TryNext, n
  <2> HIDE DEF at
  <2>a. c.conn.transports \in TransportOrNone
    BY DEF Clear, Typed, ConnType
  <2>b. /\ Typed(chosen) /\ chosen.transport = c.transport /\ ~chosen.start.negotiated
        /\ chosen.conn.state = c.conn.state /\ chosen.conn.stopPending = c.conn.stopPending
        /\ chosen.conn.queue = NoTransport /\ chosen.conn.negotiations = c.conn.negotiations
    BY <1>4, <1>7, <2>a DEF Clear, Typed, ConnType
  <2> HIDE DEF chosen
  <2>2. /\ d.transport = c.transport /\ d.start.pc = "renegotiating" /\ ~d.start.negotiated
        /\ d.conn = chosen.conn
    BY <2>b DEF Goto, Typed, StartType, StartPC
  <2> HIDE DEF d
  <2>3. Sound(d) /\ Tokens(d)
    BY <2>2, <2>b DEF Clear, Sound, Starting, Still, Active, Tokens, TokensOwn
  <2>4. QED
    BY <2>1, <2>2, <2>3, <2>b DEF Clear, Still, Active
<1>8. QED
  BY <1>3, <1>5, <1>6, <1>7

LEMMA StartDoneSound ==
  ASSUME NEW c, Typed(c), Sound(c), Tokens(c), c.start.pc = "connected"
  PROVE  LET d == StartDone(c)
         IN /\ Sound(d) /\ Tokens(d) /\ \A i \in Transport : d.transport[i].state # "deleting"
            /\ c.conn.state = "Connecting"
                 \/ (d.conn.state = "Disconnecting" /\ d.conn.stopPending = c.conn.stopPending)
<1> DEFINE alive == c.conn.inherentKeepAlive
                      \/ (c.conn.transport # NoTransport
                            /\ c.transport[c.conn.transport].kind = "LongPolling")
           kept == [c EXCEPT !.conn.inherentKeepAlive = alive]
           up == [kept EXCEPT !.conn.state = "Connected", !.conn.started = TRUE]
<1> HIDE DEF alive
<1>1. /\ kept.transport = c.transport /\ kept.start = c.start
      /\ kept.conn.state = c.conn.state /\ kept.conn.transport = c.conn.transport
      /\ kept.conn.queue = c.conn.queue /\ kept.conn.negotiations = c.conn.negotiations
      /\ kept.conn.stopPending = c.conn.stopPending
  BY DEF Typed, ConnType
<1>2. /\ up.transport = c.transport /\ up.start = c.start
      /\ up.conn.state = "Connected" /\ up.conn.transport = c.conn.transport
      /\ up.conn.queue = c.conn.queue /\ up.conn.negotiations = c.conn.negotiations
  BY DEF Typed, ConnType
<1>3. StartDone(c) = IF c.conn.state = "Connecting" THEN Goto(up, "idle") ELSE Goto(kept, "stopped")
  BY DEF StartDone, alive
<1> HIDE DEF kept, up
<1>4. /\ Goto(up, "idle").start.pc = "idle" /\ Goto(up, "idle").conn = up.conn
      /\ Goto(up, "idle").transport = up.transport
      /\ Goto(kept, "stopped").start.pc = "stopped" /\ Goto(kept, "stopped").conn = kept.conn
      /\ Goto(kept, "stopped").transport = kept.transport
  BY <1>1, <1>2 DEF Goto, Typed, StartType
<1>5. UsesOpen(c) /\ c.conn.state \in {"Connecting", "Disconnecting"}
      /\ \A i \in Transport : c.transport[i].state # "deleting"
  BY DEF Sound, Starting
<1>6. CASE c.conn.state = "Connecting"
  <2> DEFINE d == Goto(up, "idle")
  <2> HIDE DEF d
  <2>1. d.start.pc = "idle" /\ d.conn = up.conn /\ d.transport = c.transport
    BY <1>2, <1>4 DEF d
  <2>2. Sound(d)
    BY <1>2, <1>5, <2>1 DEF Sound, Starting, UsesOpen, Active, Still
  <2>3. Tokens(d)
    BY <1>2, <2>1 DEF Tokens, TokensOwn, Opening
  <2>4. QED
    BY <1>3, <1>5, <1>6, <2>1, <2>2, <2>3 DEF d
<1>7. CASE c.conn.state # "Connecting"
  <2> DEFINE d == Goto(kept, "stopped")
  <2> HIDE DEF d
  <2>1. d.start.pc = "stopped" /\ d.conn = kept.conn /\ d.transport = c.transport
    BY <1>1, <1>4 DEF d
  <2>2. Sound(d)
    BY <1>1, <1>5, <1>7, <2>1 DEF Sound, Starting, UsesOpen, Active, Still
  <2>3. Tokens(d)
    BY <1>1, <2>1 DEF Tokens, TokensOwn, Opening
  <2>4. QED
    BY <1>1, <1>3, <1>5, <1>7, <2>1, <2>2, <2>3 DEF d
<1>8. QED
  BY <1>6, <1>7

LEMMA StartCallSound ==
  ASSUME setup \in Setups, NEW c, Clear(c), TokensOwn(c), MayStart(c)
  PROVE  LET d == StartCall(c)
         IN /\ Sound(d) /\ Tokens(d) /\ \A i \in Transport : d.transport[i].state # "deleting"
            /\ d.conn.state = "Connecting"
            /\ ~setup.skipNegotiation => d.start.pc = "negotiating" /\ Still(d)
<1> DEFINE begun == [c EXCEPT !.conn.state = "Connecting", !.conn.starts = c.conn.starts + 1,
                              !.start = [pc |-> "negotiating", next |-> 1, redirects |-> 0,
                                         negotiated |-> FALSE]]
<1>1. c.conn.starts + 1 \in StartCount
  BY SetsTyped DEF MayStart, Clear, Typed, ConnType
<1>2. Typed(begun)
  BY <1>1, SetsTyped DEF Clear, Typed, ConnType, StartType, StartPC
<1>3. /\ begun.conn.state = "Connecting" /\ begun.conn.transports = c.conn.transports
      /\ begun.conn.queue = c.conn.queue /\ begun.conn.negotiations = c.conn.negotiations
      /\ begun.start.pc = "negotiating" /\ ~begun.start.negotiated
      /\ begun.transport = c.transport
  BY DEF Clear, Typed, ConnType
<1>4. StartCall(c) = IF setup.skipNegotiation THEN SkipNegotiation(begun) ELSE begun
  BY DEF StartCall
<1> HIDE DEF begun
<1>5. Clear(begun) /\ TokensOwn(begun) /\ begun.conn.transports < MaxTransports
  BY <1>2, <1>3 DEF Clear, Still, Active, TokensOwn, MayStart
<1>6. CASE ~setup.skipNegotiation
  <2>1. Sound(begun) /\ Tokens(begun)
    BY <1>3, <1>5 DEF Clear, Sound, Starting, Still, Active, Tokens
  <2>2. QED
    BY <1>3, <1>4, <1>5, <1>6, <2>1 DEF Clear, Still, Active
<1>7. CASE setup.skipNegotiation /\ setup.allowed = {"WebSockets"}
  <2>1. StartCall(c) = StartTransport(begun, "WebSockets")
    BY <1>4, <1>7 DEF SkipNegotiation
  <2>2. Fresh(begun) /\ "WebSockets" \in Kind
    BY <1>7 DEF Fresh, Kind
  <2>3. QED
    BY <1>3, <1>5, <1>7, <2>1, <2>2, StartTransportSound
<1>8. CASE setup.skipNegotiation /\ setup.allowed # {"WebSockets"}
  <2> DEFINE d == Goto(begun, "refused")
  <2>1. StartCall(c) = d
    BY <1>4, <1>8 DEF SkipNegotiation
  <2>2. /\ d.start.pc = "refused" /\ ~d.start.negotiated /\ d.conn = begun.conn
        /\ d.transport = begun.transport
    BY <1>2, <1>3 DEF Goto, Typed, StartType
  <2> HIDE DEF d
  <2>3. Sound(d) /\ Tokens(d)
    BY <1>3, <1>5, <2>2 DEF Clear, Sound, Starting, Still, Active, Tokens, TokensOwn
  <2>4. QED
    BY <1>3, <1>5, <1>8, <2>1, <2>2, <2>3 DEF Clear, Still, Active
<1>9. QED
  BY <1>6, <1>7, <1>8

\* The connection has come to an end; the owner may have started the next one.
Left(c) ==
  /\ Sound(c) /\ Tokens(c) /\ Still(c)
  /\ c.start.pc \in {"idle", "stopped", "negotiating"}
  /\ c.conn.state \in {"Disconnected", "Connecting"}

LEMMA StopConnectionSound ==
  ASSUME OrdinarySetup(setup), setup \in Setups, NEW c, Typed(c), Bounded(c), Still(c), TokensOwn(c),
         c.start.pc \in {"idle", "stopped"}, c.conn.state \in {"Connected", "Disconnecting"}
  PROVE  Left(StopConnection(c))
<1> DEFINE off == Off(c)
           told == Told(off)
<1>1. /\ Typed(off) /\ off.start = c.start /\ off.transport = c.transport
      /\ off.conn.state = "Disconnected" /\ off.conn.queue = NoTransport
      /\ off.conn.transport = NoTransport /\ off.conn.negotiations = c.conn.negotiations
  BY SetsTyped DEF Off, Typed, ConnType
<1> HIDE DEF off
<1>2. ASSUME NEW d, d.start = c.start, d.transport = c.transport, d.conn.state = "Disconnected",
             d.conn.queue = NoTransport, d.conn.negotiations = c.conn.negotiations
      PROVE  Left(d)
  <2>1. Still(d) /\ d.start.pc \in {"idle", "stopped"}
    BY <1>2 DEF Still, Active
  <2>2. Sound(d)
    BY <1>2, <2>1 DEF Sound, Starting, Still, Active
  <2>3. Tokens(d)
    BY <1>2, <2>1 DEF Tokens, TokensOwn, Opening
  <2>4. QED
    BY <1>2, <2>1, <2>2, <2>3 DEF Left
<1>3. CASE ~c.conn.started
  <2>1. StopConnection(c) = off
    BY <1>3 DEF StopConnection, off
  <2>2. QED
    BY <1>1, <1>2, <2>1
<1>4. CASE c.conn.started
  <2>1. off.conn.closes + 1 \in Nat /\ off.conn.ends + 1 \in Nat
    BY <1>1 DEF Typed, ConnType
  <2>2. /\ Typed(told) /\ told.start = c.start /\ told.transport = c.transport
        /\ told.conn.state = "Disconnected" /\ told.conn.queue = NoTransport
        /\ told.conn.negotiations = c.conn.negotiations
    BY <1>1, <2>1 DEF Told, Typed, ConnType
  <2> HIDE DEF told
  <2>3. StopConnection(c) = Restarts(told)
    BY <1>4 DEF StopConnection, told, off
  <2>4. CASE setup.restartsInside /\ MayStart(told)
    <3>1. ~setup.skipNegotiation /\ Restarts(told) = StartCall(told)
      BY <2>4 DEF OrdinarySetup, Restarts
    <3>2. Clear(told) /\ TokensOwn(told)
      BY <2>2 DEF Clear, Still, Active, TokensOwn
    <3>3. QED
      BY <2>3, <2>4, <3>1, <3>2, StartCallSound DEF Left
  <2>5. CASE ~(setup.restartsInside /\ MayStart(told))
    BY <1>2, <2>2, <2>3, <2>5 DEF Restarts
  <2>6. QED
    BY <2>4, <2>5
<1>5. QED
  BY <1>3, <1>4

\* _stopConnection runs a second time when the DELETE of long polling fails.
LEMMA StopConnectionAgain ==
  ASSUME setup \in Setups, NEW c, Typed(c), Left(c)
  PROVE  Left(StopConnection(c))
<1> DEFINE d == [c EXCEPT !.conn.transport = NoTransport]
<1>1. StopConnection(c) = d
  BY DEF StopConnection, Left
<1>2. /\ d.start = c.start /\ d.transport = c.transport /\ d.conn.state = c.conn.state
      /\ d.conn.queue = c.conn.queue /\ d.conn.negotiations = c.conn.negotiations
      /\ d.conn.transport = NoTransport
  BY DEF Typed, ConnType
<1>3. c.conn.queue = NoTransport
  <2>1. c.conn.queue # NoTransport =>
          c.conn.queue \in Transport /\ Active(c, c.conn.queue)
    BY SetsTyped DEF Left, Sound, Active, Typed, ConnType
  <2>2. QED
    BY <2>1 DEF Left, Still
<1> HIDE DEF d
<1>4. Still(d) /\ Tokens(d)
  BY <1>2 DEF Left, Still, Active, Tokens, TokensOwn, Opening
<1>5. Sound(d)
  BY <1>2, <1>3, <1>4 DEF Left, Sound, Starting, Still, Active
<1>6. QED
  BY <1>1, <1>2, <1>4, <1>5 DEF Left

LEMMA RaiseOnCloseSound ==
  ASSUME OrdinarySetup(setup), setup \in Setups, NEW c, Typed(c), Bounded(c), Sound(c), TokensOwn(c),
         NEW i \in Transport, c.transport[i].state \in {"open", "deleting"},
         c.conn.state # "Connecting", c.start.pc # "connected"
  PROVE  Left(RaiseOnClose(c, i))
<1> DEFINE d == [c EXCEPT !.transport[i].state = "closed"]
<1>1. /\ Typed(d) /\ Bounded(d) /\ d.conn = c.conn /\ d.start = c.start
      /\ d.transport[i].state = "closed"
      /\ \A j \in Transport \ {i} : d.transport[j] = c.transport[j]
      /\ \A j \in Transport : d.transport[j].token = c.transport[j].token
  <2>1. "closed" \in TransportState \ {"connecting"}
    BY DEF TransportState
  <2>2. QED
    BY <2>1, TransportSet
<1>2. RaiseOnClose(c, i) = StopConnection(d)
  BY DEF RaiseOnClose
<1> HIDE DEF d
<1>3. i = c.conn.transport /\ c.conn.state \in {"Connected", "Disconnecting"}
  BY DEF Sound, Active, Typed, ConnType
<1>4. c.start.pc \in {"idle", "stopped"}
  <2>1. ~Still(c) /\ c.transport[c.conn.transport].state # "connecting"
    BY <1>3 DEF Still, Active
  <2>2. QED
    BY <2>1 DEF Sound, Typed, StartType, StartPC
<1>5. Still(d)
  BY <1>1, <1>3 DEF Sound, Still, Active
<1>6. TokensOwn(d)
  BY <1>1 DEF TokensOwn
<1>7. QED
  BY <1>1, <1>2, <1>3, <1>4, <1>5, <1>6, StopConnectionSound

LEMMA BecomesSound ==
  ASSUME NEW d, Becomes(d), UNCHANGED setup, Sound(d), Tokens(d), StopsApart(d, stop')
  PROVE  Inductive'
<1>1. conn' = d.conn /\ start' = d.start /\ transport' = d.transport
  BY DEF Becomes
<1>2. Sound(Client)'
  BY <1>1 DEF Sound, Starting, Still, Active, UsesOpen, Client
<1>3. Tokens(Client)'
  BY <1>1 DEF Tokens, TokensOwn, Opening, Client
<1>4. StopsApart(Client, stop)'
  BY <1>1 DEF StopsApart, Still, Active, Client
<1>5. QED
  BY <1>2, <1>3, <1>4 DEF Inductive

\* Where no call of stop() is busy with a transport, they are apart.
NoneBusy(st) == \A s \in Stops : st[s].pc \notin {"starting", "deleted"}

LEMMA NoneBusyApart ==
  ASSUME NEW c, NEW st, NoneBusy(st)
  PROVE  StopsApart(c, st)
  BY DEF NoneBusy, StopsApart

LEMMA IdleFacts ==
  ASSUME Idle
  PROVE  /\ start.pc \notin {"connected", "refused"}
         /\ \A s \in Stops : stop[s].pc # "deleted"
         /\ start.pc \in {"idle", "stopped"} => NoneBusy(stop)
  BY DEF Idle, StartReady, StopReady, NoneBusy

\* While connecting, none of them is.
LEMMA ConnectingFacts ==
  ASSUME TInv, Inductive, conn.state = "Connecting", start.pc # "negotiating" \/ Idle
  PROVE  NoneBusy(stop)
<1>1. Starting(Client) /\ Client.conn = conn /\ Client.start = start
  BY DEF Inductive, Sound, Client
<1>2. \A s \in Stops : stop[s].pc # "starting"
  BY <1>1 DEF Inductive, StopsApart, Starting
<1>3. \A s \in Stops : stop[s].pc # "deleted"
  BY <1>1, IdleFacts DEF Inductive, StopsApart, Starting
<1>4. QED
  BY <1>2, <1>3 DEF NoneBusy

\* A queue is dropped with its transport.
LEMMA StillClear ==
  ASSUME setup \in Setups, NEW c, Typed(c), Sound(c), Still(c)
  PROVE  Clear(c)
<1>1. c.conn.queue # NoTransport => c.conn.queue \in Transport /\ Active(c, c.conn.queue)
  BY SetsTyped DEF Sound, Active, Typed, ConnType
<1>2. QED
  BY <1>1 DEF Clear, Still

LEMMA InitIInv == Init => IInv
<1> SUFFICES ASSUME Init
             PROVE  IInv
  OBVIOUS
<1>1. Sound(Client)
  BY DEF Init, Client, Sound, Starting, Still, Active, NoTransport
<1>2. Tokens(Client)
  BY DEF Init, Client, Tokens, TokensOwn, Opening
<1>3. NoneBusy(stop)
  BY DEF Init, NoneBusy
<1>4. QED
  BY <1>1, <1>2, <1>3, InitTInv, NoneBusyApart DEF IInv, Inductive

\* Of the calls of stop() only s moves.
LEMMA StopGotoFacts ==
  ASSUME StopTyped, NEW s \in Stops, NEW pc \in StopPC, StopGoto(s, pc)
  PROVE  /\ stop'[s].pc = pc /\ stop'[s].awaits = stop[s].awaits
         /\ \A r \in Stops \ {s} : stop'[r] = stop[r]
<1> DEFINE moved == [[stop[s] EXCEPT !.pc = pc] EXCEPT !.transport = conn.transport]
<1>1. moved.pc = pc /\ moved.awaits = stop[s].awaits
  BY DEF StopTyped
<1>2. stop' = [stop EXCEPT ![s] = moved]
  BY DEF StopGoto, StopTyped
<1> HIDE DEF moved
<1>3. QED
  BY <1>1, <1>2 DEF StopTyped

LEMMA RefusedSound ==
  ASSUME TInv, Inductive, Refused
  PROVE  Inductive'
<1>1. /\ setup \in Setups /\ Typed(Client) /\ Bounded(Client)
      /\ Client.conn = conn /\ Client.start = start
      /\ start.pc = "refused" /\ UNCHANGED <<stop, setup>>
  BY TInvFacts DEF Refused
<1>2. /\ Sound(Client) /\ Tokens(Client) /\ Still(Client)
      /\ conn.state \in {"Connecting", "Disconnecting"}
  BY <1>1 DEF Inductive, Sound, Starting
<1>3. Clear(Client) /\ TokensOwn(Client) /\ ~Client.start.negotiated
  BY <1>1, <1>2, StillClear DEF Tokens, Opening
<1>4. CASE conn.state = "Connecting" /\ ~setup.skipNegotiation
  <2> DEFINE d == TryNext(Client)
  <2>1. Room(Client)
    BY <1>1, <1>4 DEF Bounded, Opening
  <2>2. Sound(d) /\ Tokens(d)
    BY <1>1, <1>2, <1>3, <1>4, <2>1, TryNextSound
  <2>3. Becomes(d)
    BY <1>4 DEF Refused
  <2> HIDE DEF d
  <2>4. NoneBusy(stop')
    BY <1>1, <1>4, ConnectingFacts DEF NoneBusy
  <2>5. QED
    BY <1>1, <2>2, <2>3, <2>4, NoneBusyApart, BecomesSound
<1>5. CASE ~(conn.state = "Connecting" /\ ~setup.skipNegotiation)
  <2> DEFINE d == StartFails(Client)
  <2>1. Sound(d) /\ Tokens(d) /\ Still(d) /\ d.start.pc = "idle" /\ d.conn.transport = NoTransport
    BY <1>3, StartFailsSound
  <2>2. Becomes(d)
    BY <1>5 DEF Refused
  <2> HIDE DEF d
  <2>3. StopsApart(d, stop')
    BY <1>1, <2>1 DEF Inductive, StopsApart, Still, Active
  <2>4. QED
    BY <1>1, <2>1, <2>2, <2>3, BecomesSound
<1>6. QED
  BY <1>4, <1>5

LEMMA StartStoppedSound ==
  ASSUME TInv, Inductive, StartStopped
  PROVE  Inductive'
<1> DEFINE d == Goto([Client EXCEPT !.conn.ends = conn.ends + 1], "idle")
<1>1. /\ Typed(Client) /\ Client.conn = conn /\ Client.start = start
      /\ Client.transport = transport
      /\ start.pc = "stopped" /\ ~conn.stopPending /\ UNCHANGED <<stop, setup>> /\ Becomes(d)
  BY TInvFacts DEF StartStopped
<1>2. /\ d.start.pc = "idle" /\ d.transport = transport
      /\ d.conn.state = conn.state /\ d.conn.transport = conn.transport
      /\ d.conn.queue = conn.queue /\ d.conn.negotiations = conn.negotiations
      /\ d.conn.stopPending = conn.stopPending
  BY <1>1 DEF Goto, Typed, ConnType, StartType
<1> HIDE DEF d
<1>3. Sound(d)
  BY <1>1, <1>2 DEF Inductive, Sound, Starting, Still, Active, UsesOpen
<1>4. Tokens(d)
  BY <1>1, <1>2 DEF Inductive, Tokens, TokensOwn, Opening
<1>5. StopsApart(d, stop')
  BY <1>1, <1>2 DEF Inductive, StopsApart, Still, Active
<1>6. QED
  BY <1>1, <1>3, <1>4, <1>5, BecomesSound

LEMMA ConnectedSound ==
  ASSUME TInv, Inductive, Connected
  PROVE  Inductive'
<1> DEFINE d == StartDone(Client)
<1>1. /\ Typed(Client) /\ Client.conn = conn /\ Client.start = start
      /\ start.pc = "connected" /\ UNCHANGED <<stop, setup>> /\ Becomes(d)
  BY TInvFacts DEF Connected
<1>2. /\ Sound(d) /\ Tokens(d) /\ \A i \in Transport : d.transport[i].state # "deleting"
      /\ conn.state = "Connecting"
           \/ (d.conn.state = "Disconnecting" /\ d.conn.stopPending = conn.stopPending)
  BY <1>1, StartDoneSound DEF Inductive
<1> HIDE DEF d
<1>3. CASE conn.state = "Connecting"
  <2>1. NoneBusy(stop')
    BY <1>1, <1>3, ConnectingFacts DEF NoneBusy
  <2>2. QED
    BY <1>1, <1>2, <2>1, NoneBusyApart, BecomesSound
<1>4. CASE conn.state # "Connecting"
  <2>1. StopsApart(d, stop')
    BY <1>1, <1>2, <1>4 DEF Inductive, StopsApart
  <2>2. QED
    BY <1>1, <1>2, <2>1, BecomesSound
<1>5. QED
  BY <1>3, <1>4

LEMMA StopTransportSound ==
  ASSUME OrdinarySetup(setup), TInv, Inductive, NEW s \in Stops, StopTransport(s)
  PROVE  Inductive'
<1> DEFINE i == conn.transport
<1>1. /\ setup \in Setups /\ Typed(Client) /\ Bounded(Client) /\ StopTyped
      /\ Client.conn = conn /\ Client.start = start /\ Client.transport = transport
      /\ stop[s].pc = "starting" /\ start.pc \in {"idle", "stopped"} /\ UNCHANGED setup
  BY TInvFacts DEF StopTransport
<1>2. {"stopping", "transport", "deleted"} \subseteq StopPC
  BY DEF StopPC
<1>3. /\ \A r \in Stops : stop[r].pc \notin {"starting", "deleted"} \/ r = s
      /\ \A j \in Transport : transport[j].state \notin {"connecting", "deleting"}
      /\ i # NoTransport => i \in Transport /\ conn.state = "Disconnecting" /\ conn.stopPending
  BY <1>1, SetsTyped DEF Inductive, StopsApart, Bounded, Typed, ConnType
<1>4. CASE i = NoTransport
  <2>1. StopGoto(s, "stopping") /\ Becomes(Client)
    BY <1>1, <1>4 DEF StopTransport, Becomes
  <2>2. NoneBusy(stop')
    BY <1>1, <1>2, <1>3, <2>1, StopGotoFacts DEF NoneBusy
  <2>3. QED
    BY <1>1, <2>1, <2>2, NoneBusyApart, BecomesSound DEF Inductive
<1>5. CASE i # NoTransport /\ transport[i].kind = "LongPolling"
  <2> DEFINE d == AbortPoll(Client, i)
  <2>1. StopGoto(s, "transport") /\ Becomes(d)
    BY <1>5 DEF StopTransport
  <2>2. /\ d.conn = conn /\ d.start = start /\ d.transport[i].state = "deleting"
        /\ \A j \in Transport \ {i} : d.transport[j] = transport[j]
        /\ \A j \in Transport : d.transport[j].token = transport[j].token
    BY <1>1, <1>3, <1>5 DEF AbortPoll, Typed, TransportType
  <2> HIDE DEF d
  <2>3. Sound(d)
    <3>1. \A j \in Transport : Active(d, j) => j = i
      BY <1>1, <2>2 DEF Inductive, Sound, Active
    <3>2. QED
      BY <1>1, <1>3, <1>5, <2>2, <3>1 DEF Inductive, Sound, Starting
  <2>4. Tokens(d)
    BY <1>1, <2>2 DEF Inductive, Tokens, TokensOwn, Opening
  <2>5. NoneBusy(stop')
    BY <1>1, <1>2, <1>3, <2>1, StopGotoFacts DEF NoneBusy
  <2>6. QED
    BY <1>1, <2>1, <2>3, <2>4, <2>5, NoneBusyApart, BecomesSound
<1>6. CASE i # NoTransport /\ transport[i].kind # "LongPolling"
  <2> DEFINE d == CloseAtOnce(Client, i)
  <2>1. StopGoto(s, "deleted") /\ Becomes(d)
    BY <1>6 DEF StopTransport
  <2>2. Sound(d) /\ Tokens(d) /\ Still(d) /\ d.start.pc \in {"idle", "stopped", "negotiating"}
    <3>1. CASE transport[i].state = "open"
      <4>1. Left(RaiseOnClose(Client, i))
        BY <1>1, <1>3, <1>6, <3>1, RaiseOnCloseSound DEF Inductive, Tokens
      <4>2. QED
        BY <1>1, <3>1, <4>1 DEF CloseAtOnce, Left
    <3>2. CASE transport[i].state # "open"
      <4>1. d = Client
        BY <1>1, <3>2 DEF CloseAtOnce
      <4>2. Still(Client)
        BY <1>1, <1>3, <3>2 DEF Inductive, Sound, Still, Active
      <4>3. QED
        BY <1>1, <4>1, <4>2 DEF Inductive
    <3>3. QED
      BY <3>1, <3>2
  <2> HIDE DEF d
  <2>3. StopsApart(d, stop')
    <3>1. stop'[s].pc = "deleted" /\ \A r \in Stops \ {s} : stop'[r] = stop[r]
      BY <1>1, <1>2, <2>1, StopGotoFacts
    <3>2. QED
      BY <1>3, <2>2, <3>1 DEF StopsApart, Still, Active
  <2>4. QED
    BY <1>1, <2>1, <2>2, <2>3, BecomesSound
<1>7. QED
  BY <1>4, <1>5, <1>6

LEMMA TransportStoppedSound ==
  ASSUME TInv, Inductive, NEW s \in Stops, TransportStopped(s)
  PROVE  Inductive'
<1> DEFINE d == [Client EXCEPT !.conn.transport = NoTransport]
<1>1. /\ setup \in Setups /\ Typed(Client) /\ StopTyped
      /\ Client.conn = conn /\ Client.start = start /\ Client.transport = transport
      /\ stop[s].pc = "deleted" /\ StopGoto(s, "stopping") /\ UNCHANGED setup
  BY TInvFacts DEF TransportStopped
<1>2. /\ start.pc \in {"idle", "stopped", "negotiating"} /\ Still(Client)
      /\ \A r \in Stops : stop[r].pc # "starting"
  BY <1>1 DEF Inductive, StopsApart
<1>3. Clear(Client)
  BY <1>1, <1>2, StillClear DEF Inductive
<1>4. /\ d.start = start /\ d.transport = transport /\ d.conn.transport = NoTransport
      /\ d.conn.state = conn.state /\ d.conn.queue = NoTransport
      /\ d.conn.negotiations = conn.negotiations /\ Becomes(d)
  BY <1>1, <1>3 DEF Clear, Typed, ConnType, TransportStopped, Becomes
<1> HIDE DEF d
<1>5. Still(d)
  BY <1>1, <1>2, <1>4 DEF Still, Active
<1>6. Sound(d)
  <2>1. conn.state # "Connected"
    BY <1>1, <1>2, SetsTyped DEF Inductive, Sound, UsesOpen, Still, Active, Typed, ConnType
  <2>2. QED
    BY <1>1, <1>2, <1>4, <1>5, <2>1 DEF Inductive, Sound, Starting, Still, Active
<1>7. Tokens(d)
  BY <1>1, <1>4 DEF Inductive, Tokens, TokensOwn, Opening
<1>8. StopsApart(d, stop')
  <2>1. stop'[s].pc = "stopping" /\ \A r \in Stops \ {s} : stop'[r] = stop[r]
    BY <1>1, StopGotoFacts DEF StopPC
  <2>2. \A i \in Transport : d.transport[i].state # "deleting"
    BY <1>5 DEF Still, Active
  <2>3. QED
    BY <1>2, <1>4, <1>5, <2>1, <2>2 DEF StopsApart
<1>9. QED
  BY <1>1, <1>4, <1>6, <1>7, <1>8, BecomesSound

LEMMA StopReturnsSound ==
  ASSUME TInv, Inductive, NEW s \in Stops, StopReturns(s)
  PROVE  Inductive'
<1>1. StopTyped /\ Becomes(Client) /\ UNCHANGED setup
      /\ stop' = [stop EXCEPT ![s] = [pc |-> "done", awaits |-> 0, transport |-> NoTransport]]
  BY TInvFacts DEF StopReturns, Becomes
<1>2. stop'[s].pc = "done" /\ \A r \in Stops \ {s} : stop'[r] = stop[r]
  BY <1>1 DEF StopTyped
<1>3. StopsApart(Client, stop')
  BY <1>2 DEF Inductive, StopsApart
<1>4. QED
  BY <1>1, <1>3, BecomesSound DEF Inductive

LEMMA StartSound ==
  ASSUME TInv, Inductive, Start
  PROVE  Inductive'
<1> DEFINE d == StartCall(Client)
<1>1. /\ setup \in Setups /\ Typed(Client) /\ Client.conn = conn
      /\ conn.state = "Disconnected" /\ MayStart(Client) /\ Becomes(d)
      /\ NoneBusy(stop) /\ UNCHANGED <<stop, setup>>
  BY TInvFacts, IdleFacts DEF Start
<1>2. Still(Client) /\ TokensOwn(Client)
  BY <1>1 DEF Inductive, Sound, Still, Tokens
<1>3. Sound(d) /\ Tokens(d)
  BY <1>1, <1>2, StillClear, StartCallSound DEF Inductive
<1> HIDE DEF d
<1>4. NoneBusy(stop')
  BY <1>1 DEF NoneBusy
<1>5. QED
  BY <1>1, <1>3, <1>4, NoneBusyApart, BecomesSound

LEMMA SendSound ==
  ASSUME TInv, Inductive, Send
  PROVE  Inductive'
<1> DEFINE d == [Client EXCEPT !.conn.queue = conn.transport]
<1>1. /\ Typed(Client) /\ Client.conn = conn /\ Client.start = start
      /\ Client.transport = transport /\ conn.state = "Connected" /\ UNCHANGED <<stop, setup>>
  BY TInvFacts DEF Send
<1>2. /\ d.start = start /\ d.transport = transport /\ d.conn.queue = conn.transport
      /\ d.conn.transport = conn.transport /\ d.conn.state = conn.state
      /\ d.conn.negotiations = conn.negotiations /\ d.conn.stopPending = conn.stopPending
      /\ Becomes(d)
  BY <1>1 DEF Typed, ConnType, Send, Becomes
<1> HIDE DEF d
<1>3. Sound(d)
  BY <1>1, <1>2 DEF Inductive, Sound, Starting, Still, Active, UsesOpen
<1>4. Tokens(d)
  BY <1>1, <1>2 DEF Inductive, Tokens, TokensOwn, Opening
<1>5. StopsApart(d, stop')
  BY <1>1, <1>2 DEF Inductive, StopsApart, Still, Active
<1>6. QED
  BY <1>1, <1>2, <1>3, <1>4, <1>5, BecomesSound

LEMMA StopSound ==
  ASSUME TInv, Inductive, NEW s \in Stops, Stop(s)
  PROVE  Inductive'
<1>1. /\ Typed(Client) /\ StopTyped /\ Client.conn = conn /\ Client.start = start
      /\ Client.transport = transport /\ Idle /\ conn.state # "Disconnected"
      /\ UNCHANGED <<start, transport, setup>>
  BY TInvFacts DEF Stop
<1>2. CASE conn.state = "Disconnecting"
  <2>1. Becomes(Client) /\ stop'[s].pc = "stopping" /\ \A r \in Stops \ {s} : stop'[r] = stop[r]
    BY <1>1, <1>2 DEF Stop, StopTyped, Becomes
  <2>2. StopsApart(Client, stop')
    BY <2>1 DEF Inductive, StopsApart
  <2>3. QED
    BY <1>1, <2>1, <2>2, BecomesSound DEF Inductive
<1>3. CASE conn.state # "Disconnecting"
  <2> DEFINE d == [Client EXCEPT !.conn.state = "Disconnecting", !.conn.stopPending = TRUE]
  <2>1. /\ d.start = start /\ d.transport = transport
        /\ d.conn.state = "Disconnecting" /\ d.conn.stopPending
        /\ d.conn.transport = conn.transport /\ d.conn.queue = conn.queue
        /\ d.conn.negotiations = conn.negotiations
        /\ d.conn = [conn EXCEPT !.state = "Disconnecting", !.stopPending = TRUE]
    BY <1>1 DEF Typed, ConnType
  <2> HIDE DEF d
  <2>a. Becomes(d)
    BY <1>1, <1>3, <2>1 DEF Stop, Becomes
  <2>b. stop'[s].pc = "starting" /\ \A r \in Stops \ {s} : stop'[r] = stop[r]
    BY <1>1, <1>3 DEF Stop, StopTyped
  <2>2. \A i \in Transport : transport[i].state # "deleting"
    BY <1>1, <1>3 DEF Inductive, Sound
  <2>3. NoneBusy(stop)
    <3>1. \A r \in Stops : stop[r].pc # "starting"
      BY <1>1, <1>3, IdleFacts DEF Inductive, StopsApart, NoneBusy
    <3>2. QED
      BY <1>1, <3>1, IdleFacts DEF NoneBusy
  <2>4. Sound(d)
    BY <1>1, <2>1, <2>2 DEF Inductive, Sound, Starting, Still, Active, UsesOpen
  <2>5. Tokens(d)
    BY <1>1, <2>1 DEF Inductive, Tokens, TokensOwn, Opening
  <2>6. StopsApart(d, stop')
    BY <2>1, <2>b, <2>2, <2>3 DEF StopsApart, NoneBusy
  <2>7. QED
    BY <1>1, <2>a, <2>4, <2>5, <2>6, BecomesSound
<1>4. QED
  BY <1>2, <1>3

\* What start() was told: a negotiation that opened nothing yet.
LEMMA NegotiatedFacts ==
  ASSUME TInv, Inductive, start.pc \in {"negotiating", "renegotiating"},
         NEW d, Typed(d), d.transport = transport, d.conn.state = conn.state,
         d.conn.queue = conn.queue, d.conn.negotiations = conn.negotiations + 1
  PROVE  Clear(d) /\ TokensOwn(d) /\ Fresh(d)
<1>1. /\ setup \in Setups /\ Typed(Client) /\ Bounded(Client) /\ Client.conn = conn
      /\ Client.start = start /\ Client.transport = transport
  BY TInvFacts
<1>2. Clear(Client) /\ ~setup.skipNegotiation
  BY <1>1, StillClear DEF Inductive, Sound, Bounded
<1>3. conn.negotiations \in Nat /\ \A i \in Transport : transport[i].token \in Nat
  BY <1>1 DEF Typed, ConnType, TransportType
<1>4. Clear(d)
  BY <1>1, <1>2 DEF Clear, Still, Active
<1>5. \A i \in Transport : d.transport[i].token < d.conn.negotiations
                          /\ d.transport[i].token <= d.conn.negotiations
  BY <1>1, <1>3 DEF Inductive, Tokens, TokensOwn
<1>6. QED
  BY <1>1, <1>2, <1>4, <1>5 DEF Inductive, Tokens, TokensOwn, Fresh

\* A start that fails leaves the calls of stop() apart.
LEMMA FailingSound ==
  ASSUME TInv, Inductive, Idle, NEW c, Clear(c), TokensOwn(c), Becomes(StartFails(c)),
         UNCHANGED <<stop, setup>>
  PROVE  Inductive'
<1> DEFINE d == StartFails(c)
<1>1. Sound(d) /\ Tokens(d) /\ Still(d) /\ d.start.pc = "idle" /\ d.conn.transport = NoTransport
  BY StartFailsSound
<1> HIDE DEF d
<1>2. StopsApart(d, stop')
  BY <1>1, IdleFacts DEF Inductive, StopsApart, Still, Active
<1>3. QED
  BY <1>1, <1>2, BecomesSound DEF d

LEMMA NegotiatedSound ==
  ASSUME TInv, Inductive, NEW redirect \in BOOLEAN, Negotiated(redirect)
  PROVE  Inductive'
<1> DEFINE heard == [Client EXCEPT !.conn.negotiations = conn.negotiations + 1,
                                   !.start.redirects = start.redirects + 1]
           chosen == [heard EXCEPT !.start.negotiated = TRUE]
<1>1. /\ setup \in Setups /\ Typed(Client) /\ Bounded(Client)
      /\ Client.conn = conn /\ Client.start = start /\ Client.transport = transport
      /\ start.pc = "negotiating" /\ Idle /\ UNCHANGED <<stop, setup>>
      /\ conn.negotiations + 1 \in Nat
  BY TInvFacts DEF Negotiated
<1>2. start.redirects + 1 \in RedirectCount /\ ~setup.skipNegotiation /\ Room(Client)
  BY <1>1, SetsTyped DEF Bounded, Opening, Typed, StartType
<1>3. /\ Typed(heard) /\ heard.transport = transport /\ heard.start.pc = "negotiating"
      /\ heard.start.next = start.next /\ heard.start.negotiated = start.negotiated
      /\ heard.conn.negotiations = conn.negotiations + 1
      /\ heard.conn.state = conn.state /\ heard.conn.queue = conn.queue
      /\ heard.conn.transports = conn.transports /\ heard.conn.transport = conn.transport
      /\ heard.conn.stopPending = conn.stopPending
  BY <1>1, <1>2 DEF Typed, ConnType, StartType
<1>4. \/ Becomes(StartFails(heard))
      \/ /\ conn.state \notin {"Disconnecting", "Disconnected"}
         /\ Becomes(TryNext(chosen)) \/ Becomes(heard)
  BY DEF Negotiated, heard, chosen
<1> HIDE DEF heard
<1>5. Clear(heard) /\ TokensOwn(heard)
  BY <1>1, <1>3, NegotiatedFacts
<1>6. /\ Typed(chosen) /\ chosen.transport = transport /\ chosen.conn = heard.conn
      /\ chosen.start.next = start.next
  BY <1>3 DEF Typed, StartType
<1> HIDE DEF chosen
<1>7. Clear(chosen) /\ TokensOwn(chosen) /\ Fresh(chosen)
  BY <1>1, <1>3, <1>6, NegotiatedFacts
<1>8. CASE Becomes(StartFails(heard))
  BY <1>1, <1>5, <1>8, FailingSound
<1>9. CASE conn.state # "Disconnecting"
  <2>1. conn.state = "Connecting"
    BY <1>1, <1>9 DEF Inductive, Sound, Starting
  <2>2. NoneBusy(stop')
    BY <1>1, <2>1, ConnectingFacts DEF NoneBusy
  <2>3. CASE Becomes(TryNext(chosen))
    <3>1. Room(chosen)
      BY <1>1, <1>2, <1>3, <1>6 DEF Room
    <3>2. Sound(TryNext(chosen)) /\ Tokens(TryNext(chosen))
      BY <1>1, <1>2, <1>3, <1>6, <1>7, <2>1, <3>1, TryNextSound
    <3>3. QED
      BY <1>1, <2>2, <2>3, <3>2, NoneBusyApart, BecomesSound
  <2>4. CASE Becomes(heard)
    <3>1. Sound(heard)
      BY <1>1, <1>3, <1>5, <2>1 DEF Clear, Sound, Starting, Still, Active
    <3>2. Tokens(heard)
      BY <1>1, <1>3, <1>5 DEF Inductive, Tokens, Opening
    <3>3. QED
      BY <1>1, <2>2, <2>4, <3>1, <3>2, NoneBusyApart, BecomesSound
  <2>5. QED
    BY <1>4, <1>8, <1>9, <2>3, <2>4
<1>10. QED
  BY <1>4, <1>8, <1>9

LEMMA RenegotiatedSound ==
  ASSUME TInv, Inductive, Renegotiated
  PROVE  Inductive'
<1> DEFINE known == [Client EXCEPT !.conn.negotiations = conn.negotiations + 1,
                                   !.start.negotiated = TRUE]
           d == TryNext(known)
           heard == [Client EXCEPT !.conn.negotiations = conn.negotiations + 1]
           tried == [heard EXCEPT !.start.next = start.next + 1]
           gone == Goto(tried, "refused")
<1>1. /\ setup \in Setups /\ Typed(Client) /\ Bounded(Client)
      /\ Client.conn = conn /\ Client.start = start /\ Client.transport = transport
      /\ start.pc = "renegotiating" /\ Idle /\ UNCHANGED <<stop, setup>>
      /\ conn.negotiations + 1 \in Nat
  BY TInvFacts DEF Renegotiated
<1>2. /\ ~setup.skipNegotiation /\ Room(Client) /\ ~start.negotiated
      /\ conn.state \in {"Connecting", "Disconnecting"}
  BY <1>1 DEF Bounded, Opening, Inductive, Sound, Starting, Tokens
<1>a. Becomes(d) \/ Becomes(gone)
  BY DEF Renegotiated
<1>3. /\ Typed(known) /\ known.transport = transport /\ known.start.next = start.next
      /\ known.conn.negotiations = conn.negotiations + 1
      /\ known.conn.state = conn.state /\ known.conn.queue = conn.queue
      /\ known.conn.transports = conn.transports
      /\ known.conn.stopPending = conn.stopPending
  BY <1>1 DEF Typed, ConnType, StartType
<1> HIDE DEF known
<1>4. Clear(known) /\ TokensOwn(known) /\ Fresh(known)
  BY <1>1, <1>3, NegotiatedFacts
<1>5. Room(known)
  BY <1>1, <1>2, <1>3 DEF Room
<1>6. /\ Sound(d) /\ Tokens(d) /\ \A i \in Transport : d.transport[i].state # "deleting"
      /\ \/ d.start.pc = "idle" /\ d.conn.transport = NoTransport
         \/ d.conn.state = conn.state /\ d.conn.stopPending = conn.stopPending
  BY <1>1, <1>2, <1>3, <1>4, <1>5, TryNextSound
<1> HIDE DEF d
<1>7. CASE Becomes(d)
  <2>1. StopsApart(d, stop')
    BY <1>1, <1>6, IdleFacts DEF Inductive, StopsApart
  <2>2. QED
    BY <1>1, <1>6, <1>7, <2>1, BecomesSound
<1>8. CASE Becomes(gone)
  <2>1. /\ gone.start.pc = "refused" /\ ~gone.start.negotiated /\ gone.transport = transport
        /\ gone.conn.state = conn.state /\ gone.conn.stopPending = conn.stopPending
        /\ gone.conn.queue = conn.queue /\ gone.conn.negotiations = conn.negotiations + 1
    <3>1. /\ Typed(heard) /\ heard.start = start /\ heard.transport = transport
          /\ heard.conn.state = conn.state /\ heard.conn.stopPending = conn.stopPending
          /\ heard.conn.queue = conn.queue
          /\ heard.conn.negotiations = conn.negotiations + 1
      BY <1>1 DEF Typed, ConnType
    <3> HIDE DEF heard
    <3>2. /\ tried.conn = heard.conn /\ tried.transport = transport
          /\ ~tried.start.negotiated /\ tried.start = [start EXCEPT !.next = start.next + 1]
      BY <1>1, <1>2, <3>1 DEF Typed, StartType
    <3> HIDE DEF tried
    <3>3. gone.start = [tried.start EXCEPT !.pc = "refused"] /\ gone.conn = tried.conn
          /\ gone.transport = tried.transport
      BY <3>1 DEF Goto, tried
    <3>4. QED
      BY <1>1, <3>1, <3>2, <3>3 DEF Typed, StartType
  <2> HIDE DEF gone
  <2>2. Clear(known) /\ TokensOwn(known) /\ known.transport = gone.transport
        /\ known.conn.negotiations = gone.conn.negotiations
        /\ conn.queue = NoTransport
    BY <1>3, <1>4, <2>1 DEF Clear
  <2>3. Sound(gone) /\ Tokens(gone)
    BY <1>2, <2>1, <2>2 DEF Clear, Sound, Starting, Still, Active, Tokens, TokensOwn
  <2>4. \A i \in Transport : gone.transport[i].state # "deleting"
    BY <2>2 DEF Clear, Still, Active
  <2>5. StopsApart(gone, stop')
    BY <1>1, <2>1, <2>4, IdleFacts DEF Inductive, StopsApart
  <2>6. QED
    BY <1>1, <1>8, <2>3, <2>5, BecomesSound
<1>9. QED
  BY <1>a, <1>7, <1>8

LEMMA NegotiationFailsSound ==
  ASSUME TInv, Inductive, NegotiationFails
  PROVE  Inductive'
<1>1. /\ setup \in Setups /\ Typed(Client) /\ Client.start = start
      /\ start.pc \in {"negotiating", "renegotiating"} /\ Idle
      /\ Becomes(StartFails(Client)) /\ UNCHANGED <<stop, setup>>
  BY TInvFacts DEF NegotiationFails
<1>2. Clear(Client) /\ TokensOwn(Client)
  BY <1>1, StillClear DEF Inductive, Sound, Tokens
<1>3. QED
  BY <1>1, <1>2, FailingSound

\* The transport that start() waits for opens, or does not.
LEMMA SettledSound ==
  ASSUME TInv, Inductive, NEW i \in Transport, transport[i].state = "connecting",
         NEW state, NEW pc, <<state, pc>> \in {<<"open", "connected">>, <<"failed", "refused">>},
         Becomes(Goto([Client EXCEPT !.transport[i].state = state], pc)),
         UNCHANGED <<stop, setup>>
  PROVE  Inductive'
<1> DEFINE at == [Client EXCEPT !.transport[i].state = state]
           d == Goto(at, pc)
<1>1. /\ setup \in Setups /\ Typed(Client) /\ Bounded(Client)
      /\ Client.conn = conn /\ Client.start = start /\ Client.transport = transport
      /\ state \in {"open", "failed"} /\ Becomes(d)
      /\ state = "open" => pc = "connected"
      /\ state = "failed" => pc = "refused"
  BY TInvFacts
<1>2. /\ start.pc = "connecting" /\ i = conn.transport /\ conn.transport # NoTransport
      /\ conn.state \in {"Connecting", "Disconnecting"}
      /\ \A j \in Transport \ {i} : transport[j].state \notin {"connecting", "open", "deleting"}
  BY <1>1 DEF Bounded, Inductive, Sound, Active, Starting
<1>3. conn.queue = NoTransport
  BY <1>1, <1>2 DEF Inductive, Sound
<1>4. ~start.negotiated
  BY <1>1, <1>2 DEF Inductive, Tokens, Opening
<1>5. /\ Typed(at) /\ at.conn = conn /\ at.start = start /\ at.transport[i].state = state
      /\ \A j \in Transport \ {i} : at.transport[j] = transport[j]
      /\ \A j \in Transport : at.transport[j].token = transport[j].token
  <2>1. state \in TransportState \ {"connecting"}
    BY <1>1 DEF TransportState
  <2>2. QED
    BY <1>1, <2>1, TransportSet
<1> HIDE DEF at
<1>6. /\ d.conn = conn /\ d.transport = at.transport /\ d.start.pc = pc
      /\ ~d.start.negotiated
  BY <1>4, <1>5 DEF Goto, Typed, StartType
<1> HIDE DEF d
<1>7. \A j \in Transport \ {i} : ~Active(d, j)
  BY <1>2, <1>5, <1>6 DEF Active
<1>8. CASE state = "open"
  <2>1. pc = "connected" /\ UsesOpen(d)
    BY <1>1, <1>2, <1>5, <1>6, <1>8 DEF UsesOpen
  <2>2. QED
    <3>1. Sound(d)
      BY <1>2, <1>3, <1>5, <1>6, <1>7, <1>8, <2>1 DEF Sound, Starting, Active
    <3>2. Tokens(d)
      BY <1>1, <1>5, <1>6 DEF Inductive, Tokens, TokensOwn
    <3>3. StopsApart(d, stop')
      BY <1>1, <1>2, <1>5, <1>6, <1>8, <2>1 DEF Inductive, StopsApart
    <3>4. QED
      BY <1>1, <3>1, <3>2, <3>3, BecomesSound
<1>9. CASE state = "failed"
  <2>1. pc = "refused" /\ Still(d)
    BY <1>1, <1>5, <1>6, <1>7, <1>9 DEF Still, Active
  <2>2. QED
    <3>1. Sound(d)
      BY <1>2, <1>3, <1>6, <2>1 DEF Sound, Starting, Still, Active
    <3>2. Tokens(d)
      BY <1>1, <1>5, <1>6 DEF Inductive, Tokens, TokensOwn
    <3>3. StopsApart(d, stop')
      BY <1>1, <1>2, <1>5, <1>6, <1>9, <2>1 DEF Inductive, StopsApart
    <3>4. QED
      BY <1>1, <3>1, <3>2, <3>3, BecomesSound
<1>10. QED
  BY <1>1, <1>8, <1>9

LEMMA ClosesSound ==
  ASSUME OrdinarySetup(setup), TInv, Inductive, NEW i \in Transport, transport[i].state = "open",
         Closes(i)
  PROVE  Inductive'
<1> DEFINE d == RaiseOnClose(Client, i)
<1>1. /\ setup \in Setups /\ Typed(Client) /\ Bounded(Client)
      /\ Client.conn = conn /\ Client.start = start /\ Client.transport = transport
      /\ Idle /\ Becomes(d) /\ UNCHANGED <<stop, setup>>
  BY TInvFacts DEF Closes
<1>2. start.pc \notin {"connected", "refused"}
  BY <1>1, IdleFacts
<1>3. start.pc \in {"idle", "stopped"} /\ conn.state # "Connecting"
  <2>1. i = conn.transport /\ ~Still(Client)
    BY <1>1 DEF Inductive, Sound, Still, Active
  <2>2. start.pc \in {"idle", "stopped"}
    BY <1>1, <1>2, <2>1 DEF Inductive, Sound, Typed, StartType, StartPC
  <2>3. QED
    BY <1>1, <2>2 DEF Inductive, Sound, Starting
<1>4. Left(d)
  BY <1>1, <1>2, <1>3, RaiseOnCloseSound DEF Inductive, Tokens
<1>5. NoneBusy(stop')
  BY <1>1, <1>3, IdleFacts DEF NoneBusy
<1> HIDE DEF d
<1>6. QED
  BY <1>1, <1>4, <1>5, NoneBusyApart, BecomesSound DEF Left

LEMMA DeletedSound ==
  ASSUME OrdinarySetup(setup), TInv, Inductive, NEW i \in Transport, NEW ok \in BOOLEAN, Deleted(i, ok)
  PROVE  Inductive'
<1> DEFINE raised == RaiseOnClose(Client, i)
           d == IF ~ok \/ StopConnectionThrows(Client) THEN StopConnection(raised) ELSE raised
<1>1. /\ setup \in Setups /\ Typed(Client) /\ Bounded(Client) /\ StopTyped
      /\ Client.conn = conn /\ Client.start = start /\ Client.transport = transport
      /\ Idle /\ transport[i].state = "deleting" /\ Becomes(d) /\ UNCHANGED setup
  BY TInvFacts DEF Deleted
<1>2. conn.state = "Disconnecting" /\ ~Starting(Client)
  BY <1>1 DEF Inductive, Sound
<1>3. Left(raised)
  BY <1>1, <1>2, RaiseOnCloseSound DEF Inductive, Tokens, Starting
<1>4. Typed(raised)
  BY <1>1, RaiseOnCloseTyped
<1> HIDE DEF raised
<1>5. Left(d)
  BY <1>1, <1>3, <1>4, StopConnectionAgain
<1>6. \A s \in Stops : stop'[s].pc # "starting"
  <2>1. \A s \in Stops : stop[s].pc # "starting"
    BY <1>1 DEF Inductive, StopsApart
  <2>2. PICK throws \in BOOLEAN, waits \in SUBSET Stops :
          stop' = [s \in Stops |-> IF s \notin waits THEN stop[s]
                                  ELSE [stop[s] EXCEPT !.pc = IF throws THEN "threw" ELSE "deleted"]]
    BY DEF Deleted, StopConnectionThrows
  <2>3. QED
    BY <1>1, <2>1, <2>2 DEF StopTyped
<1> HIDE DEF d
<1>7. StopsApart(d, stop')
  BY <1>5, <1>6 DEF Left, StopsApart, Still, Active
<1>8. QED
  BY <1>1, <1>5, <1>7, BecomesSound DEF Left

\* A late event source that opens is not one of the transports yet.
LEMMA LateSteps ==
  ASSUME LateTyped, Undisturbed', NEW i \in Transport, LateOpens(i) \/ LateCloses(i)
  PROVE  UNCHANGED <<conn, start, transport, stop, setup>>
<1>1. ~LateCloses(i)
  BY DEF LateTyped, LateCloses, Undisturbed
<1>2. QED
  BY <1>1 DEF LateOpens

LEMMA StepInductive ==
  ASSUME OrdinarySetup(setup), IInv, LateTyped, [Next]_vars, Undisturbed'
  PROVE  Inductive'
<1>1. TInv /\ Inductive /\ setup \in Setups
  BY DEF IInv, TInv
<1>2. ASSUME NEW i \in Transport, Settles(i)
      PROVE  Inductive'
  <2>1. CASE OpenFails(i)
    BY <1>1, <2>1, SettledSound DEF OpenFails
  <2>2. CASE SocketOpens(i) \/ EventSourceOpens(i)
    <3>1. /\ transport[i].state = "connecting" /\ Becomes(Opened(i))
          /\ UNCHANGED <<stop, setup>>
      BY <2>2 DEF SocketOpens, EventSourceOpens, Is
    <3>2. QED
      BY <1>1, <3>1, SettledSound DEF Opened
  <2>3. ASSUME NEW status \in setup.firstPolls, FirstPoll(i, status)
        PROVE  Inductive'
    <3>1. status = 200
      BY <1>1, <2>3 DEF OrdinarySetup
    <3>2. /\ transport[i].state = "connecting" /\ Becomes(Opened(i))
          /\ UNCHANGED <<stop, setup>>
      BY <2>3, <3>1 DEF FirstPoll, Is
    <3>3. QED
      BY <1>1, <3>2, SettledSound DEF Opened
  <2>4. ASSUME NEW ok \in BOOLEAN, Deleted(i, ok)
        PROVE  Inductive'
    BY <1>1, <2>4, DeletedSound
  <2>5. QED
    BY <1>2, <2>1, <2>2, <2>3, <2>4 DEF Settles
<1>3. ASSUME NEW i \in Transport, SocketCloses(i) \/ EventSourceCloses(i) \/ PollsEnd(i)
      PROVE  Inductive'
  BY <1>1, <1>3, ClosesSound DEF SocketCloses, EventSourceCloses, PollsEnd, Is
<1>4. CASE GoesOn
  BY <1>1, <1>4, ConnectedSound, RefusedSound, StartStoppedSound, StopTransportSound,
     TransportStoppedSound, StopReturnsSound DEF GoesOn
<1>5. CASE Answers
  BY <1>1, <1>5, RenegotiatedSound, NegotiationFailsSound, NegotiatedSound DEF Answers
<1>6. CASE UNCHANGED <<conn, start, transport, stop, setup>>
  <2>1. Becomes(Client) /\ UNCHANGED setup /\ stop' = stop
    BY <1>6 DEF Becomes, Client
  <2>2. QED
    BY <1>1, <2>1, BecomesSound DEF Inductive
<1>7. CASE UNCHANGED vars
  BY <1>6, <1>7 DEF vars
<1>8. QED
  BY <1>1, <1>2, <1>3, <1>4, <1>5, <1>6, <1>7, StartSound, SendSound, StopSound, LateSteps DEF Next

\* What holds at any time, and until a late event source ends.
IInvUntil == TInv /\ LateTyped /\ (Undisturbed => Inductive)

LEMMA SpecIInv ==
  ASSUME OrdinarySetups
  PROVE  Spec => []IInvUntil
<1>1. Init => IInvUntil
  BY InitIInv DEF IInvUntil, IInv, Init, LateTyped, LateState
<1>2. ASSUME IInvUntil, [Next]_vars
      PROVE  IInvUntil'
  <2>1. TInv' /\ LateTyped' /\ (Undisturbed' => Undisturbed)
    BY <1>2, StepTInv, StepLate DEF IInvUntil
  <2>2. OrdinarySetup(setup)
    BY <1>2 DEF IInvUntil, TInv, OrdinarySetups
  <2>3. Undisturbed' => Inductive'
    BY <1>2, <2>1, <2>2, StepInductive DEF IInvUntil, IInv
  <2>4. QED
    BY <2>1, <2>3 DEF IInvUntil
<1>3. QED
  BY <1>1, <1>2, PTL DEF Spec

\* No socket and no poll is left running: what is open is what stop() would stop, also
\* after a fallback or a restart, until an event source that start() had given up opens
\* late and ends.
THEOREM NothingForgotten ==
  ASSUME OrdinarySetups
  PROVE  Spec => []NoTransportForgotten
<1>1. IInvUntil => NoTransportForgotten
  BY DEF IInvUntil, Inductive, Sound, Active, Client, NoTransportForgotten
<1>2. QED
  BY <1>1, SpecIInv, PTL

\* While connected there is an open transport, opened by a negotiation of its own, and
\* data goes to no other, until an event source that start() had given up opens late and
\* ends.
THEOREM ConnectedHasTransport ==
  ASSUME OrdinarySetups
  PROVE  Spec => []TransportWhenConnected
<1>1. ASSUME IInvUntil, Undisturbed
      PROVE  TransportWhenConnected
  <2>1. /\ Client.conn = conn /\ Client.start = start /\ Client.transport = transport
        /\ Sound(Client) /\ TokensOwn(Client) /\ Typed(Client) /\ setup \in Setups
    BY <1>1, TInvFacts DEF IInvUntil, Inductive, Tokens
  <2>2. conn.state = "Connected" =>
          conn.transport # NoTransport /\ transport[conn.transport].state = "open"
    BY <2>1 DEF Sound, UsesOpen
  <2>3. ASSUME NEW i \in TransportOrNone, i # NoTransport
        PROVE  TokenIsItsOwn(i)
    <3>1. i \in Transport
      BY <2>1, <2>3, SetsTyped
    <3>2. QED
      BY <2>1, <3>1 DEF TokensOwn, TokenIsItsOwn
  <2>4. conn.transport \in TransportOrNone /\ conn.queue \in TransportOrNone
    BY <2>1 DEF Typed, ConnType
  <2>5. conn.queue # NoTransport => conn.state # "Disconnected" /\ conn.queue = conn.transport
    <3>1. conn.queue # NoTransport => conn.queue \in Transport /\ Active(Client, conn.queue)
      BY <2>1, <2>4, SetsTyped DEF Sound, Active
    <3>2. QED
      BY <2>1, <3>1 DEF Sound
  <2>6. QED
    BY <2>2, <2>3, <2>4, <2>5 DEF TransportWhenConnected
<1>2. IInvUntil => TransportWhenConnected
  BY <1>1 DEF TransportWhenConnected
<1>3. QED
  BY <1>2, SpecIInv, PTL

-----------------------------------------------------------------------------
(* Connection is implemented.                                              *)

\* The variables of Connection, of a state of the client.
Phase(c) == IF c.start.pc # "idle" THEN "opening" ELSE IF c.conn.started THEN "up" ELSE "off"
Stopping(c) == c.conn.state = "Disconnecting" \/ c.start.pc = "stopped"

\* _stopPromise is pending exactly while disconnecting, and there is something to
\* disconnect.
Lives(c) ==
  /\ c.conn.stopPending <=> c.conn.state = "Disconnecting"
  /\ c.conn.state = "Connected" => c.conn.started
  /\ c.conn.state = "Disconnecting" => c.conn.started \/ c.start.pc # "idle"

\* A step from c to d, seen as one of Connection.
Calls(c, d, closes, ends) == d.conn.closes = c.conn.closes + closes /\ d.conn.ends = c.conn.ends + ends
Keeps(c, d) == Phase(d) = Phase(c) /\ (Stopping(d) <=> Stopping(c)) /\ Calls(c, d, 0, 0)
Begins(c, d) == /\ Phase(c) = "off" /\ Phase(d) = "opening"
                /\ (Stopping(d) <=> Stopping(c)) /\ Calls(c, d, 0, 0)
Opens(c, d) == /\ Phase(c) = "opening" /\ Phase(d) = "up"
               /\ ~Stopping(c) /\ ~Stopping(d) /\ Calls(c, d, 0, 0)
Fails(c, d) == Phase(c) = "opening" /\ Phase(d) = "off" /\ ~Stopping(d) /\ Calls(c, d, 0, 1)
Ends(c, d) == /\ Phase(c) = "up" /\ Phase(d) \in {"off", "opening"}
              /\ ~Stopping(d) /\ Calls(c, d, 1, 1)
Moves(c, d) == Keeps(c, d) \/ Begins(c, d) \/ Opens(c, d) \/ Fails(c, d) \/ Ends(c, d)

LEMMA StartFailsMoves ==
  ASSUME NEW c, Typed(c), c.start.pc # "idle", ~c.conn.started
  PROVE  Fails(c, StartFails(c)) /\ Lives(StartFails(c))
<1> DEFINE d == StartFails(c)
<1>1. /\ d.start.pc = "idle" /\ d.conn.state = "Disconnected" /\ d.conn.stopPending = FALSE
      /\ d.conn.started = c.conn.started
      /\ d.conn.closes = c.conn.closes /\ d.conn.ends = c.conn.ends + 1
      /\ c.conn.closes \in Nat
  BY DEF Typed, StartFails, Goto, StartType, ConnType
<1> HIDE DEF d
<1>2. QED
  BY <1>1 DEF Fails, Lives, Phase, Stopping, Calls, d

\* What opens a transport or asks for a token goes on opening.
LEMMA OpeningKeeps ==
  ASSUME NEW c, NEW d, Typed(c), Starting(c), Starting(d), Lives(c),
         d.conn.state = c.conn.state, d.conn.stopPending = c.conn.stopPending,
         d.conn.started = c.conn.started, d.conn.closes = c.conn.closes,
         d.conn.ends = c.conn.ends
  PROVE  Keeps(c, d) /\ Lives(d)
<1>1. c.conn.closes \in Nat /\ c.conn.ends \in Nat
  BY DEF Typed, ConnType
<1>2. QED
  BY <1>1 DEF Starting, Lives, Keeps, Phase, Stopping, Calls

LEMMA StartTransportKeeps ==
  ASSUME NEW c, Typed(c), Starting(c), Lives(c), NEW kind
  PROVE  Keeps(c, StartTransport(c, kind)) /\ Lives(StartTransport(c, kind))
<1> DEFINE d == StartTransport(c, kind)
<1>1. /\ d.start.pc = "connecting" /\ d.conn.state = c.conn.state
      /\ d.conn.stopPending = c.conn.stopPending /\ d.conn.started = c.conn.started
      /\ d.conn.closes = c.conn.closes /\ d.conn.ends = c.conn.ends
  BY DEF Typed, StartTransport, Goto, StartType, ConnType
<1> HIDE DEF d
<1>2. Starting(d)
  BY <1>1 DEF Starting
<1>3. QED
  BY <1>1, <1>2, OpeningKeeps DEF d

LEMMA TryNextMoves ==
  ASSUME setup \in Setups, NEW c, Typed(c), Starting(c), ~c.conn.started, Lives(c)
  PROVE  (Keeps(c, TryNext(c)) \/ Fails(c, TryNext(c))) /\ Lives(TryNext(c))
<1> DEFINE n == NextUsable(c.start.next)
           at == [c EXCEPT !.start.next = n]
<1>1. c.start.next \in Candidate
  BY DEF Typed, StartType
<1>2. n \in Candidate
  BY <1>1, NextUsableTyped
<1>3. n \in Nat /\ Len(setup.offer) \in Nat
  BY <1>2, SetsTyped, SetupTyped
<1> HIDE DEF n
<1>4. Typed(at) /\ at.conn = c.conn /\ at.start.pc = c.start.pc
  BY <1>2 DEF Typed, StartType
<1>5. Starting(at) /\ Lives(at) /\ Phase(at) = Phase(c)
  BY <1>4 DEF Starting, Lives, Phase
<1>6. CASE n > Len(setup.offer)
  <2>1. TryNext(c) = StartFails(at)
    BY <1>6 DEF TryNext, n
  <2> HIDE DEF at
  <2>2. Fails(at, StartFails(at)) /\ Lives(StartFails(at))
    BY <1>4, <1>5, StartFailsMoves DEF Starting
  <2>3. QED
    BY <1>4, <1>5, <2>1, <2>2 DEF Fails, Calls
<1>7. CASE n <= Len(setup.offer) /\ c.start.negotiated
  <2> DEFINE tried == [at EXCEPT !.start.next = n + 1, !.start.negotiated = FALSE]
             kind == setup.offer[n].transport
             d == StartTransport(tried, kind)
  <2>1. TryNext(c) = d
    BY <1>3, <1>7 DEF TryNext, n
  <2>2. n + 1 \in Candidate
    BY <1>2, <1>3, <1>7, SetsTyped
  <2>3. Typed(tried) /\ tried.conn = c.conn /\ tried.start.pc = c.start.pc
    BY <1>4, <2>2 DEF Typed, StartType
  <2> HIDE DEF tried, at, kind
  <2>4. /\ d.start.pc = "connecting" /\ d.conn.state = c.conn.state
        /\ d.conn.stopPending = c.conn.stopPending /\ d.conn.started = c.conn.started
        /\ d.conn.closes = c.conn.closes /\ d.conn.ends = c.conn.ends
    BY <2>3 DEF Typed, StartTransport, Goto, StartType, ConnType
  <2> HIDE DEF d
  <2>5. Starting(d)
    BY <2>4 DEF Starting
  <2>6. QED
    BY <2>1, <2>4, <2>5, OpeningKeeps
<1>8. CASE n <= Len(setup.offer) /\ ~c.start.negotiated
  <2> DEFINE chosen == [at EXCEPT !.conn.transport = c.conn.transports]
             d == Goto(chosen, "renegotiating")
  <2>1. TryNext(c) = d
    BY <1>3, <1>8 DEF TryNext, n
  <2> HIDE DEF at
  <2>2. /\ Typed(chosen) /\ chosen.conn.state = c.conn.state
        /\ chosen.conn.stopPending = c.conn.stopPending
        /\ chosen.conn.started = c.conn.started /\ chosen.conn.closes = c.conn.closes
        /\ chosen.conn.ends = c.conn.ends
    <3>1. c.conn.transports \in TransportOrNone
      BY DEF Typed, ConnType
    <3>2. QED
      BY <1>4, <3>1 DEF Typed, ConnType
  <2> HIDE DEF chosen
  <2>3. d.conn = chosen.conn /\ d.start.pc = "renegotiating"
    BY <2>2 DEF Goto, Typed, StartType
  <2> HIDE DEF d
  <2>4. Starting(d)
    BY <2>3 DEF Starting
  <2>5. QED
    BY <2>1, <2>2, <2>3, <2>4, OpeningKeeps
<1>9. QED
  BY <1>3, <1>6, <1>7, <1>8

LEMMA StartDoneMoves ==
  ASSUME NEW c, Typed(c), c.start.pc = "connected", ~c.conn.started, Lives(c),
         c.conn.state \in {"Connecting", "Disconnecting"}
  PROVE  (Keeps(c, StartDone(c)) \/ Opens(c, StartDone(c))) /\ Lives(StartDone(c))
<1> DEFINE alive == c.conn.inherentKeepAlive
                      \/ (c.conn.transport # NoTransport
                            /\ c.transport[c.conn.transport].kind = "LongPolling")
           kept == [c EXCEPT !.conn.inherentKeepAlive = alive]
           up == [kept EXCEPT !.conn.state = "Connected", !.conn.started = TRUE]
           d == StartDone(c)
<1>1. d = IF c.conn.state = "Connecting" THEN Goto(up, "idle") ELSE Goto(kept, "stopped")
  BY DEF StartDone
<1>2. c.conn.closes \in Nat /\ c.conn.ends \in Nat /\ alive \in BOOLEAN
  BY DEF Typed, ConnType
<1> HIDE DEF alive, d
<1>a. /\ Typed(kept) /\ kept.start = c.start
      /\ kept.conn.state = c.conn.state /\ kept.conn.stopPending = c.conn.stopPending
      /\ kept.conn.started = c.conn.started
      /\ kept.conn.closes = c.conn.closes /\ kept.conn.ends = c.conn.ends
  BY <1>2 DEF Typed, ConnType
<1> HIDE DEF kept
<1>3. CASE c.conn.state = "Connecting"
  <2>1. /\ d.start.pc = "idle" /\ d.conn.state = "Connected" /\ d.conn.started = TRUE
        /\ d.conn.stopPending = c.conn.stopPending
        /\ d.conn.closes = c.conn.closes /\ d.conn.ends = c.conn.ends
    <3>1. /\ Typed(up) /\ up.conn.state = "Connected" /\ up.conn.started = TRUE
          /\ up.conn.stopPending = c.conn.stopPending
          /\ up.conn.closes = c.conn.closes /\ up.conn.ends = c.conn.ends
      BY <1>a DEF Typed, ConnType
    <3> HIDE DEF up
    <3>2. d = Goto(up, "idle")
      BY <1>1, <1>3
    <3>3. d.conn = up.conn /\ d.start.pc = "idle"
      BY <3>1, <3>2 DEF Goto, Typed, StartType
    <3>4. QED
      BY <3>1, <3>3
  <2>2. QED
    BY <1>2, <1>3, <2>1 DEF Opens, Lives, Phase, Stopping, Calls, d
<1>4. CASE c.conn.state = "Disconnecting"
  <2>1. /\ d.start.pc = "stopped" /\ d.conn.state = "Disconnecting"
        /\ d.conn.stopPending = c.conn.stopPending
        /\ d.conn.closes = c.conn.closes /\ d.conn.ends = c.conn.ends
    <3>1. d = Goto(kept, "stopped")
      BY <1>1, <1>4
    <3>2. d.conn = kept.conn /\ d.start.pc = "stopped"
      BY <1>a, <3>1 DEF Goto, Typed, StartType
    <3>3. QED
      BY <1>a, <1>4, <3>2
  <2>2. QED
    BY <1>2, <1>4, <2>1 DEF Keeps, Lives, Phase, Stopping, Calls, d
<1>5. QED
  BY <1>3, <1>4

LEMMA StartCallMoves ==
  ASSUME setup \in Setups, NEW c, Typed(c), MayStart(c), ~c.conn.started, c.start.pc = "idle",
         c.conn.state = "Disconnected", Lives(c)
  PROVE  Begins(c, StartCall(c)) /\ Lives(StartCall(c))
<1> DEFINE begun == [c EXCEPT !.conn.state = "Connecting", !.conn.starts = c.conn.starts + 1,
                              !.start = [pc |-> "negotiating", next |-> 1, redirects |-> 0,
                                         negotiated |-> FALSE]]
           d == StartCall(c)
<1>1. c.conn.starts + 1 \in StartCount /\ c.conn.closes \in Nat /\ c.conn.ends \in Nat
  BY SetsTyped DEF MayStart, Typed, ConnType
<1>2. /\ Typed(begun) /\ begun.start.pc = "negotiating" /\ begun.conn.state = "Connecting"
      /\ begun.conn.stopPending = c.conn.stopPending
      /\ begun.conn.closes = c.conn.closes /\ begun.conn.ends = c.conn.ends
  BY <1>1, SetsTyped DEF Typed, ConnType, StartType, StartPC
<1>3. d \in {begun, StartTransport(begun, "WebSockets"), Goto(begun, "refused")}
  BY DEF StartCall, SkipNegotiation
<1> HIDE DEF d, begun
<1>4. /\ d.start.pc \in {"negotiating", "connecting", "refused"}
      /\ d.conn.state = "Connecting" /\ d.conn.stopPending = c.conn.stopPending
      /\ d.conn.closes = c.conn.closes /\ d.conn.ends = c.conn.ends
  <2>1. CASE d = begun
    BY <1>2, <2>1
  <2>2. CASE d = StartTransport(begun, "WebSockets")
    BY <1>2, <2>2 DEF StartTransport, Goto, Typed, ConnType, StartType
  <2>3. CASE d = Goto(begun, "refused")
    BY <1>2, <2>3 DEF Goto, Typed, ConnType, StartType
  <2>4. QED
    BY <1>3, <2>1, <2>2, <2>3
<1>5. QED
  BY <1>1, <1>4 DEF Begins, Lives, Phase, Stopping, Calls, d

\* _stopConnection ends the connection that was up, and nothing else.
LEMMA StopConnectionMoves ==
  ASSUME setup \in Setups, NEW c, Typed(c), Bounded(c), Lives(c), c.start.pc \in {"idle", "stopped"}
  PROVE  LET d == StopConnection(c)
         IN (Keeps(c, d) \/ Ends(c, d)) /\ Lives(d)
<1> DEFINE d == StopConnection(c)
           bare == [c EXCEPT !.conn.transport = NoTransport]
           off == Off(c)
           told == Told(off)
<1>1. c.conn.closes \in Nat /\ c.conn.ends \in Nat
  BY DEF Typed, ConnType
<1>2. CASE c.conn.state \in {"Disconnected", "Connecting"}
  <2>1. d = bare
    BY <1>2 DEF StopConnection
  <2>2. /\ bare.start = c.start /\ bare.conn.state = c.conn.state
        /\ bare.conn.stopPending = c.conn.stopPending /\ bare.conn.started = c.conn.started
        /\ bare.conn.closes = c.conn.closes /\ bare.conn.ends = c.conn.ends
    BY DEF Typed, ConnType
  <2> HIDE DEF bare, d
  <2>3. QED
    BY <1>1, <2>1, <2>2 DEF Keeps, Lives, Phase, Stopping, Calls, d
<1>3. /\ Typed(off) /\ off.start = c.start /\ off.conn.state = "Disconnected"
      /\ off.conn.stopPending = FALSE /\ off.conn.started = c.conn.started
      /\ off.conn.closes = c.conn.closes /\ off.conn.ends = c.conn.ends
  BY SetsTyped DEF Off, Typed, ConnType
<1> HIDE DEF off
<1>4. CASE c.conn.state \notin {"Disconnected", "Connecting"} /\ ~c.conn.started
  <2>1. d = off
    BY <1>4 DEF StopConnection, off
  <2>2. c.conn.state \in {"Connected", "Disconnecting"}
    BY <1>4 DEF Typed, ConnType
  <2>3. c.start.pc = "stopped"
    BY <1>4, <2>2 DEF Lives
  <2> HIDE DEF d
  <2>4. QED
    BY <1>1, <1>3, <1>4, <2>1, <2>3 DEF Keeps, Lives, Phase, Stopping, Calls, d
<1>5. CASE c.conn.state \notin {"Disconnected", "Connecting"} /\ c.conn.started
  <2>1. d = Restarts(told)
    BY <1>5 DEF StopConnection, off
  <2>2. c.start.pc = "idle"
    BY <1>5 DEF Bounded
  <2>3. /\ Typed(told) /\ told.start = c.start /\ told.conn.state = "Disconnected"
        /\ told.conn.stopPending = FALSE /\ told.conn.started = FALSE
        /\ told.conn.closes = c.conn.closes + 1 /\ told.conn.ends = c.conn.ends + 1
    <3>1. off.conn.closes + 1 \in Nat /\ off.conn.ends + 1 \in Nat
      BY <1>3, <1>1
    <3>2. QED
      BY <1>3, <3>1 DEF Told, Typed, ConnType
  <2> HIDE DEF told, d
  <2>4. Lives(told) /\ Ends(c, told)
    BY <1>5, <2>2, <2>3 DEF Lives, Ends, Phase, Stopping, Calls
  <2>5. CASE d = told
    BY <2>4, <2>5 DEF d
  <2>6. CASE d = StartCall(told) /\ MayStart(told)
    <3>1. Begins(told, d) /\ Lives(d)
      BY <2>2, <2>3, <2>4, <2>6, StartCallMoves
    <3>2. Ends(c, d)
      BY <1>1, <2>3, <2>4, <3>1 DEF Begins, Ends, Stopping, Calls
    <3>3. QED
      BY <3>1, <3>2 DEF d
  <2>7. QED
    BY <2>1, <2>5, <2>6 DEF Restarts
<1>6. QED
  BY <1>2, <1>4, <1>5

-----------------------------------------------------------------------------
(* Where nothing is negotiated there is one WebSocket at a time, also when *)
(* a restart inside onclose made stop() forget it.                         *)

Lean(c) ==
  /\ \A i \in Transport : /\ c.transport[i].kind \in {"none", "WebSockets"}
                          /\ c.transport[i].state # "deleting"
                          /\ c.transport[i].state = "open" =>
                               /\ c.start.pc \in {"idle", "stopped", "connected"}
                               /\ c.conn.state # "Disconnected"
  /\ \A i, j \in Transport :
       c.transport[i].state = "open" /\ c.transport[j].state = "open" => i = j
  /\ Starting(c) => c.conn.state \in {"Connecting", "Disconnecting"}
  /\ c.conn.state = "Connecting" => Starting(c)
  /\ c.conn.state = "Connected" => c.start.pc = "idle"

\* What Sound and Lean say of start() and of the state shown.
Plain(c) ==
  /\ Starting(c) => c.conn.state \in {"Connecting", "Disconnecting"}
  /\ c.conn.state = "Connecting" => Starting(c)
  /\ c.conn.state = "Connected" => c.start.pc = "idle"
  /\ \A i \in Transport : c.transport[i].state = "open" =>
       c.start.pc \in {"idle", "stopped", "connected"}

LEMMA SoundPlain ==
  ASSUME NEW c, Typed(c), Sound(c)
  PROVE  Plain(c)
<1>1. ASSUME NEW i \in Transport, c.transport[i].state = "open"
      PROVE  c.start.pc \in {"idle", "stopped", "connected"}
  <2>1. i = c.conn.transport /\ ~Still(c)
    BY <1>1 DEF Sound, Still, Active
  <2>2. QED
    BY <1>1, <2>1 DEF Sound, Typed, StartType, StartPC
<1>2. QED
  BY <1>1 DEF Sound, Plain

LEMMA LeanPlain ==
  ASSUME NEW c, Lean(c)
  PROVE  Plain(c)
  BY DEF Lean, Plain

\* No socket is open.
NoneOpen(c) ==
  \A i \in Transport : /\ c.transport[i].kind \in {"none", "WebSockets"}
                       /\ c.transport[i].state \notin {"open", "deleting"}

LEMMA NoneOpenLean ==
  ASSUME NEW c, NoneOpen(c),
         Starting(c) => c.conn.state \in {"Connecting", "Disconnecting"},
         c.conn.state = "Connecting" => Starting(c),
         c.conn.state = "Connected" => c.start.pc = "idle"
  PROVE  Lean(c)
  BY DEF NoneOpen, Lean

LEMMA LeanKept ==
  ASSUME NEW c, NEW d, Lean(c), d.transport = c.transport, d.start.pc = c.start.pc,
         d.conn.state = c.conn.state
  PROVE  Lean(d)
  BY DEF Lean, Starting

LEMMA StartCallLean ==
  ASSUME setup \in Setups, setup.skipNegotiation, NEW c, Typed(c), NoneOpen(c), MayStart(c)
  PROVE  Lean(StartCall(c))
<1> DEFINE begun == [c EXCEPT !.conn.state = "Connecting", !.conn.starts = c.conn.starts + 1,
                              !.start = [pc |-> "negotiating", next |-> 1, redirects |-> 0,
                                         negotiated |-> FALSE]]
           new == begun.conn.transports + 1
           d == StartCall(c)
<1>1. c.conn.starts + 1 \in StartCount
  BY SetsTyped DEF MayStart, Typed, ConnType
<1>2. /\ Typed(begun) /\ begun.conn.state = "Connecting"
      /\ begun.conn.transports = c.conn.transports /\ begun.transport = c.transport
  BY <1>1, SetsTyped DEF Typed, ConnType, StartType, StartPC
<1>3. d = IF setup.allowed = {"WebSockets"} THEN StartTransport(begun, "WebSockets")
          ELSE Goto(begun, "refused")
  BY DEF StartCall, SkipNegotiation
<1>4. new \in Transport
  BY <1>2, SetsTyped DEF MayStart, Typed, ConnType
<1> HIDE DEF begun, new, d
<1>5. CASE d = StartTransport(begun, "WebSockets")
  <2>1. /\ d.start.pc = "connecting" /\ d.conn.state = "Connecting"
        /\ d.transport[new].kind = "WebSockets" /\ d.transport[new].state = "connecting"
        /\ \A i \in Transport : i # new => d.transport[i] = c.transport[i]
    BY <1>2, <1>4, <1>5 DEF new, StartTransport, Goto, Typed, ConnType, StartType, TransportType
  <2>2. NoneOpen(d)
    BY <1>4, <2>1 DEF NoneOpen
  <2>3. QED
    BY <2>1, <2>2, NoneOpenLean DEF Starting, d
<1>6. CASE d = Goto(begun, "refused")
  <2>1. d.start.pc = "refused" /\ d.conn.state = "Connecting" /\ d.transport = c.transport
    BY <1>2, <1>6 DEF Goto, Typed, StartType
  <2>2. NoneOpen(d)
    BY <2>1 DEF NoneOpen
  <2>3. QED
    BY <2>1, <2>2, NoneOpenLean DEF Starting, d
<1>7. QED
  BY <1>3, <1>5, <1>6

\* The open socket is closed: there is no other.
LEMMA RaiseOnCloseLean ==
  ASSUME setup \in Setups, setup.skipNegotiation, NEW c, Typed(c), Bounded(c), Lean(c),
         NEW i \in Transport, c.transport[i].state = "open", c.start.pc \in {"idle", "stopped"}
  PROVE  Lean(RaiseOnClose(c, i))
<1> DEFINE at == [c EXCEPT !.transport[i].state = "closed"]
           off == Off(at)
           told == Told(off)
           d == StopConnection(at)
<1>1. /\ Typed(at) /\ at.conn = c.conn /\ at.start = c.start
      /\ at.transport[i].state = "closed" /\ at.transport[i].kind = c.transport[i].kind
      /\ \A j \in Transport \ {i} : at.transport[j] = c.transport[j]
  <2>1. "closed" \in TransportState \ {"connecting"}
    BY DEF TransportState
  <2>2. at.transport[i].kind = c.transport[i].kind
    BY DEF Typed, TransportType
  <2>3. QED
    BY <2>1, <2>2, TransportSet
<1>2. RaiseOnClose(c, i) = d
  BY DEF RaiseOnClose
<1> HIDE DEF at
<1>3. NoneOpen(at) /\ at.conn.state \in {"Connected", "Disconnecting"}
  <2>1. at.conn.state \in {"Connected", "Disconnecting"}
    BY <1>1 DEF Lean, Starting, Typed, ConnType
  <2>2. QED
    BY <1>1, <2>1 DEF Lean, NoneOpen
<1>4. /\ Typed(off) /\ off.start = c.start /\ off.transport = at.transport
      /\ off.conn.state = "Disconnected"
  BY <1>1, SetsTyped DEF Off, Typed, ConnType
<1>5. d = IF ~at.conn.started THEN off ELSE Restarts(told)
  BY <1>3 DEF StopConnection
<1>6. /\ Typed(told) /\ told.start = c.start /\ told.transport = at.transport
      /\ told.conn.state = "Disconnected"
  <2> HIDE DEF off
  <2>1. off.conn.closes + 1 \in Nat /\ off.conn.ends + 1 \in Nat
    BY <1>4 DEF Typed, ConnType
  <2>2. QED
    BY <1>4, <2>1 DEF Told, Typed, ConnType
<1> HIDE DEF off, told, d
<1>7. NoneOpen(off) /\ NoneOpen(told)
  BY <1>3, <1>4, <1>6 DEF NoneOpen
<1>8. Lean(off) /\ Lean(told)
  BY <1>4, <1>6, <1>7, NoneOpenLean DEF Starting
<1>9. CASE d = told
  BY <1>2, <1>8, <1>9
<1>10. CASE d = StartCall(told) /\ MayStart(told)
  BY <1>2, <1>6, <1>7, <1>10, StartCallLean
<1>11. CASE d = off
  BY <1>2, <1>8, <1>11
<1>12. QED
  BY <1>5, <1>9, <1>10, <1>11 DEF Restarts

LEMMA StartFailsLean ==
  ASSUME NEW c, Typed(c), Lean(c), c.start.pc = "refused"
  PROVE  Lean(StartFails(c))
<1> DEFINE d == StartFails(c)
<1>1. d.start.pc = "idle" /\ d.conn.state = "Disconnected" /\ d.transport = c.transport
  BY DEF Typed, StartFails, Goto, StartType, ConnType
<1> HIDE DEF d
<1>2. NoneOpen(d)
  BY <1>1 DEF Lean, NoneOpen
<1>3. QED
  BY <1>1, <1>2, NoneOpenLean DEF Starting, d

LEMMA StartDoneLean ==
  ASSUME NEW c, Typed(c), Lean(c), c.start.pc = "connected"
  PROVE  Lean(StartDone(c))
<1> DEFINE alive == c.conn.inherentKeepAlive
                      \/ (c.conn.transport # NoTransport
                            /\ c.transport[c.conn.transport].kind = "LongPolling")
           kept == [c EXCEPT !.conn.inherentKeepAlive = alive]
           up == [kept EXCEPT !.conn.state = "Connected", !.conn.started = TRUE]
           d == StartDone(c)
<1> HIDE DEF alive
<1>1. /\ kept.transport = c.transport /\ kept.start = c.start
      /\ kept.conn.state = c.conn.state
  BY DEF Typed, ConnType
<1>2. /\ up.transport = c.transport /\ up.start = c.start
      /\ up.conn.state = "Connected"
  BY DEF Typed, ConnType
<1>3. d = IF c.conn.state = "Connecting" THEN Goto(up, "idle") ELSE Goto(kept, "stopped")
  BY DEF StartDone, alive
<1> HIDE DEF kept, up, d
<1>4. CASE d = Goto(up, "idle")
  <2>1. d.start.pc = "idle" /\ d.conn.state = "Connected" /\ d.transport = c.transport
    BY <1>2, <1>4 DEF Goto, Typed, StartType
  <2>2. QED
    BY <2>1 DEF Lean, Starting, d
<1>5. CASE d = Goto(kept, "stopped") /\ c.conn.state # "Connecting"
  <2>1. d.start.pc = "stopped" /\ d.conn.state = c.conn.state /\ d.transport = c.transport
    BY <1>1, <1>5 DEF Goto, Typed, StartType
  <2>2. QED
    BY <1>5, <2>1 DEF Lean, Starting, d
<1>6. QED
  BY <1>3, <1>4, <1>5

LEMMA BecomesLean ==
  ASSUME NEW d, Becomes(d), Lean(d)
  PROVE  Lean(Client)'
<1>1. conn' = d.conn /\ start' = d.start /\ transport' = d.transport
  BY DEF Becomes
<1>2. QED
  BY <1>1 DEF Lean, Starting, Client

LEMMA SettledLean ==
  ASSUME TInv, Lean(Client), NEW i \in Transport, transport[i].state = "connecting",
         NEW state, NEW pc, <<state, pc>> \in {<<"open", "connected">>, <<"failed", "refused">>},
         Becomes(Goto([Client EXCEPT !.transport[i].state = state], pc))
  PROVE  Lean(Client)'
<1> DEFINE at == [Client EXCEPT !.transport[i].state = state]
           d == Goto(at, pc)
<1>1. /\ Typed(Client) /\ Bounded(Client) /\ Client.conn = conn
      /\ Client.start = start /\ Client.transport = transport
      /\ state \in {"open", "failed"} /\ pc \in {"connected", "refused"} /\ Becomes(d)
      /\ state = "open" => pc = "connected"
  BY TInvFacts
<1>2. start.pc = "connecting"
  BY <1>1 DEF Bounded
<1>3. /\ Typed(at) /\ at.conn = conn /\ at.start = start /\ at.transport[i].state = state
      /\ at.transport[i].kind = transport[i].kind
      /\ \A j \in Transport \ {i} : at.transport[j] = transport[j]
  <2>1. state \in TransportState \ {"connecting"}
    BY <1>1 DEF TransportState
  <2>2. at.transport[i].kind = transport[i].kind
    BY <1>1 DEF Typed, TransportType
  <2>3. QED
    BY <1>1, <2>1, <2>2, TransportSet
<1> HIDE DEF at
<1>4. d.conn = conn /\ d.start.pc = pc /\ d.transport = at.transport
  BY <1>1, <1>3 DEF Goto, Typed, StartType, StartPC
<1> HIDE DEF d
<1>5. conn.state \in {"Connecting", "Disconnecting"}
  BY <1>1, <1>2 DEF Lean, Starting
<1>6. \A j \in Transport : transport[j].state # "open"
  BY <1>1, <1>2 DEF Lean
<1>7. Lean(d)
  BY <1>1, <1>3, <1>4, <1>5, <1>6 DEF Lean, Starting
<1>8. QED
  BY <1>1, <1>7, BecomesLean

LEMMA StopTransportLean ==
  ASSUME TInv, setup.skipNegotiation, Lean(Client), NEW s \in Stops, StopTransport(s)
  PROVE  Lean(Client)'
<1> DEFINE i == conn.transport
<1>1. /\ setup \in Setups /\ Typed(Client) /\ Bounded(Client)
      /\ Client.conn = conn /\ Client.start = start /\ Client.transport = transport
      /\ start.pc \in {"idle", "stopped"}
  BY TInvFacts DEF StopTransport
<1>2. i # NoTransport => i \in Transport /\ transport[i].kind # "LongPolling"
  BY <1>1, SetsTyped DEF Typed, ConnType, Lean
<1>3. CASE i = NoTransport
  <2>1. Becomes(Client)
    BY <1>1, <1>3 DEF StopTransport, Becomes
  <2>2. QED
    BY <2>1, BecomesLean
<1>4. CASE i # NoTransport
  <2>1. Becomes(CloseAtOnce(Client, i))
    BY <1>2, <1>4 DEF StopTransport
  <2>2. Lean(CloseAtOnce(Client, i))
    BY <1>1, <1>2, <1>4, RaiseOnCloseLean DEF CloseAtOnce
  <2>3. QED
    BY <2>1, <2>2, BecomesLean
<1>5. QED
  BY <1>3, <1>4

LEMMA StopLean ==
  ASSUME TInv, Lean(Client), NEW s \in Stops, Stop(s)
  PROVE  Lean(Client)'
<1>1. /\ Typed(Client) /\ Client.conn = conn /\ Client.start = start
      /\ Client.transport = transport /\ conn.state # "Disconnected"
      /\ UNCHANGED <<start, transport>>
  BY TInvFacts DEF Stop
<1>2. conn'.state = "Disconnecting"
  BY <1>1 DEF Stop, Typed, ConnType
<1>3. Client'.conn = conn' /\ Client'.start = start /\ Client'.transport = transport
  BY <1>1 DEF Client
<1>4. QED
  BY <1>1, <1>2, <1>3 DEF Lean, Starting

LEMMA StartLean ==
  ASSUME TInv, setup.skipNegotiation, Lean(Client), Start
  PROVE  Lean(Client)'
<1>1. /\ setup \in Setups /\ Typed(Client) /\ Client.conn = conn
      /\ conn.state = "Disconnected" /\ MayStart(Client) /\ Becomes(StartCall(Client))
  BY TInvFacts DEF Start
<1>2. NoneOpen(Client)
  BY <1>1 DEF Lean, NoneOpen
<1>3. QED
  BY <1>1, <1>2, StartCallLean, BecomesLean

\* Steps that change nothing of it.
LEMMA SameLean ==
  ASSUME TInv, Lean(Client), transport' = transport, start' = start, conn'.state = conn.state
  PROVE  Lean(Client)'
  BY TInvFacts DEF Lean, Starting, Client

LEMMA StepLean ==
  ASSUME TInv, LateTyped, setup.skipNegotiation, Lean(Client), [Next]_vars, Undisturbed'
  PROVE  Lean(Client)'
<1>1. /\ setup \in Setups /\ Typed(Client) /\ Bounded(Client)
      /\ Client.conn = conn /\ Client.start = start /\ Client.transport = transport
  BY TInvFacts
<1>2. start.pc \notin {"negotiating", "renegotiating"}
  BY <1>1 DEF Bounded
<1>3. \A i \in Transport : /\ transport[i].kind \in {"none", "WebSockets"}
                           /\ transport[i].state # "deleting"
  BY <1>1 DEF Lean
<1>4. ASSUME NEW i \in Transport, Settles(i)
      PROVE  Lean(Client)'
  <2>1. CASE OpenFails(i)
    BY <2>1, SettledLean DEF OpenFails
  <2>2. CASE SocketOpens(i)
    <3>1. transport[i].state = "connecting" /\ Becomes(Opened(i))
      BY <2>2 DEF SocketOpens, Is
    <3>2. QED
      BY <3>1, SettledLean DEF Opened
  <2>3. QED
    BY <1>3, <1>4, <2>1, <2>2 DEF Settles, EventSourceOpens, FirstPoll, Deleted, Is
<1>5. ASSUME NEW i \in Transport, SocketCloses(i) \/ EventSourceCloses(i) \/ PollsEnd(i)
      PROVE  Lean(Client)'
  <2>1. transport[i].state = "open" /\ Idle /\ Becomes(RaiseOnClose(Client, i))
    BY <1>5 DEF SocketCloses, EventSourceCloses, PollsEnd, Closes, Is
  <2>2. start.pc \in {"idle", "stopped"}
    BY <1>1, <2>1, IdleFacts DEF Lean
  <2>3. QED
    BY <1>1, <2>1, <2>2, RaiseOnCloseLean, BecomesLean
<1>6. CASE Connected
  BY <1>1, <1>6, StartDoneLean, BecomesLean DEF Connected
<1>7. CASE Refused
  BY <1>1, <1>7, StartFailsLean, BecomesLean DEF Refused
<1>8. CASE StartStopped
  <2> DEFINE d == Goto([Client EXCEPT !.conn.ends = conn.ends + 1], "idle")
  <2>1. start.pc = "stopped" /\ Becomes(d)
    BY <1>8 DEF StartStopped
  <2>2. d.start.pc = "idle" /\ d.conn.state = conn.state /\ d.transport = transport
    BY <1>1 DEF Goto, Typed, ConnType, StartType
  <2> HIDE DEF d
  <2>3. Lean(d)
    BY <1>1, <2>1, <2>2 DEF Lean, Starting
  <2>4. QED
    BY <2>1, <2>3, BecomesLean
<1>9. ASSUME NEW s \in Stops, TransportStopped(s) \/ StopReturns(s)
      PROVE  Lean(Client)'
  <2>1. transport' = transport /\ start' = start /\ conn'.state = conn.state
    BY <1>1, <1>9 DEF TransportStopped, StopReturns, Typed, ConnType
  <2>2. QED
    BY <2>1, SameLean
<1>10. CASE Send
  <2>1. transport' = transport /\ start' = start /\ conn'.state = conn.state
    BY <1>1, <1>10 DEF Send, Typed, ConnType
  <2>2. QED
    BY <2>1, SameLean
<1>11. CASE UNCHANGED <<conn, start, transport, stop, setup>>
  BY <1>11, SameLean
<1>12. CASE GoesOn
  BY <1>6, <1>7, <1>8, <1>9, <1>12, StopTransportLean DEF GoesOn
<1>13. ~Answers
  BY <1>2 DEF Answers, Renegotiated, NegotiationFails, Negotiated
<1>14. CASE UNCHANGED vars
  BY <1>11, <1>14 DEF vars
<1>15. QED
  BY <1>4, <1>5, <1>10, <1>11, <1>12, <1>13, <1>14, StartLean, StopLean, LateSteps DEF Next

LEMMA InitLean ==
  ASSUME Init
  PROVE  Lean(Client)
  BY DEF Init, Client, Lean, Starting

LEMMA SetupFixed ==
  ASSUME [Next]_vars
  PROVE  UNCHANGED setup
  BY DEF Next, vars, GoesOn, Connected, Refused, StartStopped, StopTransport, TransportStopped,
         StopReturns, Start, Send, Stop, Answers, Renegotiated, NegotiationFails, Negotiated,
         Settles, OpenFails, SocketOpens, EventSourceOpens, FirstPoll, Deleted,
         SocketCloses, EventSourceCloses, PollsEnd, Closes, LateOpens, LateCloses

\* Nothing starts with a poll that ends the polls: with it the state may become
\* Disconnected while start() goes on.
PollsGoOn == \A s \in Setups : s.skipNegotiation \/ s.firstPolls = {200}


-----------------------------------------------------------------------------
(* Each step, seen as one of Connection.                                   *)

BusyStop == {"starting", "transport", "deleted", "stopping"}

\* A call of stop() that waits for an end waits for one that came, or for the next.
AwaitsWell ==
  \A s \in Stops :
    /\ stop[s].awaits <= conn.ends + 1
    /\ stop[s].awaits = conn.ends + 1 => Stopping(Client)
    /\ stop[s].pc = "none" => stop[s].awaits = 0
    /\ stop[s].pc \in BusyStop => stop[s].awaits # 0

\* Where nothing is negotiated, Lean takes the place of Inductive.
RefinesInv ==
  /\ TInv /\ Lives(Client) /\ AwaitsWell
  /\ IF setup.skipNegotiation THEN Lean(Client) ELSE Inductive

LEMMA RefinesFacts ==
  ASSUME RefinesInv
  PROVE  TInv /\ Plain(Client) /\ Lives(Client) /\ AwaitsWell
  BY SoundPlain, LeanPlain, TInvFacts DEF RefinesInv, Inductive

\* What waits for an end goes on waiting for it.
StopsGoOn ==
  \A s \in Stops : /\ stop'[s].awaits = stop[s].awaits
                   /\ stop'[s].pc = "none" => stop[s].pc = "none"
                   /\ stop'[s].pc \in BusyStop => stop[s].pc \in BusyStop

Moved == \E d : Typed(d) /\ Becomes(d) /\ Lives(d) /\ Moves(Client, d) /\ StopsGoOn

LEMMA SameStops ==
  ASSUME stop' = stop
  PROVE  StopsGoOn
BY DEF StopsGoOn

LEMMA GotoGoesOn ==
  ASSUME StopTyped, NEW s \in Stops, stop[s].pc \in BusyStop, NEW pc \in BusyStop, StopGoto(s, pc)
  PROVE  StopsGoOn
<1>1. BusyStop \subseteq StopPC /\ "none" \notin BusyStop
  BY DEF BusyStop, StopPC
<1>2. /\ stop'[s].pc = pc /\ stop'[s].awaits = stop[s].awaits
      /\ \A r \in Stops \ {s} : stop'[r] = stop[r]
  BY <1>1, StopGotoFacts
<1>3. QED
  BY <1>1, <1>2 DEF StopsGoOn

LEMMA SameMoves ==
  ASSUME NEW c, NEW d, Typed(c), Lives(c), d.start.pc = c.start.pc,
         d.conn.state = c.conn.state, d.conn.stopPending = c.conn.stopPending,
         d.conn.started = c.conn.started, d.conn.closes = c.conn.closes,
         d.conn.ends = c.conn.ends
  PROVE  Keeps(c, d) /\ Lives(d)
<1>1. c.conn.closes \in Nat /\ c.conn.ends \in Nat
  BY DEF Typed, ConnType
<1>2. QED
  BY <1>1 DEF Lives, Keeps, Phase, Stopping, Calls

\* Steps of which one does nothing.
LEMMA KeepsThen ==
  ASSUME NEW c, NEW d, Typed(Client), Keeps(Client, c), Keeps(c, d) \/ Fails(c, d)
  PROVE  Keeps(Client, d) \/ Fails(Client, d)
<1>1. Client.conn.closes \in Nat /\ Client.conn.ends \in Nat
  BY DEF Typed, ConnType
<1>2. c.conn.closes = Client.conn.closes /\ c.conn.ends = Client.conn.ends
  BY <1>1 DEF Keeps, Calls
<1>3. QED
  BY <1>2 DEF Keeps, Fails, Calls

LEMMA ThenKeeps ==
  ASSUME NEW c, NEW d, Typed(c), Keeps(Client, c) \/ Ends(Client, c), Keeps(c, d)
  PROVE  Keeps(Client, d) \/ Ends(Client, d)
<1>1. c.conn.closes \in Nat /\ c.conn.ends \in Nat
  BY DEF Typed, ConnType
<1>2. d.conn.closes = c.conn.closes /\ d.conn.ends = c.conn.ends
  BY <1>1 DEF Keeps, Calls
<1>3. QED
  BY <1>2 DEF Keeps, Ends, Calls

LEMMA ConnectedMoves ==
  ASSUME RefinesInv, Connected
  PROVE  Moved
<1> DEFINE d == StartDone(Client)
<1>1. /\ Typed(Client) /\ Bounded(Client) /\ Plain(Client) /\ Lives(Client)
      /\ Client.start.pc = "connected" /\ Becomes(d) /\ stop' = stop
  BY TInvFacts, RefinesFacts DEF Connected
<1>2. ~Client.conn.started /\ Client.conn.state \in {"Connecting", "Disconnecting"}
  BY <1>1 DEF Bounded, Plain, Starting
<1>3. Quiet(Client)
  BY <1>1, <1>2 DEF Bounded, Quiet
<1>4. Typed(d)
  BY <1>1, <1>3, StartDoneTyped
<1>5. (Keeps(Client, d) \/ Opens(Client, d)) /\ Lives(d)
  BY <1>1, <1>2, StartDoneMoves
<1> HIDE DEF d
<1>6. QED
  BY <1>1, <1>4, <1>5, SameStops DEF Moved, Moves

LEMMA StartFailsMoved ==
  ASSUME setup \in Setups, NEW c, Typed(c), Quiet(c), c.start.pc # "idle",
         Becomes(StartFails(c)), Typed(Client), Keeps(Client, c), stop' = stop
  PROVE  Moved
<1> DEFINE d == StartFails(c)
<1>1. Typed(d)
  BY StartFailsTyped
<1>2. Fails(c, d) /\ Lives(d)
  BY StartFailsMoves DEF Quiet
<1> HIDE DEF d
<1>3. Fails(Client, d)
  <2>1. Client.conn.closes \in Nat /\ Client.conn.ends \in Nat
    BY DEF Typed, ConnType
  <2>2. c.conn.closes = Client.conn.closes /\ c.conn.ends = Client.conn.ends
    BY <2>1 DEF Keeps, Calls
  <2>3. QED
    BY <1>2, <2>2 DEF Fails, Keeps, Calls
<1>4. Becomes(d)
  BY DEF d
<1>5. QED
  BY <1>1, <1>2, <1>3, <1>4, SameStops DEF Moved, Moves

LEMMA RefusedMoves ==
  ASSUME RefinesInv, Refused
  PROVE  Moved
<1>1. /\ setup \in Setups /\ Typed(Client) /\ Bounded(Client) /\ Lives(Client)
      /\ Client.start.pc = "refused" /\ stop' = stop /\ Client.start = start /\ Client.conn = conn
  BY TInvFacts, RefinesFacts DEF Refused
<1>2. ~Client.conn.started /\ Starting(Client)
  BY <1>1 DEF Bounded, Starting
<1>3. Quiet(Client)
  BY <1>1, <1>2 DEF Bounded, Quiet
<1>4. CASE Becomes(TryNext(Client)) /\ ~setup.skipNegotiation
  <2> DEFINE d == TryNext(Client)
  <2>1. Room(Client)
    BY <1>1, <1>4 DEF Bounded, Opening
  <2>2. Typed(d)
    BY <1>1, <1>3, <1>4, <2>1, TryNextTyped
  <2>3. (Keeps(Client, d) \/ Fails(Client, d)) /\ Lives(d)
    BY <1>1, <1>2, TryNextMoves
  <2>4. Becomes(d)
    BY <1>4
  <2> HIDE DEF d
  <2>5. QED
    BY <1>1, <2>2, <2>3, <2>4, SameStops DEF Moved, Moves
<1>5. CASE Becomes(StartFails(Client))
  <2>1. Keeps(Client, Client)
    BY <1>1, SameMoves
  <2>2. QED
    BY <1>1, <1>3, <1>5, <2>1, StartFailsMoved
<1>6. QED
  BY <1>4, <1>5 DEF Refused

LEMMA StartStoppedMoves ==
  ASSUME RefinesInv, StartStopped
  PROVE  Moved
<1> DEFINE at == [Client EXCEPT !.conn.ends = conn.ends + 1]
           d == Goto(at, "idle")
<1>1. /\ setup \in Setups /\ Typed(Client) /\ Bounded(Client) /\ Lives(Client)
      /\ Client.start.pc = "stopped" /\ stop' = stop /\ Client.start = start /\ Client.conn = conn
      /\ ~conn.stopPending /\ Becomes(d) /\ conn.ends + 1 \in Nat
  BY TInvFacts, RefinesFacts DEF StartStopped
<1>2. ~conn.started /\ conn.state # "Disconnecting" /\ conn.state # "Connected"
  BY <1>1 DEF Bounded, Lives
<1>3. /\ Typed(at) /\ at.conn.state = conn.state /\ at.conn.started = conn.started
      /\ at.conn.stopPending = conn.stopPending /\ at.conn.closes = conn.closes
      /\ at.conn.ends = conn.ends + 1
  BY <1>1 DEF Typed, ConnType
<1> HIDE DEF at
<1>4. Typed(d) /\ d.conn = at.conn /\ d.start.pc = "idle"
  BY <1>3 DEF Goto, Typed, StartType, StartPC
<1> HIDE DEF d
<1>5. conn.closes \in Nat
  BY <1>1 DEF Typed, ConnType
<1>6. Fails(Client, d) /\ Lives(d)
  BY <1>1, <1>2, <1>3, <1>4, <1>5 DEF Fails, Lives, Phase, Stopping, Calls
<1>7. QED
  BY <1>1, <1>4, <1>6, SameStops DEF Moved, Moves

\* A transport that is closed while start() is not waiting for it.
LEMMA RaiseOnCloseMoves ==
  ASSUME setup \in Setups, NEW c, Typed(c), Bounded(c), Lives(c), NEW i \in Transport,
         c.start.pc \in {"idle", "stopped"}
  PROVE  LET d == RaiseOnClose(c, i)
         IN (Keeps(c, d) \/ Ends(c, d)) /\ Lives(d)
<1> DEFINE at == [c EXCEPT !.transport[i].state = "closed"]
           d == StopConnection(at)
<1>1. Typed(at) /\ Bounded(at) /\ at.conn = c.conn /\ at.start = c.start
  <2>1. "closed" \in TransportState \ {"connecting"}
    BY DEF TransportState
  <2>2. QED
    BY <2>1, TransportSet
<1>2. RaiseOnClose(c, i) = d
  BY DEF RaiseOnClose
<1> HIDE DEF at
<1>3. Lives(at)
  BY <1>1 DEF Lives
<1>4. (Keeps(at, d) \/ Ends(at, d)) /\ Lives(d)
  BY <1>1, <1>3, StopConnectionMoves
<1> HIDE DEF d
<1>5. Keeps(c, d) \/ Ends(c, d)
  BY <1>1, <1>4 DEF Keeps, Ends, Phase, Stopping, Calls
<1>6. QED
  BY <1>2, <1>4, <1>5

LEMMA StopTransportMoves ==
  ASSUME RefinesInv, NEW s \in Stops, StopTransport(s)
  PROVE  Moved
<1> DEFINE i == conn.transport
<1>1. /\ setup \in Setups /\ Typed(Client) /\ Bounded(Client) /\ Lives(Client) /\ StopTyped
      /\ Client.conn = conn /\ Client.start = start /\ Client.transport = transport
      /\ stop[s].pc = "starting" /\ start.pc \in {"idle", "stopped"}
  BY TInvFacts, RefinesFacts DEF StopTransport
<1>2. stop[s].pc \in BusyStop /\ {"stopping", "transport", "deleted"} \subseteq BusyStop
  BY <1>1 DEF BusyStop
<1>3. i # NoTransport => i \in Transport
  BY <1>1, SetsTyped DEF Typed, ConnType
<1>4. Keeps(Client, Client)
  BY <1>1, SameMoves
<1>5. CASE i = NoTransport
  <2>1. StopGoto(s, "stopping") /\ Becomes(Client)
    BY <1>1, <1>5 DEF StopTransport, Becomes
  <2>2. StopsGoOn
    BY <1>1, <1>2, <2>1, GotoGoesOn
  <2>3. QED
    BY <1>1, <1>4, <2>1, <2>2 DEF Moved, Moves
<1>6. CASE i # NoTransport /\ transport[i].kind = "LongPolling"
  <2> DEFINE d == AbortPoll(Client, i)
  <2>1. StopGoto(s, "transport") /\ Becomes(d)
    BY <1>6 DEF StopTransport
  <2>2. StopsGoOn
    BY <1>1, <1>2, <2>1, GotoGoesOn
  <2>3. Typed(d)
    BY <1>1, <1>3, <1>6, AbortPollTyped
  <2>4. d.conn = conn /\ d.start = start
    BY <1>1 DEF AbortPoll, Typed
  <2> HIDE DEF d
  <2>5. Keeps(Client, d) /\ Lives(d)
    BY <1>1, <2>4, SameMoves
  <2>6. QED
    BY <2>1, <2>2, <2>3, <2>5 DEF Moved, Moves
<1>7. CASE i # NoTransport /\ transport[i].kind # "LongPolling"
  <2> DEFINE d == CloseAtOnce(Client, i)
  <2>1. StopGoto(s, "deleted") /\ Becomes(d)
    BY <1>7 DEF StopTransport
  <2>2. StopsGoOn
    BY <1>1, <1>2, <2>1, GotoGoesOn
  <2>3. CASE d = Client
    <3>1. Becomes(Client)
      BY <2>1, <2>3
    <3>2. QED
      BY <1>1, <1>4, <2>2, <3>1 DEF Moved, Moves
  <2>4. CASE d = RaiseOnClose(Client, i)
    <3>1. Typed(d)
      BY <1>1, <1>3, <1>7, <2>4, RaiseOnCloseTyped
    <3>2. (Keeps(Client, d) \/ Ends(Client, d)) /\ Lives(d)
      BY <1>1, <1>3, <1>7, <2>4, RaiseOnCloseMoves
    <3> HIDE DEF d
    <3>3. QED
      BY <2>1, <2>2, <3>1, <3>2 DEF Moved, Moves
  <2>5. QED
    BY <2>3, <2>4 DEF CloseAtOnce
<1>8. QED
  BY <1>5, <1>6, <1>7

LEMMA TransportStoppedMoves ==
  ASSUME RefinesInv, NEW s \in Stops, TransportStopped(s)
  PROVE  Moved
<1> DEFINE d == [Client EXCEPT !.conn.transport = NoTransport]
<1>1. /\ Typed(Client) /\ Lives(Client) /\ StopTyped
      /\ Client.conn = conn /\ Client.start = start /\ Client.transport = transport
      /\ stop[s].pc = "deleted" /\ StopGoto(s, "stopping") /\ setup \in Setups
      /\ conn' = [conn EXCEPT !.transport = NoTransport] /\ UNCHANGED <<start, transport>>
  BY TInvFacts, RefinesFacts DEF TransportStopped
<1>2. StopsGoOn
  BY <1>1, GotoGoesOn DEF BusyStop
<1>3. /\ Typed(d) /\ d.conn = [conn EXCEPT !.transport = NoTransport] /\ d.start = start
      /\ d.transport = transport /\ d.conn.state = conn.state
      /\ d.conn.stopPending = conn.stopPending /\ d.conn.started = conn.started
      /\ d.conn.closes = conn.closes /\ d.conn.ends = conn.ends
  BY <1>1, SetsTyped DEF Typed, ConnType
<1> HIDE DEF d
<1>4. Becomes(d)
  BY <1>1, <1>3 DEF Becomes
<1>5. Keeps(Client, d) /\ Lives(d)
  BY <1>1, <1>3, SameMoves
<1>6. QED
  BY <1>2, <1>3, <1>4, <1>5 DEF Moved, Moves

LEMMA StartMoves ==
  ASSUME RefinesInv, Start
  PROVE  Moved
<1> DEFINE d == StartCall(Client)
<1>1. /\ setup \in Setups /\ Typed(Client) /\ Bounded(Client) /\ Lives(Client)
      /\ Client.conn = conn /\ Client.start = start /\ Client.transport = transport
      /\ conn.state = "Disconnected" /\ start.pc = "idle" /\ MayStart(Client)
      /\ Becomes(d) /\ stop' = stop
  BY TInvFacts, RefinesFacts DEF Start
<1>2. ~conn.started /\ Quiet(Client)
  BY <1>1 DEF Bounded, Quiet
<1>3. Typed(d)
  BY <1>1, <1>2, StartCallTyped
<1>4. Begins(Client, d) /\ Lives(d)
  BY <1>1, <1>2, StartCallMoves
<1> HIDE DEF d
<1>5. QED
  BY <1>1, <1>3, <1>4, SameStops DEF Moved, Moves

LEMMA SendMoves ==
  ASSUME RefinesInv, Send
  PROVE  Moved
<1> DEFINE d == [Client EXCEPT !.conn.queue = conn.transport]
<1>1. /\ Typed(Client) /\ Lives(Client) /\ Client.conn = conn /\ Client.start = start
      /\ Client.transport = transport /\ stop' = stop
      /\ conn' = [conn EXCEPT !.queue = conn.transport] /\ UNCHANGED <<start, transport>>
  BY TInvFacts, RefinesFacts DEF Send
<1>2. /\ Typed(d) /\ d.conn = [conn EXCEPT !.queue = conn.transport] /\ d.start = start
      /\ d.transport = transport /\ d.conn.state = conn.state
      /\ d.conn.stopPending = conn.stopPending /\ d.conn.started = conn.started
      /\ d.conn.closes = conn.closes /\ d.conn.ends = conn.ends
  BY <1>1 DEF Typed, ConnType
<1> HIDE DEF d
<1>3. Becomes(d)
  BY <1>1, <1>2 DEF Becomes
<1>4. Keeps(Client, d) /\ Lives(d)
  BY <1>1, <1>2, SameMoves
<1>5. QED
  BY <1>1, <1>2, <1>3, <1>4, SameStops DEF Moved, Moves

LEMMA NegotiatedMoves ==
  ASSUME RefinesInv, NEW redirect \in BOOLEAN, Negotiated(redirect)
  PROVE  Moved
<1> DEFINE heard == [Client EXCEPT !.conn.negotiations = conn.negotiations + 1,
                                   !.start.redirects = start.redirects + 1]
           chosen == [heard EXCEPT !.start.negotiated = TRUE]
<1>1. /\ setup \in Setups /\ Typed(Client) /\ Bounded(Client) /\ Lives(Client)
      /\ Client.conn = conn /\ Client.start = start /\ Client.transport = transport
      /\ start.pc = "negotiating" /\ stop' = stop /\ conn.negotiations + 1 \in Nat
  BY TInvFacts, RefinesFacts DEF Negotiated
<1>2. /\ start.redirects + 1 \in RedirectCount /\ ~setup.skipNegotiation /\ Room(Client)
      /\ ~conn.started /\ Quiet(Client)
  BY <1>1, SetsTyped DEF Bounded, Opening, Typed, StartType, Quiet
<1>3. /\ Typed(heard) /\ heard.start.pc = "negotiating" /\ heard.start.next = start.next
      /\ heard.transport = transport /\ heard.conn.transports = conn.transports
      /\ heard.conn.state = conn.state
      /\ heard.conn.stopPending = conn.stopPending /\ heard.conn.started = conn.started
      /\ heard.conn.closes = conn.closes /\ heard.conn.ends = conn.ends
  BY <1>1, <1>2 DEF Typed, ConnType, StartType
<1>4. \/ Becomes(StartFails(heard)) \/ Becomes(TryNext(chosen)) \/ Becomes(heard)
  BY DEF Negotiated
<1> HIDE DEF heard
<1>5. Keeps(Client, heard) /\ Lives(heard) /\ Quiet(heard)
  <2>1. Keeps(Client, heard) /\ Lives(heard)
    BY <1>1, <1>3, SameMoves
  <2>2. QED
    BY <1>1, <1>2, <1>3, <2>1 DEF Quiet
<1>6. CASE Becomes(StartFails(heard))
  BY <1>1, <1>3, <1>5, <1>6, StartFailsMoved
<1>7. CASE Becomes(heard)
  BY <1>1, <1>3, <1>5, <1>7, SameStops DEF Moved, Moves
<1>8. CASE Becomes(TryNext(chosen))
  <2> DEFINE d == TryNext(chosen)
  <2>1. /\ Typed(chosen) /\ chosen.transport = transport /\ chosen.conn = heard.conn
        /\ chosen.start.next = start.next /\ chosen.start.pc = "negotiating"
    BY <1>3 DEF Typed, StartType
  <2> HIDE DEF chosen
  <2>2. Quiet(chosen) /\ Room(chosen) /\ Starting(chosen)
    BY <1>1, <1>2, <1>3, <2>1 DEF Quiet, Room, Starting
  <2>3. Keeps(Client, chosen) /\ Lives(chosen)
    BY <1>1, <1>3, <2>1, SameMoves
  <2>4. Typed(d)
    BY <1>1, <1>2, <2>1, <2>2, TryNextTyped
  <2>5. (Keeps(chosen, d) \/ Fails(chosen, d)) /\ Lives(d)
    BY <1>1, <2>1, <2>2, <2>3, TryNextMoves DEF Quiet
  <2> HIDE DEF d
  <2>6. Keeps(Client, d) \/ Fails(Client, d)
    BY <1>1, <2>3, <2>5, KeepsThen
  <2>7. Becomes(d)
    BY <1>8 DEF d
  <2>8. QED
    BY <1>1, <2>4, <2>5, <2>6, <2>7, SameStops DEF Moved, Moves
<1>9. QED
  BY <1>4, <1>6, <1>7, <1>8

LEMMA RenegotiatedMoves ==
  ASSUME RefinesInv, Renegotiated
  PROVE  Moved
<1> DEFINE known == [Client EXCEPT !.conn.negotiations = conn.negotiations + 1,
                                   !.start.negotiated = TRUE]
           d == TryNext(known)
           heard == [Client EXCEPT !.conn.negotiations = conn.negotiations + 1]
           tried == [heard EXCEPT !.start.next = start.next + 1]
           gone == Goto(tried, "refused")
<1>1. /\ setup \in Setups /\ Typed(Client) /\ Bounded(Client) /\ Lives(Client)
      /\ Client.conn = conn /\ Client.start = start /\ Client.transport = transport
      /\ start.pc = "renegotiating" /\ stop' = stop /\ conn.negotiations + 1 \in Nat
      /\ start.next \in Candidate /\ start.next + 1 \in Candidate
  BY TInvFacts, RefinesFacts, SetsTyped DEF Renegotiated, Bounded, Typed, StartType
<1>a. Becomes(d) \/ Becomes(gone)
  BY DEF Renegotiated
<1>2. ~setup.skipNegotiation /\ Room(Client) /\ ~conn.started /\ Quiet(Client)
  BY <1>1 DEF Bounded, Opening, Quiet
<1>3. /\ Typed(known) /\ known.start.pc = "renegotiating" /\ known.start.next = start.next
      /\ known.transport = transport /\ known.conn.transports = conn.transports
      /\ known.conn.state = conn.state
      /\ known.conn.stopPending = conn.stopPending /\ known.conn.started = conn.started
      /\ known.conn.closes = conn.closes /\ known.conn.ends = conn.ends
  BY <1>1 DEF Typed, ConnType, StartType
<1> HIDE DEF known
<1>4. Quiet(known) /\ Room(known) /\ Starting(known)
  BY <1>1, <1>2, <1>3 DEF Quiet, Room, Starting
<1>5. Keeps(Client, known) /\ Lives(known)
  BY <1>1, <1>3, SameMoves
<1>6. Typed(d)
  BY <1>1, <1>2, <1>3, <1>4, TryNextTyped
<1>7. (Keeps(known, d) \/ Fails(known, d)) /\ Lives(d)
  BY <1>1, <1>3, <1>4, <1>5, TryNextMoves DEF Quiet
<1> HIDE DEF d
<1>8. Keeps(Client, d) \/ Fails(Client, d)
  BY <1>1, <1>5, <1>7, KeepsThen
<1>9. CASE Becomes(d)
  BY <1>1, <1>6, <1>7, <1>8, <1>9, SameStops DEF Moved, Moves
<1>10. CASE Becomes(gone)
  <2>1. /\ Typed(heard) /\ heard.start = start /\ heard.conn.state = conn.state
        /\ heard.conn.stopPending = conn.stopPending /\ heard.conn.started = conn.started
        /\ heard.conn.closes = conn.closes /\ heard.conn.ends = conn.ends
    BY <1>1 DEF Typed, ConnType
  <2> HIDE DEF heard
  <2>2. Typed(tried) /\ tried.conn = heard.conn
    BY <1>1, <2>1 DEF Typed, StartType
  <2> HIDE DEF tried
  <2>3. Typed(gone) /\ gone.conn = heard.conn /\ gone.start.pc = "refused"
    BY <2>2 DEF Goto, Typed, StartType, StartPC
  <2> HIDE DEF gone
  <2>4. Starting(Client) /\ Starting(gone)
    BY <1>1, <2>3 DEF Starting
  <2>5. Keeps(Client, gone) /\ Lives(gone)
    BY <1>1, <2>1, <2>3, <2>4, OpeningKeeps
  <2>6. QED
    BY <1>1, <1>10, <2>3, <2>5, SameStops DEF Moved, Moves
<1>11. QED
  BY <1>a, <1>9, <1>10

LEMMA NegotiationFailsMoves ==
  ASSUME RefinesInv, NegotiationFails
  PROVE  Moved
<1>1. /\ setup \in Setups /\ Typed(Client) /\ Bounded(Client) /\ Lives(Client)
      /\ Client.start = start /\ start.pc \in {"negotiating", "renegotiating"}
      /\ Becomes(StartFails(Client)) /\ stop' = stop
  BY TInvFacts, RefinesFacts DEF NegotiationFails
<1>2. Quiet(Client) /\ Client.start.pc # "idle"
  BY <1>1 DEF Bounded, Quiet
<1>3. Keeps(Client, Client)
  BY <1>1, SameMoves
<1>4. QED
  BY <1>1, <1>2, <1>3, StartFailsMoved

LEMMA SettledMoves ==
  ASSUME RefinesInv, NEW i \in Transport, transport[i].state = "connecting",
         NEW state, NEW pc, <<state, pc>> \in {<<"open", "connected">>, <<"failed", "refused">>},
         Becomes(Goto([Client EXCEPT !.transport[i].state = state], pc)), stop' = stop
  PROVE  Moved
<1> DEFINE at == [Client EXCEPT !.transport[i].state = state]
           d == Goto(at, pc)
<1>1. /\ Typed(Client) /\ Bounded(Client) /\ Lives(Client) /\ Client.conn = conn
      /\ Client.start = start /\ Client.transport = transport
      /\ state \in {"open", "failed"} /\ pc \in {"connected", "refused"} /\ Becomes(d)
  BY TInvFacts, RefinesFacts
<1>2. start.pc = "connecting"
  BY <1>1 DEF Bounded
<1>3. Typed(at) /\ at.conn = conn /\ at.start = start
  <2>1. state \in TransportState \ {"connecting"}
    BY <1>1 DEF TransportState
  <2>2. QED
    BY <1>1, <2>1, TransportSet
<1> HIDE DEF at
<1>4. Typed(d) /\ d.conn = conn /\ d.start.pc = pc
  BY <1>1, <1>3 DEF Goto, Typed, StartType, StartPC
<1> HIDE DEF d
<1>5. Starting(Client) /\ Starting(d)
  BY <1>1, <1>2, <1>4 DEF Starting
<1>6. Keeps(Client, d) /\ Lives(d)
  BY <1>1, <1>4, <1>5, OpeningKeeps
<1>7. QED
  BY <1>1, <1>4, <1>6, SameStops DEF Moved, Moves

LEMMA ClosesMoves ==
  ASSUME RefinesInv, NEW i \in Transport, transport[i].state = "open", Closes(i)
  PROVE  Moved
<1> DEFINE d == RaiseOnClose(Client, i)
<1>1. /\ setup \in Setups /\ Typed(Client) /\ Bounded(Client) /\ Plain(Client) /\ Lives(Client)
      /\ Client.conn = conn /\ Client.start = start /\ Client.transport = transport
      /\ Idle /\ Becomes(d) /\ stop' = stop
  BY TInvFacts, RefinesFacts DEF Closes
<1>2. start.pc \notin {"connected", "refused"}
  BY <1>1, IdleFacts
<1>3. start.pc \in {"idle", "stopped"}
  BY <1>1, <1>2 DEF Plain
<1>4. Typed(d)
  BY <1>1, RaiseOnCloseTyped
<1>5. (Keeps(Client, d) \/ Ends(Client, d)) /\ Lives(d)
  BY <1>1, <1>3, RaiseOnCloseMoves
<1> HIDE DEF d
<1>6. QED
  BY <1>1, <1>4, <1>5, SameStops DEF Moved, Moves

LEMMA DeletedMoves ==
  ASSUME PollsGoOn, RefinesInv, NEW i \in Transport, NEW ok \in BOOLEAN, Deleted(i, ok)
  PROVE  Moved
<1> DEFINE raised == RaiseOnClose(Client, i)
           again == StopConnection(raised)
<1>1. /\ setup \in Setups /\ Typed(Client) /\ Bounded(Client) /\ StopTyped
      /\ ~setup.skipNegotiation /\ Sound(Client) /\ TokensOwn(Client) /\ Lives(Client)
      /\ Client.conn = conn /\ Client.start = start /\ Client.transport = transport
      /\ transport[i].state = "deleting"
      /\ Becomes(raised) \/ Becomes(again)
  BY TInvFacts, RefinesFacts DEF RefinesInv, Inductive, Lean, Tokens, Deleted
<1>2. conn.state = "Disconnecting" /\ ~Starting(Client)
  BY <1>1 DEF Sound
<1>3. start.pc \in {"idle", "stopped"}
  BY <1>1, <1>2 DEF Starting
<1>4. Typed(raised) /\ Left(raised)
  BY <1>1, <1>2, <1>3, RaiseOnCloseTyped, RaiseOnCloseSound DEF PollsGoOn, OrdinarySetup
<1>5. (Keeps(Client, raised) \/ Ends(Client, raised)) /\ Lives(raised)
  BY <1>1, <1>3, RaiseOnCloseMoves
<1> HIDE DEF raised
<1>6. /\ Typed(again) /\ Lives(again) /\ Keeps(raised, again)
  <2> DEFINE bare == [raised EXCEPT !.conn.transport = NoTransport]
  <2>1. again = bare
    BY <1>4 DEF Left, StopConnection
  <2>2. /\ Typed(bare) /\ bare.start = raised.start /\ bare.conn.state = raised.conn.state
        /\ bare.conn.stopPending = raised.conn.stopPending
        /\ bare.conn.started = raised.conn.started
        /\ bare.conn.closes = raised.conn.closes /\ bare.conn.ends = raised.conn.ends
    BY <1>1, <1>4, SetsTyped DEF Typed, ConnType
  <2> HIDE DEF bare, again
  <2>3. QED
    BY <1>4, <1>5, <2>1, <2>2, SameMoves
<1> HIDE DEF again
<1>7. Keeps(Client, again) \/ Ends(Client, again)
  BY <1>4, <1>5, <1>6, ThenKeeps
<1>8. StopsGoOn
  <2>1. PICK throws \in BOOLEAN :
          stop' = [s \in Stops |-> IF ~(stop[s].pc = "transport" /\ stop[s].transport = i)
                                  THEN stop[s]
                                  ELSE [stop[s] EXCEPT !.pc = IF throws THEN "threw" ELSE "deleted"]]
    <3> DEFINE throws == (~ok \/ StopConnectionThrows(Client)) /\ StopConnectionThrows(raised)
    <3>1. stop' = [s \in Stops |->
            IF s \notin {r \in Stops : stop[r].pc = "transport" /\ stop[r].transport = i}
            THEN stop[s]
            ELSE [stop[s] EXCEPT !.pc = IF throws THEN "threw" ELSE "deleted"]]
      BY DEF Deleted, raised
    <3>2. throws \in BOOLEAN
      OBVIOUS
    <3> HIDE DEF throws
    <3>3. stop' = [s \in Stops |-> IF ~(stop[s].pc = "transport" /\ stop[s].transport = i)
                                  THEN stop[s]
                                  ELSE [stop[s] EXCEPT !.pc = IF throws THEN "threw" ELSE "deleted"]]
      BY <3>1
    <3>4. QED
      BY <3>2, <3>3
  <2>2. QED
    BY <1>1, <2>1 DEF StopTyped, StopsGoOn, BusyStop
<1>9. QED
  BY <1>1, <1>4, <1>5, <1>6, <1>7, <1>8 DEF Moved, Moves

LEMMA StopsMove ==
  ASSUME PollsGoOn, RefinesInv, LateTyped, [Next]_vars, Undisturbed', ~Moved
  PROVE  \E s \in Stops : Stop(s) \/ StopReturns(s)
<1>1. ASSUME NEW i \in Transport, Settles(i)
      PROVE  FALSE
  <2>1. CASE OpenFails(i)
    BY <2>1, SettledMoves DEF OpenFails
  <2>2. CASE SocketOpens(i) \/ EventSourceOpens(i)
    <3>1. transport[i].state = "connecting" /\ Becomes(Opened(i)) /\ stop' = stop
      BY <2>2 DEF SocketOpens, EventSourceOpens, Is
    <3>2. QED
      BY <3>1, SettledMoves DEF Opened
  <2>3. ASSUME NEW status \in setup.firstPolls, FirstPoll(i, status)
        PROVE  FALSE
    <3>1. transport[i].kind = "LongPolling" /\ transport[i].state = "connecting" /\ stop' = stop
          /\ (status = 200 => Becomes(Opened(i)))
      BY <2>3 DEF FirstPoll, Is
    <3>2. ~setup.skipNegotiation
      BY <3>1, TInvFacts, RefinesFacts DEF RefinesInv, Lean
    <3>3. status = 200
      BY <2>3, <3>2, RefinesFacts DEF PollsGoOn, TInv
    <3>4. QED
      BY <3>1, <3>3, SettledMoves DEF Opened
  <2>4. ASSUME NEW ok \in BOOLEAN, Deleted(i, ok)
        PROVE  FALSE
    BY <2>4, DeletedMoves
  <2>5. QED
    BY <1>1, <2>1, <2>2, <2>3, <2>4 DEF Settles
<1>2. ASSUME NEW i \in Transport, SocketCloses(i) \/ EventSourceCloses(i) \/ PollsEnd(i)
      PROVE  FALSE
  BY <1>2, ClosesMoves DEF SocketCloses, EventSourceCloses, PollsEnd, Is
<1>3. ~UNCHANGED <<conn, start, transport, stop, setup>>
  <2>1. Typed(Client) /\ Lives(Client)
    BY TInvFacts, RefinesFacts
  <2>2. Keeps(Client, Client)
    BY <2>1, SameMoves
  <2>3. UNCHANGED <<conn, start, transport, stop, setup>> => Becomes(Client) /\ StopsGoOn
    BY SameStops DEF Becomes, Client
  <2>4. QED
    BY <2>1, <2>2, <2>3 DEF Moved, Moves
<1>a. ~UNCHANGED vars
  BY <1>3 DEF vars
<1>4. CASE GoesOn
  BY <1>4, ConnectedMoves, RefusedMoves, StartStoppedMoves, StopTransportMoves,
     TransportStoppedMoves DEF GoesOn
<1>5. CASE Answers
  BY <1>5, RenegotiatedMoves, NegotiationFailsMoves, NegotiatedMoves DEF Answers
<1>6. QED
  BY <1>1, <1>2, <1>3, <1>a, <1>4, <1>5, StartMoves, SendMoves, LateSteps DEF Next

LEMMA ClientBecomes ==
  ASSUME NEW d, Typed(d), Becomes(d)
  PROVE  Client' = d
BY DEF Typed, Becomes, Client

\* The variables of Connection are those of the client.
LEMMA Mapped ==
  ASSUME Typed(Client), NEW d, Becomes(d), StopsGoOn, Moves(Client, d)
  PROVE  [Contract!Next]_(Contract!vars)
<1> DEFINE phase == IF start.pc # "idle" THEN "opening" ELSE IF conn.started THEN "up" ELSE "off"
           stopping == conn.state = "Disconnecting" \/ start.pc = "stopped"
           awaits == [s \in Stops |-> stop[s].awaits]
<1>1. phase = Phase(Client) /\ (stopping <=> Stopping(Client))
  BY DEF Phase, Stopping, Client
<1>2. phase' = Phase(d) /\ (stopping' <=> Stopping(d))
  BY DEF Phase, Stopping, Becomes
<1>3. awaits' = awaits
  BY DEF StopsGoOn
<1>4. conn.closes \in Nat /\ conn.ends \in Nat /\ Client.conn = conn /\ conn' = d.conn
  BY DEF Typed, ConnType, Client, Becomes
<1>5. /\ Contract!vars = <<phase, stopping, conn.closes, conn.ends, awaits>>
      /\ Contract!vars' = <<phase, stopping, conn.closes, conn.ends, awaits>>'
  BY DEF Contract!vars
<1>6. Contract!Start <=> /\ phase = "off" /\ phase' = "opening"
                         /\ UNCHANGED <<stopping, conn.closes, conn.ends, awaits>>
  BY DEF Contract!Start
<1>7. Contract!Opened <=> /\ phase = "opening" /\ ~stopping /\ phase' = "up"
                          /\ UNCHANGED <<stopping, conn.closes, conn.ends, awaits>>
  BY DEF Contract!Opened
<1>8. Contract!Failed <=> /\ phase = "opening" /\ phase' = "off"
                          /\ stopping' = FALSE /\ conn'.ends = conn.ends + 1
                          /\ UNCHANGED <<conn.closes, awaits>>
  BY DEF Contract!Failed
<1>9. Contract!Closed <=> /\ phase = "up" /\ phase' \in {"off", "opening"}
                          /\ stopping' = FALSE /\ conn'.closes = conn.closes + 1
                          /\ conn'.ends = conn.ends + 1 /\ UNCHANGED awaits
  BY DEF Contract!Closed
<1>10. stopping \in BOOLEAN /\ stopping' \in BOOLEAN
  OBVIOUS
<1> HIDE DEF phase, stopping, awaits
<1>11. CASE Keeps(Client, d)
  <2>1. conn'.closes = conn.closes /\ conn'.ends = conn.ends
    BY <1>4, <1>11 DEF Keeps, Calls
  <2>2. phase' = phase /\ stopping' = stopping
    BY <1>1, <1>2, <1>10, <1>11 DEF Keeps
  <2>3. QED
    BY <1>3, <1>5, <2>1, <2>2
<1>12. CASE Begins(Client, d)
  <2>1. conn'.closes = conn.closes /\ conn'.ends = conn.ends
    BY <1>4, <1>12 DEF Begins, Calls
  <2>2. phase = "off" /\ phase' = "opening" /\ stopping' = stopping
    BY <1>1, <1>2, <1>10, <1>12 DEF Begins
  <2>3. Contract!Start
    BY <1>3, <1>6, <2>1, <2>2
  <2>4. QED
    BY <2>3 DEF Contract!Next
<1>13. CASE Opens(Client, d)
  <2>1. conn'.closes = conn.closes /\ conn'.ends = conn.ends
    BY <1>4, <1>13 DEF Opens, Calls
  <2>2. phase = "opening" /\ phase' = "up" /\ ~stopping /\ stopping' = stopping
    BY <1>1, <1>2, <1>10, <1>13 DEF Opens
  <2>3. Contract!Opened
    BY <1>3, <1>7, <2>1, <2>2
  <2>4. QED
    BY <2>3 DEF Contract!Next
<1>14. CASE Fails(Client, d)
  <2>1. conn'.closes = conn.closes /\ conn'.ends = conn.ends + 1
    BY <1>4, <1>14 DEF Fails, Calls
  <2>2. phase = "opening" /\ phase' = "off" /\ stopping' = FALSE
    BY <1>1, <1>2, <1>10, <1>14 DEF Fails
  <2>3. Contract!Failed
    BY <1>3, <1>8, <2>1, <2>2
  <2>4. QED
    BY <2>3 DEF Contract!Next
<1>15. CASE Ends(Client, d)
  <2>1. conn'.closes = conn.closes + 1 /\ conn'.ends = conn.ends + 1
    BY <1>4, <1>15 DEF Ends, Calls
  <2>2. phase = "up" /\ phase' \in {"off", "opening"} /\ stopping' = FALSE
    BY <1>1, <1>2, <1>10, <1>15 DEF Ends
  <2>3. Contract!Closed
    BY <1>3, <1>9, <2>1, <2>2
  <2>4. QED
    BY <2>3 DEF Contract!Next
<1>16. QED
  BY <1>11, <1>12, <1>13, <1>14, <1>15 DEF Moves

\* A step that is not a call of stop() beginning or ending.
LEMMA MovedRefines ==
  ASSUME RefinesInv, Moved
  PROVE  [Contract!Next]_(Contract!vars) /\ Lives(Client)' /\ AwaitsWell'
<1>1. PICK d : Typed(d) /\ Becomes(d) /\ Lives(d) /\ Moves(Client, d) /\ StopsGoOn
  BY DEF Moved
<1>2. Typed(Client) /\ Client.conn = conn /\ StopTyped
  BY TInvFacts, RefinesFacts
<1>3. Client' = d /\ conn' = d.conn
  BY <1>1, ClientBecomes DEF Becomes
<1>4. Lives(Client)'
  BY <1>1, <1>3 DEF Lives
<1>5. /\ d.conn.ends = conn.ends /\ (Stopping(Client) => Stopping(d))
      \/ d.conn.ends = conn.ends + 1
  BY <1>1, <1>2 DEF Moves, Keeps, Begins, Opens, Fails, Ends, Calls, Typed, ConnType
<1>6. conn.ends \in Nat /\ \A s \in Stops : stop[s].awaits \in Nat
  BY <1>2 DEF Typed, ConnType, StopTyped
<1>7. Stopping(Client)' <=> Stopping(d)
  BY <1>3 DEF Stopping
<1>8. AwaitsWell'
  <2> SUFFICES ASSUME NEW s \in Stops
               PROVE  /\ stop'[s].awaits <= conn'.ends + 1
                      /\ stop'[s].awaits = conn'.ends + 1 => Stopping(Client)'
                      /\ stop'[s].pc = "none" => stop'[s].awaits = 0
                      /\ stop'[s].pc \in BusyStop => stop'[s].awaits # 0
    BY DEF AwaitsWell
  <2>1. /\ stop[s].awaits <= conn.ends + 1
        /\ stop[s].awaits = conn.ends + 1 => Stopping(Client)
        /\ stop[s].pc = "none" => stop[s].awaits = 0
        /\ stop[s].pc \in BusyStop => stop[s].awaits # 0
    BY DEF RefinesInv, AwaitsWell
  <2>2. /\ stop'[s].awaits = stop[s].awaits
        /\ stop'[s].pc = "none" => stop[s].pc = "none"
        /\ stop'[s].pc \in BusyStop => stop[s].pc \in BusyStop
    BY <1>1 DEF StopsGoOn
  <2>3. QED
    BY <1>3, <1>5, <1>6, <1>7, <2>1, <2>2
<1>9. QED
  BY <1>1, <1>2, <1>4, <1>8, Mapped

\* stop() is called: it waits for the next end.
LEMMA StopRefines ==
  ASSUME RefinesInv, NEW s \in Stops, Stop(s)
  PROVE  [Contract!Next]_(Contract!vars) /\ Lives(Client)' /\ AwaitsWell'
<1>1. /\ Typed(Client) /\ Bounded(Client) /\ Plain(Client) /\ Lives(Client) /\ StopTyped
      /\ Client.conn = conn /\ Client.start = start /\ Client.transport = transport
      /\ stop[s].pc = "none" /\ conn.state # "Disconnected" /\ start' = start
      /\ stop[s].awaits = 0
  BY TInvFacts, RefinesFacts DEF Stop, AwaitsWell
<1>2. conn.ends \in Nat /\ conn.closes \in Nat
  BY <1>1 DEF Typed, ConnType
<1>3. PICK pc \in {"stopping", "starting"} : 
         stop' = [stop EXCEPT ![s] = [pc |-> pc, awaits |-> conn.ends + 1, transport |-> NoTransport]]
  BY DEF Stop
<1>4. /\ conn'.state = "Disconnecting" /\ (conn'.stopPending <=> TRUE)
      /\ conn'.started = conn.started /\ conn'.closes = conn.closes /\ conn'.ends = conn.ends
  <2>1. CASE conn.state = "Disconnecting"
    BY <1>1, <2>1 DEF Stop, Lives
  <2>2. CASE conn.state # "Disconnecting"
    <3>1. conn' = [conn EXCEPT !.state = "Disconnecting", !.stopPending = TRUE]
      BY <2>2 DEF Stop
    <3>2. QED
      BY <1>1, <3>1 DEF Typed, ConnType
  <2>3. QED
    BY <2>1, <2>2
<1>5. start.pc # "idle" \/ conn.started
  BY <1>1 DEF Plain, Starting, Lives, Typed, ConnType
<1>6. Lives(Client)'
  BY <1>1, <1>4, <1>5 DEF Lives, Client
<1>7. AwaitsWell'
  <2>1. conn'.ends = conn.ends /\ Stopping(Client)'
    BY <1>4 DEF Stopping, Client
  <2>2. \A r \in Stops : /\ stop[r].awaits <= conn.ends + 1
                         /\ stop[r].pc = "none" => stop[r].awaits = 0
                         /\ stop[r].pc \in BusyStop => stop[r].awaits # 0
    BY DEF RefinesInv, AwaitsWell
  <2>3. \A r \in Stops \ {s} : stop'[r] = stop[r]
    BY <1>1, <1>3 DEF StopTyped
  <2>4. stop'[s].awaits = conn.ends + 1 /\ stop'[s].pc # "none"
    BY <1>1, <1>3 DEF StopTyped
  <2>5. QED
    BY <1>2, <2>1, <2>2, <2>3, <2>4 DEF AwaitsWell
<1>8. Contract!Stop(s)
  <2>1. [r \in Stops |-> stop'[r].awaits]
          = [[r \in Stops |-> stop[r].awaits] EXCEPT ![s] = conn.ends + 1]
    BY <1>1, <1>3 DEF StopTyped
  <2>2. (IF start.pc # "idle" THEN "opening" ELSE IF conn.started THEN "up" ELSE "off") # "off"
    BY <1>5
  <2>3. (conn'.state = "Disconnecting" \/ start'.pc = "stopped") = TRUE
    BY <1>4
  <2>4. QED
    BY <1>1, <1>4, <2>1, <2>2, <2>3 DEF Contract!Stop
<1>9. QED
  BY <1>6, <1>7, <1>8 DEF Contract!Next

\* stop() returns: the end it waited for has come.
LEMMA StopReturnsRefines ==
  ASSUME RefinesInv, NEW s \in Stops, StopReturns(s)
  PROVE  [Contract!Next]_(Contract!vars) /\ Lives(Client)' /\ AwaitsWell'
<1>1. /\ Typed(Client) /\ Lives(Client) /\ StopTyped /\ Client.conn = conn /\ Client.start = start
      /\ stop[s].pc = "stopping" /\ ~conn.stopPending /\ start.pc # "stopped"
      /\ UNCHANGED <<conn, start, transport>>
      /\ stop' = [stop EXCEPT ![s] = [pc |-> "done", awaits |-> 0, transport |-> NoTransport]]
  BY TInvFacts, RefinesFacts DEF StopReturns, StartReady
<1>2. conn.ends \in Nat /\ stop[s].awaits \in Nat
  BY <1>1 DEF Typed, ConnType, StopTyped
<1>3. Client' = Client
  BY <1>1 DEF Client
<1>4. ~Stopping(Client)
  BY <1>1 DEF Stopping, Lives
<1>5. /\ stop[s].awaits <= conn.ends + 1 /\ stop[s].awaits # conn.ends + 1
      /\ stop[s].awaits # 0
  BY <1>1, <1>4 DEF RefinesInv, AwaitsWell, BusyStop
<1>6. Lives(Client)'
  BY <1>1, <1>3 DEF Lives
<1>7. AwaitsWell'
  <2>1. stop'[s].awaits = 0 /\ stop'[s].pc = "done" /\ \A r \in Stops \ {s} : stop'[r] = stop[r]
    BY <1>1 DEF StopTyped
  <2>2. Stopping(Client)' <=> Stopping(Client)
    BY <1>3
  <2>3. conn' = conn
    BY <1>1
  <2>4. \A r \in Stops : /\ stop[r].awaits <= conn.ends + 1
                         /\ stop[r].awaits = conn.ends + 1 => Stopping(Client)
                         /\ stop[r].pc = "none" => stop[r].awaits = 0
                         /\ stop[r].pc \in BusyStop => stop[r].awaits # 0
    BY <1>1 DEF RefinesInv, AwaitsWell
  <2>5. QED
    BY <1>2, <2>1, <2>2, <2>3, <2>4 DEF AwaitsWell, BusyStop
<1>8. Contract!Return(s)
  <2>1. [r \in Stops |-> stop'[r].awaits] = [[r \in Stops |-> stop[r].awaits] EXCEPT ![s] = 0]
    BY <1>1 DEF StopTyped
  <2>2. [r \in Stops |-> stop[r].awaits][s] \in 1 .. conn.ends
    BY <1>2, <1>5
  <2>3. QED
    BY <1>1, <2>1, <2>2 DEF Contract!Return
<1>9. QED
  BY <1>6, <1>7, <1>8 DEF Contract!Next

LEMMA InitRefines == Init => RefinesInv
<1> SUFFICES ASSUME Init
             PROVE  RefinesInv
  OBVIOUS
<1>1. Lives(Client)
  BY DEF Init, Client, Lives
<1>2. AwaitsWell
  BY DEF Init, AwaitsWell, BusyStop, Client
<1>3. QED
  BY <1>1, <1>2, InitIInv, InitLean DEF RefinesInv, IInv

LEMMA StepRefines ==
  ASSUME PollsGoOn, RefinesInv, LateTyped, [Next]_vars, Undisturbed'
  PROVE  [Contract!Next]_(Contract!vars) /\ RefinesInv'
<1>1. [Contract!Next]_(Contract!vars) /\ Lives(Client)' /\ AwaitsWell'
  BY StopsMove, MovedRefines, StopRefines, StopReturnsRefines
<1>2. TInv' /\ UNCHANGED setup
  BY StepTInv, SetupFixed DEF RefinesInv
<1>3. CASE setup.skipNegotiation
  BY <1>1, <1>2, <1>3, StepLean DEF RefinesInv
<1>4. CASE ~setup.skipNegotiation
  <2>1. OrdinarySetup(setup)
    BY <1>4 DEF PollsGoOn, OrdinarySetup, RefinesInv, TInv
  <2>2. Inductive'
    BY <1>4, <2>1, StepInductive DEF RefinesInv, IInv
  <2>3. QED
    BY <1>1, <1>2, <1>4, <2>2 DEF RefinesInv
<1>5. QED
  BY <1>3, <1>4

RefinesUntil == TInv /\ LateTyped /\ (Undisturbed => RefinesInv)

LEMMA StepRefinesUntil ==
  ASSUME PollsGoOn, RefinesUntil, [Next]_vars
  PROVE  RefinesUntil' /\ (Undisturbed' => [Contract!Next]_(Contract!vars))
<1>1. TInv' /\ LateTyped' /\ (Undisturbed' => Undisturbed)
  BY StepTInv, StepLate DEF RefinesUntil
<1>2. Undisturbed' => RefinesInv' /\ [Contract!Next]_(Contract!vars)
  BY <1>1, StepRefines DEF RefinesUntil
<1>3. QED
  BY <1>1, <1>2 DEF RefinesUntil

\* HubConnection may rely on Connection, whatever the options, the server's offers, the
\* faults and the number of calls, unless a first poll ends the polls: start() settles
\* once, onclose is called once for every start that succeeded and for no other, and
\* stop() returns only when the connection it found has ended; until an event source
\* that start() had given up opens late and ends.
THEOREM ConnectionImplemented ==
  ASSUME PollsGoOn
  PROVE  Spec => ImplementsConnection
<1>1. Init => Contract!Init
  BY DEF Init, Contract!Init
<1>2. Init => RefinesUntil
  BY InitRefines DEF RefinesUntil, RefinesInv, Init, LateTyped, LateState
<1>3. ASSUME RefinesUntil, [Next]_vars
      PROVE  RefinesUntil' /\ [Undisturbed' => Contract!Next]_(Contract!vars)
  BY <1>3, StepRefinesUntil
<1>4. QED
  BY <1>1, <1>2, <1>3, PTL DEF Spec, ImplementsConnection

=============================================================================

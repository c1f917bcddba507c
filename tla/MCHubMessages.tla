--------------------------- MODULE MCHubMessages ---------------------------
(***************************************************************************)
(* Instances of HubMessages and MessagePackHubProtocol for TLC: what is    *)
(* said over a connection, and how it is put into bytes.  A behaviour      *)
(* parses one batch, and if that is empty goes on with HubMessages.        *)
(***************************************************************************)
EXTENDS HubMessages, MessagePackHubProtocol

Of(kind, upload) == [kind |-> kind, upload |-> upload]

Base == [calls |-> <<>>, posts |-> TRUE, asks |-> 0, expects |-> TRUE]

StreamAndInvoke == [Base EXCEPT !.calls = <<Of("stream", 0), Of("invoke", 0)>>]
Uploads == [Base EXCEPT !.calls = <<Of("invoke", 1)>>]
InvokeAndSend == [Base EXCEPT !.calls = <<Of("invoke", 0), Of("send", 1)>>]
OverSocket == [Base EXCEPT !.calls = <<Of("invoke", 1)>>, !.posts = FALSE]
Asked == [Base EXCEPT !.asks = 2, !.posts = FALSE]
Told == [Base EXCEPT !.asks = 1, !.expects = FALSE]

MessageSetups == {StreamAndInvoke, Uploads, InvokeAndSend, OverSocket, Asked, Told}

-----------------------------------------------------------------------------
A == Str(<<97>>)
Pi == Str(<<207, 128>>)
Long(n) == [i \in 1 .. n |-> 97]

\* Messages the client writes.
AnInvocation == [type |-> MessageType.Invocation, invocationId |-> A, target |-> Pi,
           arguments |-> Arr(<<Num(200), Map(<<<<A, Nil>>, <<Pi, Bool(TRUE)>>>>)>>), streamIds |-> Arr(<<A>>)]
SendOnly == [AnInvocation EXCEPT !.invocationId = Undefined, !.arguments = Arr(<<>>),
                                !.streamIds = Undefined]
AStream == [AnInvocation EXCEPT !.type = MessageType.StreamInvocation]
AnItem == [type |-> MessageType.StreamItem, invocationId |-> A, item |-> Num(-33)]
Void == [type |-> MessageType.Completion, invocationId |-> A, error |-> Undefined, result |-> Undefined]
Failure == [Void EXCEPT !.error = Pi]
Result == [Void EXCEPT !.result = Bin(<<1, 2>>)]
APing == [type |-> MessageType.Ping]
Cancel == [type |-> MessageType.CancelInvocation, invocationId |-> A]

\* What this client reads of a message like those it writes.
ReadBack == {MessageType.Invocation, MessageType.StreamItem, MessageType.Completion, MessageType.Ping}
Read(m) == [f \in DOMAIN m \ {"streamIds"} |-> m[f]]

Messages(ms) ==
  [values |-> [i \in DOMAIN ms |-> Payload(ms[i])],
   means |-> FlattenSeq([i \in DOMAIN ms |-> IF ms[i].type \in ReadBack THEN <<Read(ms[i])>> ELSE <<>>])]

\* Messages only the server writes: close, and a completion of a later version.
Closes == [type |-> MessageType.Close, error |-> Nil, allowReconnect |-> Bool(TRUE)]
CloseIt == Arr(<<Num(MessageType.Close), Nil, Bool(TRUE)>>)
Later == Arr(<<Num(MessageType.Completion), Nil, A, Num(VoidResult), A, A>>)

Plus(b, value, meaning) ==
  [values |-> Append(b.values, value), means |-> Append(b.means, meaning)]

Written == {Plus(Messages(<<m>>), CloseIt, Closes) :
              m \in {AnInvocation, SendOnly, AStream, AnItem, Void, Failure, Result, APing, Cancel}}
           \cup {Messages(<<AnInvocation, APing>>), Plus(Messages(<<AnItem>>), Later, Void)}

\* Numbers and sizes at the boundaries of their forms.
Numbers == {0, 127, 128, 255, 256, 65535, 65536, MaxSize,
            -1, -32, -33, -128, -129, -32768, -32769, -MaxSize}
Items == {Num(n) : n \in Numbers}
         \cup {Str(Long(n)) : n \in {0, 1}} \cup {Bin(Long(n)) : n \in {0, 2}}
         \cup {Ext(-1, Long(n)) : n \in {3, 4, 8}} \cup {Wide(203, Long(8)), Wide(202, Long(4))}
Sizes == {Str(Long(n)) : n \in {31, 32, 255, 256}} \cup {Bin(Long(n)) : n \in {127, 255, 256}}
         \cup {Ext(5, Long(n)) : n \in {16, 17, 256}}
         \cup {Arr([i \in 1 .. n |-> Nil]) : n \in {15, 16}}
         \cup {Map([i \in 1 .. n |-> <<Num(i), Nil>>]) : n \in {0, 15, 16}}

\* A dictionary of the server whose keys are Booleans.
Flags == Map(<<<<Bool(TRUE), A>>>>)

B == Str(<<98>>)
Keyed(k) == Map(<<<<k, A>>>>)
Streams == {<<Arr(<<Num(300), Keyed(A)>>), Keyed(B), Keyed(Pi), Keyed(A)>>,
            <<Str(Long(2)), Arr(<<Arr(<<>>), Bin(<<1>>), Ext(-1, Long(4))>>), Num(70000)>>}

Carries(v) == Messages(<<[AnItem EXCEPT !.item = v]>>)
Values(vs) == [values |-> vs, means |-> vs]

Sent(bs, framed, cuts) ==
  {[values |-> b.values, means |-> b.means, framed |-> framed, cut |-> cut] : b \in bs, cut \in cuts}

\* A batch of no message, after which a behaviour goes on with HubMessages.
Nothing == [values |-> <<>>, means |-> <<>>, framed |-> TRUE, cut |-> 0]

All == {Nothing}
       \cup Sent(Written \cup {Carries(Flags)}, TRUE, {0, 1, 5, 9})
       \cup Sent({Carries(v) : v \in Sizes}, TRUE, {0, 1, 260})
       \cup Sent({Values(<<v>>) : v \in Items} \cup {Values(vs) : vs \in Streams}, FALSE, {0, 1})

-----------------------------------------------------------------------------
ClientInit == Init /\ ParserInit /\ (setup = Asked \/ batch = Nothing)

ClientNext ==
  \/ Init /\ ParserNext /\ UNCHANGED vars
  \/ batch = Nothing /\ parser.phase = "done" /\ Next /\ UNCHANGED parserVars

ClientSpec ==
  /\ ClientInit /\ [][ClientNext]_<<vars, parserVars>>
  /\ Fairness /\ ParserFairness

-----------------------------------------------------------------------------
\* The fields of the client, and the decoder with its cache of keys, keep their types.
ClientTypeOK == TypeOK /\ ParserTypeOK

\* Every call, every ask and every batch that was received comes to an end.
EverythingSettles == EveryCallSettles /\ ParsingEnds
=============================================================================

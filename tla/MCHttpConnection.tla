--------------------------- MODULE MCHttpConnection ---------------------------
(***************************************************************************)
(* Instances of HttpConnection for TLC.                                    *)
(***************************************************************************)
EXTENDS HttpConnection

WS == [transport |-> "WebSockets", formats |-> {"Text", "Binary"}]
SSE == [transport |-> "ServerSentEvents", formats |-> {"Text"}]
LP == [transport |-> "LongPolling", formats |-> {"Text", "Binary"}]

Everything ==
  [offer |-> <<WS, SSE, LP>>, allowed |-> Kind, format |-> "Text",
   skipNegotiation |-> FALSE, restartsInside |-> FALSE, firstPolls |-> {200}, deleteFails |-> TRUE]

\* The page: MessagePack is binary, which rules out server-sent events.
Page == [Everything EXCEPT !.format = "Binary", !.restartsInside = TRUE, !.deleteFails = FALSE]

Skips == [Everything EXCEPT !.skipNegotiation = TRUE, !.allowed = {"WebSockets"}]
SkipsInVain == [Everything EXCEPT !.skipNegotiation = TRUE]

\* A server that puts server-sent events first: two endpoints follow one that may open late.
EventsFirst == [Everything EXCEPT !.offer = <<SSE, WS, LP>>, !.deleteFails = FALSE]

AllSetups == {Everything, EventsFirst, Page, Skips, SkipsInVain}
=============================================================================

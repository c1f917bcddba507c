--------------------------- MODULE MCHubConnection ---------------------------
(***************************************************************************)
(* Instances of HubConnection for TLC.                                     *)
(***************************************************************************)
EXTENDS HubConnection

\* Index.cshtml asks for the transports in the order the server lists them.
PageOverWebSockets ==
  [app |-> "page", transports |-> {"WebSockets"}, slowPosts |-> FALSE]
\* The same page with the JSON protocol, where no socket can be opened.
PageOverEvents ==
  [app |-> "page", transports |-> {"ServerSentEvents"}, slowPosts |-> FALSE]
CallerOverAny ==
  [app |-> "caller", transports |-> {"WebSockets", "LongPolling"}, slowPosts |-> FALSE]
PagesAndCaller == {PageOverWebSockets, PageOverEvents, CallerOverAny}
=============================================================================

---------------------------- MODULE MCReconnect ----------------------------
(***************************************************************************)
(* Two connections, a unary call, a stream and two listeners.  A plan says *)
(* which of them a behaviour uses and how the client is stopped.           *)
(***************************************************************************)
EXTENDS Reconnect

CONSTANTS unary, stream, lx, ly

MCConns == 1 .. 2
MCCalls == {unary, stream}
MCStreams == {stream}
MCListeners == {lx, ly}

Plan(begin, calls, ls, leavers) ==
  [begin |-> begin, calls |-> calls, listeners |-> ls, leavers |-> leavers,
   events |-> {TRUE}, breaks |-> TRUE, goaway |-> FALSE, stop |-> {}]

\* Calls while the server drains, the client drains or closes, and the
\* connection breaks.
Stopping ==
  {[Plan("connect", {unary}, {}, {}) EXCEPT !.goaway = TRUE],
   [Plan("connect", {unary}, {}, {}) EXCEPT !.stop = {"drain", "close"}],
   [Plan("connect", {stream}, {}, {}) EXCEPT !.stop = {"drain", "close"}],
   [Plan("start", MCCalls, {}, {}) EXCEPT !.stop = {"close"}, !.breaks = FALSE]}

\* Listeners come and go while the client reconnects.
Subscribing == {Plan("connect", {}, MCListeners, MCListeners)}

\* Some servers have no events.
Eventless == {[Plan("start", {}, {lx}, {}) EXCEPT !.events = BOOLEAN, !.stop = {"close"}]}

MCPlans == Stopping \cup Subscribing \cup Eventless
=============================================================================

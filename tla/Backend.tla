------------------------------ MODULE Backend ------------------------------
(***************************************************************************)
(* The part of a Backend object that connection handlers, Reconfigure,     *)
(* Shutdown and Stop share (proxy/backend.go, proxy/http.go): the          *)
(* in-flight count, the shutdown flag, the internal HTTP server and the    *)
(* unbuffered channel that feeds connections to it.                        *)
(*                                                                         *)
(*   server    be.httpServer # nil                                         *)
(*   chan      be.httpConnChan; closing it a second time, or while nil,    *)
(*             is a run-time panic, kept as the value "panic"              *)
(*   shutdown  be.state.shutdown                                           *)
(*   inFlight  be.state.inFlight (an int: it may go below zero)            *)
(*   stopping  httpServer.Shutdown or httpServer.Close has been started,   *)
(*             on a goroutine of its own                                   *)
(*   listener  the proxyListener: "accepting" while Serve loops on Accept, *)
(*             "closing" once closed with Serve still in its loop, and     *)
(*             "drained" when only the goroutine that discards what is     *)
(*             still sent on the channel reads from it                     *)
(*                                                                         *)
(* Every method runs under be.state.mu, so each is one operator on the     *)
(* record.  A backend whose mode needs no HTTP server keeps server FALSE,  *)
(* chan "nil" and listener "none".                                         *)
(***************************************************************************)
EXTENDS Integers

ChanState == {"nil", "open", "closed", "panic"}
ListenerState == {"none", "accepting", "closing", "drained"}

BackendState ==
    [server : BOOLEAN, chan : ChanState, shutdown : BOOLEAN, inFlight : Int,
     stopping : BOOLEAN, listener : ListenerState]

\* A backend as Reconfigure leaves it before it is published.
NewBackend(isHTTP) ==
    [server   |-> isHTTP,
     chan     |-> IF isHTTP THEN "open" ELSE "nil",
     shutdown |-> FALSE,
     inFlight |-> 0,
     stopping |-> FALSE,
     listener |-> IF isHTTP THEN "accepting" ELSE "none"]

\* close(ch)
CloseChan(ch) == IF ch = "open" THEN "closed" ELSE "panic"

\* A variant in which the server is not set to nil after the channel is closed.
ReleaseServerKeepsIt(r) == [r EXCEPT !.chan = CloseChan(@)]

\* close(be.httpConnChan); be.httpServer = nil
ReleaseServer(r) == [r EXCEPT !.chan = CloseChan(@), !.server = FALSE]

\* A variant of incInFlight without the check that closes the channel.
IncInFlightOnly(r, delta) == [r EXCEPT !.inFlight = @ + delta]

\* incInFlight(delta): the last connection of a backend that is shutting down
\* closes the channel.
IncInFlight(r, delta) ==
    LET n == [r EXCEPT !.inFlight = @ + delta]
    IN  IF n.inFlight = 0 /\ n.shutdown /\ n.server THEN ReleaseServer(n) ELSE n

\* be.close(ctx), ctx # nil: stop accepting, release the server now if nothing
\* is in flight and otherwise leave that to incInFlight.
CloseGraceful(r) ==
    LET s == [r EXCEPT !.stopping = TRUE, !.shutdown = TRUE]
    IN  IF ~r.server THEN r
        ELSE IF r.inFlight = 0 THEN ReleaseServer(s) ELSE s

\* A variant of be.close(nil) that does not look at be.httpServer first.
CloseNowAlways(r) == ReleaseServer([r EXCEPT !.stopping = TRUE])

\* be.close(nil): release the server whatever is in flight.
CloseNow(r) ==
    IF ~r.server THEN r ELSE ReleaseServer([r EXCEPT !.stopping = TRUE])

\* http.Server.Shutdown and Close close the listener, which starts the
\* goroutine that discards whatever is sent on the channel.
CanCloseListener(r) == r.stopping /\ r.listener = "accepting"
CloseListener(r) == [r EXCEPT !.listener = "closing"]

\* Accept reports net.ErrClosed, because the listener was closed or because the
\* channel was, and Serve returns.
CanEndServe(r) ==
    \/ r.listener = "closing"
    \/ r.listener = "accepting" /\ r.chan # "open"
EndServe(r) == [r EXCEPT !.listener = "drained"]
=============================================================================

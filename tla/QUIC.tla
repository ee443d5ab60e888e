-------------------------------- MODULE QUIC --------------------------------
(***************************************************************************)
(* QUIC connections (proxy/quic.go, proxy/internal/netw/quic.go) of one    *)
(* backend, and the dialer that they share with the other connections      *)
(* (dial, dialQUICBackend).                                                *)
(*                                                                         *)
(* A connection may end at any time, and a goroutine started by OnClose    *)
(* then runs the close callback, next to the handler that is still         *)
(* counting the connection in.  The handlers of streams have no recover: a *)
(* panic there ends the process.                                           *)
(***************************************************************************)
EXTENDS Backend, FiniteSets

CONSTANTS Conns,     \* connections of clients
          Modes,     \* how the backend serves them: see HasServer and the dialer
          NAddrs,    \* len(be.Addresses)
          MaxOpen,   \* p.cfg.MaxOpen
          None

ASSUME QUICAssumption ==
    /\ Modes \subseteq {"h3", "http", "tcp", "dial"}
    /\ NAddrs \in Nat \ {0} /\ MaxOpen \in Nat
    /\ IsFiniteSet(Conns)

VARIABLES mode, up,   \* the mode of the backend and its addresses that answer
          be,         \* the backend (see Backend)
          published,  \* it is in p.backends
          h3,         \* be.http3Server is not nil
          conn,       \* the connections and their handlers
          inConns,    \* p.inConns
          out,        \* the connections to the backend's addresses
          stream,     \* a stream of each connection, which is being handed to the HTTP
                      \* server or bridged to a stream of another
          outConns,   \* be.outConns
          next        \* be.state.next

vars == <<mode, up, be, published, h3, conn, inConns, out, stream, outConns, next>>

Addrs == 0..(NAddrs - 1)

\* The backend has an HTTP server ("http"), and an HTTP/3 server too ("h3").  Otherwise
\* each stream is bridged to a new TCP connection ("tcp"), or the connection to a QUIC
\* connection ("dial").
HasServer == mode \in {"h3", "http"}

\* pc        where the handler is
\* open      the connection of the client is open
\* hook      OnClose was called ("set") and its callback was run ("run")
\* numOpen   the size of the tracker when the connection was added
\* counted   incInFlight(1) was called; backendKey is annotated
\* early     the callback was run before the backend was annotated
\* late      the backend was released between the lookup and incInFlight(1)
Conn ==
    [pc : {"new", "added", "hooked", "found", "counted", "annotated", "dial", "serve",
           "end", "panic"},
     open : BOOLEAN, hook : {"unset", "set", "run"}, numOpen : 0..Cardinality(Conns),
     counted : BOOLEAN, annotated : BOOLEAN, early : BOOLEAN, late : BOOLEAN]

\* max       attempts left; addr the address that is being dialed
\* crowded   another dialer was given an address between two attempts
Out ==
    [pc : {"none", "draw", "try", "dialed", "added", "failed"}, open : BOOLEAN,
     hook : {"unset", "set", "run"}, max : 0..NAddrs, addr : Addrs \union {None},
     crowded : BOOLEAN, early : BOOLEAN]

NoOut == [pc |-> "none", open |-> FALSE, hook |-> "unset", max |-> 0, addr |-> None,
          crowded |-> FALSE, early |-> FALSE]

NoStream == [pc |-> "none", waited |-> FALSE]

TypeOK ==
    /\ mode \in Modes /\ up \subseteq Addrs
    /\ be \in BackendState /\ published \in BOOLEAN /\ h3 \in BOOLEAN
    /\ conn \in [Conns -> Conn] /\ inConns \subseteq Conns
    /\ stream \in [Conns -> [pc : {"none", "sending", "opening", "bridged"}, waited : BOOLEAN]]
    /\ out \in [Conns -> Out] /\ outConns \subseteq Conns
    /\ next \in Addrs

Init ==
    /\ mode \in Modes /\ up \in SUBSET Addrs
    /\ be = NewBackend(HasServer)
    /\ published = TRUE /\ h3 = (mode = "h3")
    /\ conn = [c \in Conns |-> [pc |-> "new", open |-> TRUE, hook |-> "unset", numOpen |-> 0,
                                counted |-> FALSE, annotated |-> FALSE, early |-> FALSE, late |-> FALSE]]
    /\ out = [c \in Conns |-> NoOut]
    /\ stream = [c \in Conns |-> NoStream]
    /\ inConns = {} /\ outConns = {} /\ next = 0

At(c, pc) == conn[c].pc = pc
Goto(c, pc) == conn' = [conn EXCEPT ![c].pc = pc]

-----------------------------------------------------------------------------
(* handleQUICConnection up to the point where the connection is served.    *)

\* quicAcceptLoop starts the handler, which adds the connection to the tracker.
Accept(c) ==
    /\ At(c, "new")
    /\ inConns' = inConns \union {c}
    /\ conn' = [conn EXCEPT ![c].pc = "added", ![c].numOpen = Cardinality(inConns')]
    /\ UNCHANGED <<mode, up, be, published, h3, out, stream, outConns, next>>

OnClose(c) ==
    /\ At(c, "added")
    /\ conn' = [conn EXCEPT ![c].pc = "hooked", ![c].hook = "set"]
    /\ UNCHANGED <<mode, up, be, published, h3, inConns, out, stream, outConns, next>>

\* A variant in which the callback stays set.
RunKeep(h) == h

\* Close takes the callback, so that it is run once.
Run(h) == "run"

\* The callback: out of the tracker, and out of the count if a backend is annotated.
CloseHook(c, pc) ==
    /\ conn[c].hook = "set"
    /\ inConns' = inConns \ {c}
    /\ be' = IF conn[c].annotated THEN IncInFlight(be, -1) ELSE be
    /\ conn' = [conn EXCEPT ![c].pc = pc, ![c].hook = Run(@), ![c].open = FALSE,
                            ![c].early = ~conn[c].annotated]

\* The connection ends (the client closes it, or it is idle), and the goroutine of
\* OnClose hears of it.
ClientCloses(c) ==
    /\ conn[c].open /\ ~At(c, "new")
    /\ conn' = [conn EXCEPT ![c].open = FALSE]
    /\ UNCHANGED <<mode, up, be, published, h3, inConns, out, stream, outConns, next>>
HookGoroutine(c) ==
    /\ ~conn[c].open
    /\ CloseHook(c, conn[c].pc)
    /\ UNCHANGED <<mode, up, published, h3, out, stream, outConns, next>>

\* The deferred Close of the handler.
Return(c) ==
    \/ /\ CloseHook(c, "end")
       /\ UNCHANGED <<mode, up, published, h3, out, stream, outConns, next>>
    \/ /\ conn[c].hook = "run"
       /\ conn' = [conn EXCEPT ![c].pc = "end", ![c].open = FALSE]
       /\ UNCHANGED <<mode, up, be, published, h3, inConns, out, stream, outConns, next>>

\* The lookup in p.backends, under p.mu.
Lookup(c) ==
    /\ At(c, "hooked")
    /\ IF published
       THEN Goto(c, "found") /\ UNCHANGED <<mode, up, be, published, h3, inConns, out, stream, outConns, next>>
       ELSE Return(c)

Released == HasServer /\ ~be.server

CountIn(c) ==
    /\ At(c, "found")
    /\ be' = IncInFlight(be, 1)
    /\ conn' = [conn EXCEPT ![c].pc = "counted", ![c].counted = TRUE, ![c].late = Released]
    /\ UNCHANGED <<mode, up, published, h3, inConns, out, stream, outConns, next>>

Annotate(c) ==
    /\ At(c, "counted")
    /\ conn' = [conn EXCEPT ![c].pc = "annotated", ![c].annotated = TRUE]
    /\ UNCHANGED <<mode, up, be, published, h3, inConns, out, stream, outConns, next>>

\* Too many connections, a refused address, or a wait for the rate limit that fails
\* because the connection is gone; and otherwise the connection is served.
Refuse(c) ==
    /\ At(c, "annotated")
    /\ Return(c)
Admit(c) ==
    /\ At(c, "annotated") /\ conn[c].numOpen < MaxOpen
    /\ IF mode = "dial"
       THEN /\ Goto(c, "dial")
            /\ out' = [out EXCEPT ![c].pc = "draw"]
       ELSE /\ Goto(c, "serve")
            /\ UNCHANGED out
    /\ UNCHANGED <<mode, up, be, published, h3, inConns, stream, outConns, next>>

-----------------------------------------------------------------------------
(* The connection is served.                                               *)

\* A stream of the client is accepted and its handler (handleQUICTCPStream) started, one at
\* a time: also when the HTTP/3 server of the backend is gone.
AcceptStream(c) ==
    /\ At(c, "serve") /\ conn[c].open
    /\ HasServer /\ ~h3
    /\ stream[c] = NoStream
    /\ stream' = [stream EXCEPT ![c] = [pc |-> "sending", waited |-> TRUE]]
    /\ UNCHANGED <<mode, up, be, published, h3, conn, inConns, out, outConns, next>>

\* The handler hands it to the HTTP server of the backend.  It panics if the channel is
\* closed before the server, or who empties the channel after it, has received the stream.
SendStream(c) ==
    /\ stream[c].pc = "sending"
    /\ stream' = [stream EXCEPT ![c] = NoStream]
    /\ be.chan = "open" => UNCHANGED conn
    /\ be.chan # "open" => Goto(c, "panic")
    /\ UNCHANGED <<mode, up, be, published, h3, inConns, out, outConns, next>>

\* A stream that is bridged to a TCP connection, one at a time: its handler dials, and
\* closes the TCP connection in the end.
TCPStream(c) ==
    /\ At(c, "serve") /\ conn[c].open
    /\ mode = "tcp" /\ out[c].pc = "none"
    /\ out' = [out EXCEPT ![c].pc = "draw"]
    /\ UNCHANGED <<mode, up, be, published, h3, conn, inConns, stream, outConns, next>>
EndTCPStream(c) ==
    /\ mode = "tcp" /\ out[c].pc \in {"added", "failed"}
    /\ out' = [out EXCEPT ![c] = NoOut]
    /\ outConns' = outConns \ {c}
    /\ UNCHANGED <<mode, up, be, published, h3, conn, inConns, stream, next>>

\* A stream of either side that is bridged to one of the other side, one at a time
\* (handleQUICQUICStream).  The other stream may be waited for; it is not to be had when
\* the connection is gone.  Nobody waits for a stream of the backend that goes one way:
\* the handler may leave it behind.
StartStream(c, waited) ==
    /\ mode = "dial" /\ At(c, "serve") /\ out[c].pc = "added"
    /\ (conn[c].open /\ waited) \/ out[c].open
    /\ stream[c] = NoStream
    /\ stream' = [stream EXCEPT ![c] = [pc |-> "opening", waited |-> waited]]
    /\ UNCHANGED <<mode, up, be, published, h3, conn, inConns, out, outConns, next>>
BridgeStream(c) ==
    /\ stream[c].pc = "opening" /\ conn[c].open /\ out[c].open
    /\ stream' = [stream EXCEPT ![c].pc = "bridged"]
    /\ UNCHANGED <<mode, up, be, published, h3, conn, inConns, out, outConns, next>>
EndStream(c) ==
    /\ stream[c].pc \in {"opening", "bridged"}
    /\ stream[c].pc = "opening" => ~(conn[c].open /\ out[c].open)
    /\ stream' = [stream EXCEPT ![c] = NoStream]
    /\ UNCHANGED <<mode, up, be, published, h3, conn, inConns, out, outConns, next>>

\* The loops over the connection's streams, or ServeQUICConn, end with the connection;
\* the handlers of the streams are waited for.
EndServing(c) ==
    /\ At(c, "serve") /\ ~conn[c].open
    /\ out[c].pc = "none" /\ stream[c].pc # "sending"
    /\ Return(c)

-----------------------------------------------------------------------------
(* The dialer.                                                             *)

\* A variant that does not start again with the first address.
AfterAny(a) == a + 1

After(a) == (a + 1) % NAddrs

\* An attempt begins: the next address, under be.state.mu.
Draw(c) ==
    /\ out[c].pc = "draw"
    /\ next' = After(next)
    /\ out' = [d \in Conns |->
          IF d = c THEN [out[c] EXCEPT !.pc = "try", !.addr = next,
                                       !.max = IF @ = 0 THEN NAddrs ELSE @]
          ELSE IF out[d].max > 0 /\ out[d].pc \in {"draw", "try"} THEN [out[d] EXCEPT !.crowded = TRUE]
          ELSE out[d]]
    /\ UNCHANGED <<mode, up, be, published, h3, conn, inConns, stream, outConns>>

\* A variant that gives up with an attempt left.
TryAgainOnce(max) == max - 1 > 1

TryAgain(max) == max - 1 > 0

\* The attempt fails: nobody answers there, or the client is gone (ctx).
DialFails(c) ==
    /\ out[c].pc = "try"
    /\ out[c].addr \in up => ~conn[c].open
    /\ out' = [out EXCEPT ![c].max = @ - 1,
                          ![c].pc = IF TryAgain(out[c].max) THEN "draw" ELSE "failed"]
    /\ UNCHANGED <<mode, up, be, published, h3, conn, inConns, stream, outConns, next>>

\* It succeeds, and the callback of the new connection is set.
DialSucceeds(c) ==
    /\ out[c].pc = "try" /\ out[c].addr \in up
    /\ out' = [out EXCEPT ![c].pc = "dialed", ![c].open = TRUE, ![c].hook = "set"]
    /\ UNCHANGED <<mode, up, be, published, h3, conn, inConns, stream, outConns, next>>

\* Then it is added to the tracker.
AddOut(c) ==
    /\ out[c].pc = "dialed"
    /\ outConns' = outConns \union {c}
    /\ out' = [out EXCEPT ![c].pc = "added"]
    /\ Goto(c, "serve")
    /\ UNCHANGED <<mode, up, be, published, h3, inConns, stream, next>>

\* The other side closes it, and the goroutine of OnClose hears of it.  A TCP connection
\* has no such goroutine: its callback is run by Close.
BackendCloses(c) ==
    /\ mode = "dial" /\ out[c].open
    /\ out' = [out EXCEPT ![c].open = FALSE]
    /\ UNCHANGED <<mode, up, be, published, h3, conn, inConns, stream, outConns, next>>
OutHook(c, pc) ==
    /\ out[c].hook = "set"
    /\ outConns' = outConns \ {c}
    /\ out' = [out EXCEPT ![c].hook = "run", ![c].open = FALSE, ![c].pc = pc,
                          ![c].early = out[c].pc = "dialed"]
OutHookGoroutine(c) ==
    /\ mode = "dial" /\ ~out[c].open
    /\ OutHook(c, out[c].pc)
    /\ UNCHANGED <<mode, up, be, published, h3, conn, inConns, stream, next>>

\* The client is gone, and so are the streams that are waited for: the deferred Close of
\* the connection to the backend.
EndOut(c) ==
    /\ mode = "dial" /\ At(c, "serve") /\ ~conn[c].open
    /\ out[c].pc = "added" /\ ~stream[c].waited
    /\ \/ OutHook(c, "none")
       \/ /\ out[c].hook = "run"
          /\ out' = [out EXCEPT ![c].pc = "none", ![c].open = FALSE]
          /\ UNCHANGED outConns
    /\ UNCHANGED <<mode, up, be, published, h3, conn, inConns, stream, next>>

\* No address answered: the handler returns.
Unreachable(c) ==
    /\ At(c, "dial") /\ out[c].pc = "failed"
    /\ Return(c)

-----------------------------------------------------------------------------
(* A new configuration: the backend is closed and replaced, under p.mu.    *)

Reconfigure ==
    /\ published
    /\ published' = FALSE
    /\ be' = CloseGraceful(be)
    /\ h3' = (h3 /\ be.inFlight # 0)
    /\ UNCHANGED <<mode, up, conn, inConns, out, stream, outConns, next>>

-----------------------------------------------------------------------------

Handler(c) ==
    \/ Accept(c) \/ OnClose(c) \/ Lookup(c) \/ CountIn(c) \/ Annotate(c)
    \/ Refuse(c) \/ Admit(c) \/ EndServing(c)
    \/ AcceptStream(c) \/ SendStream(c) \/ TCPStream(c) \/ EndTCPStream(c)
    \/ \E waited \in BOOLEAN : StartStream(c, waited)
    \/ BridgeStream(c) \/ EndStream(c)
Dialer(c) ==
    \/ Draw(c) \/ DialFails(c) \/ DialSucceeds(c) \/ AddOut(c) \/ EndOut(c) \/ Unreachable(c)
Ends(c) == ClientCloses(c) \/ HookGoroutine(c) \/ BackendCloses(c) \/ OutHookGoroutine(c)

Next ==
    \/ \E c \in Conns : Handler(c) \/ Dialer(c) \/ Ends(c)
    \/ Reconfigure

Spec == Init /\ [][Next]_vars

-----------------------------------------------------------------------------

Serving == {c \in Conns : conn[c].annotated /\ conn[c].hook = "set"}
Leaked == {c \in Conns : conn[c].early /\ conn[c].counted}

\* Every connection that has a backend is in its count; what the count has in excess are
\* connections that ended before the backend was annotated, and the few that are counted
\* in and not yet annotated.
InFlightCovers ==
    Cardinality(Serving) + Cardinality(Leaked)
      + Cardinality({c \in Conns : conn[c].pc = "counted" /\ ~conn[c].early}) = be.inFlight

\* The trackers have no connection whose callback was run, but for connections to a
\* backend that ended before they were added.
TrackersForget ==
    /\ \A c \in inConns : conn[c].hook # "run"
    /\ \A c \in outConns : out[c].hook # "run" \/ out[c].early

\* The HTTP servers outlive the connections that are counted in.  A stream finds the
\* channel closed only when the backend was released between lookup and count, or when its
\* connection ended, and was counted out, before the stream was handed over.
ServersOutlive ==
    \A c \in Conns :
        /\ At(c, "panic") /\ ~conn[c].late => conn[c].hook = "run" /\ ~conn[c].early
        /\ conn[c].annotated /\ conn[c].hook = "set" /\ ~conn[c].late => ~Released

\* The count of connections in flight, the trackers and the life of the servers, with
\* connections that end at any step of their handler (handleQUICConnection, OnClose).
ConnsAreCounted == InFlightCovers /\ TrackersForget /\ ServersOutlive

\* A dialer whose client is still there gives up only when no address answers, unless
\* other dialers were given addresses between its attempts (dial, dialQUICBackend).
DialTriesAll ==
    \A c \in Conns :
        out[c].pc = "failed" /\ conn[c].open /\ ~out[c].crowded => up = {}
=============================================================================

---------------------------- MODULE QUIC_proofs ----------------------------
(***************************************************************************)
(* Proofs about QUIC connections, for any number of connections, addresses *)
(* and open connections, and any set of modes.                             *)
(*                                                                         *)
(* The inductive invariant says what the place of a handler tells about    *)
(* its connection (Place), whatever the goroutine of OnClose has done      *)
(* meanwhile; it names the connections that are in the count of the        *)
(* backend (Counted: those that came in and whose callback has not taken   *)
(* them out); and it says how far a dialer has got round the list of       *)
(* addresses (Tried). Counted is what the proof needs: a step adds a       *)
(* connection to that set and one to the count, or takes both away, or     *)
(* neither.  The servers are released when the count is zero, that is when *)
(* nobody is in the set.                                                   *)
(***************************************************************************)
EXTENDS QUIC, FiniteSetTheorems, TLAPS

\* What the place of its handler tells about a connection.  The callback may be run
\* at any step, so that only the flags of the handler follow from its place.
Place(x) ==
    /\ x.pc \in {"new", "added"} <=> x.hook = "unset"
    /\ x.pc \in {"new", "added", "hooked", "found"} => ~x.counted /\ ~x.annotated
    /\ x.pc = "counted" => x.counted /\ ~x.annotated
    /\ x.pc \in {"annotated", "dial", "serve", "panic"} => x.counted /\ x.annotated
    /\ x.pc = "end" => x.hook = "run" /\ (x.counted <=> x.annotated)
    /\ x.early => x.hook = "run"
    /\ x.hook = "run" => ~x.open /\ (x.early \/ x.annotated)
    /\ x.pc = "panic" /\ ~x.late => x.hook = "run" /\ ~x.early

\* The connection was counted in and not counted out: its callback was not run, or
\* was run too early to know of the backend.
InCount(x) == x.counted /\ (x.hook # "run" \/ x.early)

\* The connections that be.inFlight counts.
Counted == {c \in Conns : InCount(conn[c])}

\* The connection channel is open while there is a server.
Sound(r) == r.server <=> r.chan = "open"

\* The handlers and their connections.
Handlers ==
    /\ conn \in [Conns -> Conn]
    /\ \A c \in Conns : Place(conn[c])

\* The count of the backend, and its servers: once they are released, the
\* connections that are still counted came after that.
Count ==
    /\ mode \in Modes
    /\ be \in BackendState /\ Sound(be) /\ published \in BOOLEAN /\ h3 \in BOOLEAN
    /\ be.inFlight = Cardinality(Counted)
    /\ Released => \A c \in Counted : conn[c].late

\* The trackers.
Tracked ==
    /\ inConns \subseteq Conns /\ outConns \subseteq Conns
    /\ TrackersForget

\* How many addresses before a in the round b is.
Dist(b, a) == IF b <= a THEN a - b ELSE a - b + NAddrs

\* A dialer whose client is there, and that nobody came between, has tried every
\* address since its first one, and the next address is the one after its last one.
Tried(open, o) ==
    open /\ ~o.crowded =>
        /\ o.pc = "draw" /\ o.max > 0 =>
              \A b \in Addrs : Dist(b, o.addr) < NAddrs - o.max => b \notin up
        /\ o.pc = "try" =>
              \A b \in Addrs : Dist(b, o.addr) \in 1..(NAddrs - o.max) => b \notin up
        /\ o.pc = "failed" => up = {}
        /\ o.pc \in {"draw", "try"} /\ o.max > 0 => next = After(o.addr)

\* Where the handler is before the connection is served.
Early == {"new", "added", "hooked", "found", "counted", "annotated"}

\* What the place of the handler tells about its dialer.
Dials(pc, o) ==
    /\ pc \in Early => o = NoOut
    /\ mode = "tcp" /\ o.pc = "none" => o = NoOut
    /\ o.pc # "none" => mode \in {"tcp", "dial"}
    /\ o.pc \in {"draw", "try", "dialed"} => pc \in {"dial", "serve"}
    /\ o.pc = "try" => o.max > 0
    /\ o.pc \in {"draw", "try"} /\ o.max > 0 => o.addr \in Addrs
    /\ o.pc = "dialed" /\ o.hook = "run" => o.early

\* The connections to the backend and the streams.
Dialing ==
    /\ out \in [Conns -> Out] /\ next \in Addrs /\ up \subseteq Addrs
    /\ stream \in [Conns -> [pc : {"none", "sending", "opening", "bridged"}, waited : BOOLEAN]]
    /\ \A c \in Conns : Dials(conn[c].pc, out[c]) /\ Tried(conn[c].open, out[c])

\* A stream that is handed to the HTTP server holds its connection's handler, which waits
\* for it.
Sending ==
    \A c \in Conns : stream[c].pc = "sending" => conn[c].pc = "serve" /\ HasServer

\* The inductive invariant, together with Sending.
IndInv == Handlers /\ Count /\ Tracked /\ Dialing

-----------------------------------------------------------------------------
\* incInFlight changes the count by d, and the servers are released only at zero.
LEMMA Counts ==
    ASSUME NEW r \in BackendState, Sound(r), NEW d \in {1, -1}
    PROVE  LET n == IncInFlight(r, d) IN
           /\ n \in BackendState /\ Sound(n) /\ n.inFlight = r.inFlight + d
           /\ n.server => r.server
           /\ r.server /\ ~n.server => n.inFlight = 0
<1> DEFINE n == [r EXCEPT !.inFlight = @ + d]
<1>1. /\ n \in BackendState /\ Sound(n) /\ n.inFlight = r.inFlight + d
      /\ n.server = r.server /\ n.chan = r.chan
  BY DEF BackendState, Sound
<1>2. IncInFlight(r, d) = IF n.inFlight = 0 /\ n.shutdown /\ n.server THEN ReleaseServer(n) ELSE n
  BY DEF IncInFlight
<1> HIDE DEF n
<1>3. /\ ReleaseServer(n) \in BackendState /\ ReleaseServer(n).inFlight = n.inFlight
      /\ ~ReleaseServer(n).server /\ ReleaseServer(n).chan # "open"
  BY <1>1 DEF ReleaseServer, CloseChan, BackendState, ChanState
<1> QED
  BY <1>1, <1>2, <1>3 DEF Sound

\* closing the backend leaves the count, and releases the servers only at zero.
LEMMA Closes ==
    ASSUME NEW r \in BackendState, Sound(r)
    PROVE  LET n == CloseGraceful(r) IN
           /\ n \in BackendState /\ Sound(n) /\ n.inFlight = r.inFlight
           /\ n.server => r.server
           /\ r.server /\ ~n.server => n.inFlight = 0
<1> DEFINE s == [r EXCEPT !.stopping = TRUE, !.shutdown = TRUE]
<1>1. /\ s \in BackendState /\ Sound(s) /\ s.inFlight = r.inFlight
      /\ s.server = r.server /\ s.chan = r.chan
  BY DEF BackendState, Sound
<1>2. CloseGraceful(r) = IF ~r.server THEN r ELSE IF r.inFlight = 0 THEN ReleaseServer(s) ELSE s
  BY DEF CloseGraceful
<1> HIDE DEF s
<1>3. /\ ReleaseServer(s) \in BackendState /\ ReleaseServer(s).inFlight = s.inFlight
      /\ ~ReleaseServer(s).server /\ ReleaseServer(s).chan # "open"
  BY <1>1 DEF ReleaseServer, CloseChan, BackendState, ChanState
<1> QED
  BY <1>1, <1>2, <1>3 DEF Sound

\* The count is a number.
LEMMA CountedIsFinite == IsFiniteSet(Counted) /\ Cardinality(Counted) \in Nat
BY QUICAssumption, FS_Subset, FS_CardinalityType DEF Counted

\* The next address, without the remainder.
LEMMA NextAddress ==
    ASSUME NEW a \in Addrs
    PROVE  After(a) \in Addrs /\ After(a) = IF a = NAddrs - 1 THEN 0 ELSE a + 1
<1>1. NAddrs \in Nat /\ NAddrs > 0 /\ a \in Nat /\ a < NAddrs
  BY QUICAssumption DEF Addrs
<1>2. CASE a = NAddrs - 1
  BY <1>1, <1>2 DEF After, Addrs
<1>3. CASE a # NAddrs - 1
  BY <1>1, <1>3 DEF After, Addrs
<1> QED
  BY <1>2, <1>3

\* The record of a connection changes and its place in the count does not.
LEMMA SameCount ==
    ASSUME Handlers, Count, NEW c \in Conns, NEW x \in Conn, Place(x),
           conn' = [conn EXCEPT ![c] = x], InCount(x) <=> InCount(conn[c]),
           x.late = conn[c].late, UNCHANGED <<mode, be, published, h3>>
    PROVE  Handlers' /\ Count'
<1>1. Handlers'
  BY DEF Handlers
<1>2. Counted' = Counted
  BY DEF Counted, Handlers
<1>3. \A d \in Conns : conn'[d].late = conn[d].late
  BY DEF Handlers
<1> QED
  BY <1>1, <1>2, <1>3 DEF Count, Released, HasServer, Counted

\* A connection is counted in: the servers cannot be released by that.
LEMMA CountsIn ==
    ASSUME Handlers, Count, NEW c \in Conns, NEW x \in Conn, Place(x),
           conn' = [conn EXCEPT ![c] = x], InCount(x), ~InCount(conn[c]),
           x.late = Released, be' = IncInFlight(be, 1), UNCHANGED <<mode, published, h3>>
    PROVE  Handlers' /\ Count'
<1>1. Handlers'
  BY DEF Handlers
<1>2. Counted' = Counted \union {c} /\ c \notin Counted
  BY DEF Counted, Handlers
<1>3. Cardinality(Counted') = Cardinality(Counted) + 1 /\ Cardinality(Counted) \in Nat
  BY <1>2, CountedIsFinite, FS_AddElement
<1>4. /\ be' \in BackendState /\ Sound(be') /\ be'.inFlight = be.inFlight + 1
      /\ be'.server => be.server
      /\ be.server /\ ~be'.server => be'.inFlight = 0
  BY Counts DEF Count
<1>5. be'.server <=> be.server
  BY <1>3, <1>4 DEF Count
<1>6. Released' <=> Released
  BY <1>5 DEF Released, HasServer
<1>7. Released => \A d \in Counted' : conn'[d].late
  BY <1>2 DEF Count, Handlers, Counted
<1> QED
  BY <1>1, <1>3, <1>4, <1>6, <1>7 DEF Count

\* A connection is counted out; if that releases the servers, nobody else is
\* counted.
LEMMA CountsOut ==
    ASSUME Handlers, Count, NEW c \in Conns, NEW x \in Conn, Place(x),
           conn' = [conn EXCEPT ![c] = x], ~InCount(x), InCount(conn[c]),
           be' = IncInFlight(be, -1), UNCHANGED <<mode, published, h3>>
    PROVE  Handlers' /\ Count'
<1>1. Handlers'
  BY DEF Handlers
<1>2. Counted' = Counted \ {c} /\ c \in Counted
  BY DEF Counted, Handlers
<1>3. /\ Cardinality(Counted') = Cardinality(Counted) - 1 /\ Cardinality(Counted) \in Nat
      /\ IsFiniteSet(Counted')
  BY <1>2, CountedIsFinite, FS_RemoveElement
<1>4. /\ be' \in BackendState /\ Sound(be') /\ be'.inFlight = be.inFlight + (-1)
      /\ be'.server => be.server
      /\ be.server /\ ~be'.server => be'.inFlight = 0
  BY Counts DEF Count
<1>5. be'.inFlight = Cardinality(Counted')
  BY <1>3, <1>4 DEF Count
<1>6. be'.inFlight = 0 => Counted' = {}
  BY <1>3, <1>5, FS_EmptySet
<1>7. Released' => \A d \in Counted' : conn'[d].late
  BY <1>2, <1>4, <1>6 DEF Count, Handlers, Counted, Released, HasServer
<1> QED
  BY <1>1, <1>4, <1>5, <1>7 DEF Count

\* The record of a connection changes and its dialer does not.
LEMMA DialingStays ==
    ASSUME Handlers, Dialing, NEW c \in Conns, NEW x, conn' = [conn EXCEPT ![c] = x],
           x.open => conn[c].open, x.pc \in Early => conn[c].pc \in Early,
           out[c].pc \in {"draw", "try", "dialed"} => x.pc \in {"dial", "serve"},
           UNCHANGED <<mode, up, out, stream, next>>
    PROVE  Dialing'
<1>1. ASSUME NEW d \in Conns
      PROVE  /\ conn'[d].open => conn[d].open
             /\ conn'[d].pc = conn[d].pc \/ (d = c /\ conn'[d] = x)
  BY DEF Handlers
<1>2. ASSUME NEW d \in Conns PROVE Dials(conn[d].pc, out[d])'
  BY <1>1 DEF Dialing, Dials
<1>3. ASSUME NEW d \in Conns PROVE Tried(conn[d].open, out[d])'
  BY <1>1 DEF Dialing, Tried
<1> QED
  BY <1>2, <1>3 DEF Dialing

\* The callback of a connection, run by its goroutine or by the handler.
LEMMA HookPreserves ==
    ASSUME IndInv, NEW c \in Conns, NEW pc \in {conn[c].pc, "end"}, CloseHook(c, pc),
           pc = "end" => conn[c].pc # "counted" /\ out[c].pc \notin {"draw", "try", "dialed"},
           UNCHANGED <<mode, up, published, h3, out, stream, outConns, next>>
    PROVE  IndInv'
<1> DEFINE y == conn[c]
           x == [y EXCEPT !.pc = pc, !.hook = "run", !.open = FALSE, !.early = ~y.annotated]
<1>1. /\ y.hook = "set" /\ inConns' = inConns \ {c} /\ conn' = [conn EXCEPT ![c] = x]
      /\ be' = IF y.annotated THEN IncInFlight(be, -1) ELSE be
  BY DEF CloseHook, Run, IndInv, Handlers
<1>2. y \in Conn /\ Place(y)
  BY DEF IndInv, Handlers
<1>3. /\ x \in Conn /\ x.pc = pc /\ x.hook = "run" /\ ~x.open /\ (x.early <=> ~y.annotated)
      /\ x.counted = y.counted /\ x.annotated = y.annotated /\ x.late = y.late
  BY <1>2 DEF Conn
<1> HIDE DEF x
<1>4. Place(x)
  <2>1. y.pc \in {"hooked", "found", "counted", "annotated", "dial", "serve", "end", "panic"}
    BY <1>1, <1>2 DEF Place, Conn
  <2>2. CASE pc = y.pc
    BY <1>1, <1>2, <1>3, <2>2 DEF Place
  <2>3. CASE pc = "end"
    <3>1. y.counted <=> y.annotated
      BY <1>2, <2>1, <2>3 DEF Place
    <3> QED
      BY <1>2, <1>3, <2>3, <3>1 DEF Place
  <2> QED
    BY <2>2, <2>3
<1>5. Handlers' /\ Count'
  <2>1. CASE y.annotated
    <3>1. InCount(y) /\ ~InCount(x)
      BY <1>1, <1>2, <1>3, <2>1 DEF InCount, Place, Conn
    <3> QED
      BY <1>1, <1>3, <1>4, <2>1, <3>1, CountsOut DEF IndInv
  <2>2. CASE ~y.annotated
    <3>1. InCount(y) <=> InCount(x)
      BY <1>1, <1>2, <1>3, <2>2 DEF InCount, Place
    <3> QED
      BY <1>1, <1>3, <1>4, <2>2, <3>1, SameCount DEF IndInv
  <2> QED
    BY <2>1, <2>2
<1>6. Tracked'
  BY <1>1 DEF IndInv, Tracked, TrackersForget, Handlers
<1>7. Dialing'
  BY <1>1, <1>3, DialingStays DEF IndInv, Early, Dialing, Dials
<1> QED
  BY <1>5, <1>6, <1>7 DEF IndInv

\* The handler returns.
LEMMA ReturnPreserves ==
    ASSUME IndInv, NEW c \in Conns, conn[c].pc \in {"hooked", "annotated", "dial", "serve"},
           out[c].pc \notin {"draw", "try", "dialed"}, Return(c)
    PROVE  IndInv'
<1>1. CASE CloseHook(c, "end") /\ UNCHANGED <<mode, up, published, h3, out, stream, outConns, next>>
  BY <1>1, HookPreserves
<1>2. CASE /\ conn[c].hook = "run"
           /\ conn' = [conn EXCEPT ![c].pc = "end", ![c].open = FALSE]
           /\ UNCHANGED <<mode, up, be, published, h3, inConns, out, stream, outConns, next>>
  <2> DEFINE x == [conn[c] EXCEPT !.pc = "end", !.open = FALSE]
  <2>1. conn[c] \in Conn /\ Place(conn[c]) /\ conn' = [conn EXCEPT ![c] = x]
    BY <1>2 DEF IndInv, Handlers
  <2>2. /\ x \in Conn /\ x.pc = "end" /\ x.hook = "run" /\ ~x.open /\ x.early = conn[c].early
        /\ x.counted = conn[c].counted /\ x.annotated = conn[c].annotated /\ x.late = conn[c].late
    BY <1>2, <2>1 DEF Conn
  <2> HIDE DEF x
  <2>3. Place(x) /\ (InCount(x) <=> InCount(conn[c]))
    BY <1>2, <2>1, <2>2 DEF Place, InCount
  <2>4. Handlers' /\ Count'
    BY <1>2, <2>1, <2>2, <2>3, SameCount DEF IndInv
  <2>5. Tracked'
    BY <1>2, <2>1, <2>2 DEF IndInv, Tracked, TrackersForget, Handlers
  <2>6. Dialing'
    BY <1>2, <2>1, <2>2, DialingStays DEF IndInv, Early
  <2> QED
    BY <2>4, <2>5, <2>6 DEF IndInv
<1> QED
  BY <1>1, <1>2 DEF Return

\* A step of the handler that only moves on.
LEMMA MovePreserves ==
    ASSUME IndInv, NEW c \in Conns, NEW x \in Conn, Place(x), conn' = [conn EXCEPT ![c] = x],
           InCount(x) <=> InCount(conn[c]), x.late = conn[c].late, x.open => conn[c].open,
           x.hook = "run" => conn[c].hook = "run", x.pc \in Early => conn[c].pc \in Early,
           out[c].pc \in {"draw", "try", "dialed"} => x.pc \in {"dial", "serve"},
           UNCHANGED <<mode, up, be, published, h3, inConns, out, stream, outConns, next>>
    PROVE  IndInv'
<1>1. Handlers' /\ Count'
  BY SameCount DEF IndInv
<1>2. Tracked'
  BY DEF IndInv, Tracked, TrackersForget, Handlers
<1>3. Dialing'
  BY DialingStays DEF IndInv
<1> QED
  BY <1>1, <1>2, <1>3 DEF IndInv

\* The size of a tracker.
LEMMA CardinalityWithin ==
    ASSUME NEW S, S \subseteq Conns PROVE Cardinality(S) \in 0..Cardinality(Conns)
BY QUICAssumption, FS_Subset, FS_CardinalityType

\* The connection is added to the tracker.
LEMMA AcceptPreserves == ASSUME IndInv, NEW c \in Conns, Accept(c) PROVE IndInv'
<1> DEFINE x == [conn[c] EXCEPT !.pc = "added", !.numOpen = Cardinality(inConns')]
<1>1. /\ conn[c].pc = "new" /\ inConns' = inConns \union {c}
      /\ UNCHANGED <<mode, up, be, published, h3, out, stream, outConns, next>>
  BY DEF Accept, At
<1>2. conn[c] \in Conn /\ Place(conn[c]) /\ conn' = [conn EXCEPT ![c] = x]
  BY DEF Accept, IndInv, Handlers
<1>3. inConns' \subseteq Conns
  BY <1>1 DEF IndInv, Tracked
<1>4. Cardinality(inConns') \in 0..Cardinality(Conns)
  BY <1>3, CardinalityWithin
<1>5. /\ x \in Conn /\ x.pc = "added" /\ x.hook = conn[c].hook /\ x.open = conn[c].open
      /\ x.counted = conn[c].counted /\ x.annotated = conn[c].annotated
      /\ x.late = conn[c].late /\ x.early = conn[c].early
  BY <1>2, <1>4 DEF Conn
<1> HIDE DEF x
<1>6. Place(x) /\ (InCount(x) <=> InCount(conn[c])) /\ x.hook = "unset"
  BY <1>1, <1>2, <1>5 DEF Place, InCount
<1>7. Handlers' /\ Count'
  BY <1>1, <1>2, <1>5, <1>6, SameCount DEF IndInv
<1>8. Tracked'
  BY <1>1, <1>2, <1>3, <1>5, <1>6 DEF IndInv, Tracked, TrackersForget, Handlers
<1>9. Dialing'
  <2>1. out[c].pc \notin {"draw", "try", "dialed"}
    BY <1>1 DEF IndInv, Dialing, Dials
  <2> QED
    BY <1>1, <1>2, <1>5, <2>1, DialingStays DEF IndInv, Early
<1> QED
  BY <1>7, <1>8, <1>9 DEF IndInv

\* The callback is set.
LEMMA OnClosePreserves == ASSUME IndInv, NEW c \in Conns, OnClose(c) PROVE IndInv'
<1> DEFINE x == [conn[c] EXCEPT !.pc = "hooked", !.hook = "set"]
<1>1. /\ conn[c].pc = "added"
      /\ UNCHANGED <<mode, up, be, published, h3, inConns, out, stream, outConns, next>>
  BY DEF OnClose, At
<1>2. conn[c] \in Conn /\ Place(conn[c]) /\ conn' = [conn EXCEPT ![c] = x]
  BY DEF OnClose, IndInv, Handlers
<1>3. /\ x \in Conn /\ x.pc = "hooked" /\ x.hook = "set" /\ x.open = conn[c].open
      /\ x.counted = conn[c].counted /\ x.annotated = conn[c].annotated
      /\ x.late = conn[c].late /\ x.early = conn[c].early
  BY <1>2 DEF Conn
<1> HIDE DEF x
<1>4. Place(x) /\ (InCount(x) <=> InCount(conn[c]))
  BY <1>1, <1>2, <1>3 DEF Place, InCount
<1>5. out[c].pc \notin {"draw", "try", "dialed"}
  BY <1>1 DEF IndInv, Dialing, Dials
<1> QED
  BY <1>1, <1>2, <1>3, <1>4, <1>5, MovePreserves DEF Early

\* The connection ends.
LEMMA ClientClosesPreserves == ASSUME IndInv, NEW c \in Conns, ClientCloses(c) PROVE IndInv'
<1> DEFINE x == [conn[c] EXCEPT !.open = FALSE]
<1>1. UNCHANGED <<mode, up, be, published, h3, inConns, out, stream, outConns, next>>
  BY DEF ClientCloses
<1>2. conn[c] \in Conn /\ Place(conn[c]) /\ conn' = [conn EXCEPT ![c] = x]
  BY DEF ClientCloses, IndInv, Handlers
<1>3. /\ x \in Conn /\ x.pc = conn[c].pc /\ x.hook = conn[c].hook /\ ~x.open
      /\ x.counted = conn[c].counted /\ x.annotated = conn[c].annotated
      /\ x.late = conn[c].late /\ x.early = conn[c].early
  BY <1>2 DEF Conn
<1> HIDE DEF x
<1>4. Place(x) /\ (InCount(x) <=> InCount(conn[c]))
  BY <1>1, <1>2, <1>3 DEF Place, InCount
<1>5. out[c].pc \in {"draw", "try", "dialed"} => x.pc \in {"dial", "serve"}
  BY <1>3 DEF IndInv, Dialing, Dials
<1> QED
  BY <1>1, <1>2, <1>3, <1>4, <1>5, MovePreserves DEF Early

\* The lookup of the backend.
LEMMA LookupPreserves == ASSUME IndInv, NEW c \in Conns, Lookup(c) PROVE IndInv'
<1>1. conn[c].pc = "hooked" /\ conn[c] \in Conn /\ Place(conn[c])
  BY DEF Lookup, At, IndInv, Handlers
<1>2. out[c].pc \notin {"draw", "try", "dialed"}
  BY <1>1 DEF IndInv, Dialing, Dials
<1>3. CASE published
  <2> DEFINE x == [conn[c] EXCEPT !.pc = "found"]
  <2>1. /\ conn' = [conn EXCEPT ![c] = x]
        /\ UNCHANGED <<mode, up, be, published, h3, inConns, out, stream, outConns, next>>
    BY <1>3 DEF Lookup, Goto, IndInv, Handlers
  <2>2. /\ x \in Conn /\ x.pc = "found" /\ x.hook = conn[c].hook /\ x.open = conn[c].open
        /\ x.counted = conn[c].counted /\ x.annotated = conn[c].annotated
        /\ x.late = conn[c].late /\ x.early = conn[c].early
    BY <1>1 DEF Conn
  <2> HIDE DEF x
  <2>3. Place(x) /\ (InCount(x) <=> InCount(conn[c]))
    BY <1>1, <2>2 DEF Place, InCount
  <2> QED
    BY <1>1, <1>2, <2>1, <2>2, <2>3, MovePreserves DEF Early
<1>4. CASE ~published
  BY <1>1, <1>2, <1>4, ReturnPreserves DEF Lookup
<1> QED
  BY <1>3, <1>4

\* The handler counts the connection in, whether its callback was run or not.
LEMMA CountInPreserves == ASSUME IndInv, NEW c \in Conns, CountIn(c) PROVE IndInv'
<1> DEFINE x == [conn[c] EXCEPT !.pc = "counted", !.counted = TRUE, !.late = Released]
<1>1. /\ conn[c].pc = "found" /\ be' = IncInFlight(be, 1)
      /\ UNCHANGED <<mode, up, published, h3, inConns, out, stream, outConns, next>>
  BY DEF CountIn, At
<1>2. conn[c] \in Conn /\ Place(conn[c]) /\ conn' = [conn EXCEPT ![c] = x]
  BY DEF CountIn, IndInv, Handlers
<1>3. Released \in BOOLEAN
  BY DEF Released
<1>4. /\ x \in Conn /\ x.pc = "counted" /\ x.hook = conn[c].hook /\ x.open = conn[c].open
      /\ x.counted /\ x.annotated = conn[c].annotated
      /\ x.late = Released /\ x.early = conn[c].early
  BY <1>2, <1>3 DEF Conn
<1> HIDE DEF x
<1>5. Place(x) /\ InCount(x) /\ ~InCount(conn[c])
  BY <1>1, <1>2, <1>4 DEF Place, InCount, Conn
<1>6. Handlers' /\ Count'
  BY <1>1, <1>2, <1>4, <1>5, CountsIn DEF IndInv
<1>7. Tracked'
  BY <1>1, <1>2, <1>4 DEF IndInv, Tracked, TrackersForget, Handlers
<1>8. Dialing'
  <2>1. out[c].pc \notin {"draw", "try", "dialed"}
    BY <1>1 DEF IndInv, Dialing, Dials
  <2> QED
    BY <1>1, <1>2, <1>4, <2>1, DialingStays DEF IndInv, Early
<1> QED
  BY <1>6, <1>7, <1>8 DEF IndInv

\* The backend is annotated.
LEMMA AnnotatePreserves == ASSUME IndInv, NEW c \in Conns, Annotate(c) PROVE IndInv'
<1> DEFINE x == [conn[c] EXCEPT !.pc = "annotated", !.annotated = TRUE]
<1>1. /\ conn[c].pc = "counted"
      /\ UNCHANGED <<mode, up, be, published, h3, inConns, out, stream, outConns, next>>
  BY DEF Annotate, At
<1>2. conn[c] \in Conn /\ Place(conn[c]) /\ conn' = [conn EXCEPT ![c] = x]
  BY DEF Annotate, IndInv, Handlers
<1>3. /\ x \in Conn /\ x.pc = "annotated" /\ x.hook = conn[c].hook /\ x.open = conn[c].open
      /\ x.counted = conn[c].counted /\ x.annotated
      /\ x.late = conn[c].late /\ x.early = conn[c].early
  BY <1>2 DEF Conn
<1> HIDE DEF x
<1>4. Place(x) /\ (InCount(x) <=> InCount(conn[c]))
  BY <1>1, <1>2, <1>3 DEF Place, InCount
<1>5. out[c].pc \notin {"draw", "try", "dialed"}
  BY <1>1 DEF IndInv, Dialing, Dials
<1> QED
  BY <1>1, <1>2, <1>3, <1>4, <1>5, MovePreserves DEF Early

-----------------------------------------------------------------------------
\* A connection to the backend changes, and possibly the handler it belongs to.
LEMMA DialMoves ==
    ASSUME IndInv, NEW c \in Conns, NEW o \in Out, out' = [out EXCEPT ![c] = o],
           NEW pc, NEW open, conn'[c].pc = pc, conn'[c].open = open,
           Dials(pc, o), Tried(open, o), UNCHANGED <<mode, up, stream, next>>,
           \A d \in Conns \ {c} : conn'[d] = conn[d]
    PROVE  Dialing'
<1>1. out' \in [Conns -> Out] /\ out'[c] = o
  BY DEF IndInv, Dialing
<1>2. ASSUME NEW d \in Conns
      PROVE  (Dials(conn[d].pc, out[d]) /\ Tried(conn[d].open, out[d]))'
  <2>1. CASE d = c
    BY <1>1, <2>1 DEF Dials, Tried
  <2>2. CASE d # c
    <3>1. /\ out'[d] = out[d] /\ conn'[d] = conn[d]
          /\ Dials(conn[d].pc, out[d]) /\ Tried(conn[d].open, out[d])
      BY <2>2 DEF IndInv, Dialing
    <3> QED
      BY <3>1 DEF Dials, Tried
  <2> QED
    BY <2>1, <2>2
<1> QED
  BY <1>1, <1>2 DEF IndInv, Dialing

\* A step that leaves the handlers and the backend alone.
LEMMA SameConns ==
    ASSUME Handlers, Count, UNCHANGED <<conn, mode, be, published, h3>>
    PROVE  Handlers' /\ Count'
BY DEF Handlers, Count, Counted, Released, HasServer

\* A step that leaves the connections of clients alone.
LEMMA SameIn ==
    ASSUME IndInv, UNCHANGED <<conn, inConns>>, outConns' \subseteq Conns,
           \A d \in outConns' : out'[d].hook # "run" \/ out'[d].early
    PROVE  Tracked'
BY DEF IndInv, Tracked, TrackersForget

\* The connection is served, and a dialer starts from scratch.
LEMMA AdmitPreserves == ASSUME IndInv, NEW c \in Conns, Admit(c) PROVE IndInv'
<1>1. conn[c].pc = "annotated" /\ conn[c] \in Conn /\ Place(conn[c])
  BY DEF Admit, At, IndInv, Handlers
<1>2. UNCHANGED <<mode, up, be, published, h3, inConns, stream, outConns, next>>
  BY DEF Admit
<1>3. out[c] \in Out /\ out[c].pc \notin {"draw", "try", "dialed"}
  BY <1>1 DEF IndInv, Dialing, Dials
<1>4. ASSUME NEW pc \in {"dial", "serve"}, Goto(c, pc)
      PROVE  /\ Handlers' /\ Count' /\ conn'[c].pc = pc
             /\ \A d \in Conns \ {c} : conn'[d] = conn[d]
             /\ \A d \in Conns : conn'[d].hook = conn[d].hook /\ conn'[d].open = conn[d].open
             /\ UNCHANGED out => IndInv'
  <2> DEFINE x == [conn[c] EXCEPT !.pc = pc]
  <2>1. conn' = [conn EXCEPT ![c] = x]
    BY <1>4 DEF Goto, IndInv, Handlers
  <2>2. /\ x \in Conn /\ x.pc = pc /\ x.hook = conn[c].hook /\ x.open = conn[c].open
        /\ x.counted = conn[c].counted /\ x.annotated = conn[c].annotated
        /\ x.late = conn[c].late /\ x.early = conn[c].early
    BY <1>1 DEF Conn
  <2> HIDE DEF x
  <2>3. Place(x) /\ (InCount(x) <=> InCount(conn[c]))
    BY <1>1, <2>2 DEF Place, InCount
  <2>4. Handlers' /\ Count'
    BY <1>2, <2>1, <2>2, <2>3, SameCount DEF IndInv
  <2>5. UNCHANGED out => IndInv'
    BY <1>2, <1>3, <2>1, <2>2, <2>3, MovePreserves DEF Early
  <2> QED
    BY <2>1, <2>2, <2>4, <2>5 DEF IndInv, Handlers
<1>5. CASE mode = "dial"
  <2>1. Goto(c, "dial") /\ out' = [out EXCEPT ![c].pc = "draw"]
    BY <1>5 DEF Admit
  <2> DEFINE o == [out[c] EXCEPT !.pc = "draw"]
  <2>2. out' = [out EXCEPT ![c] = o]
    BY <2>1 DEF IndInv, Dialing
  <2>3. /\ o \in Out /\ o.pc = "draw" /\ o.max = out[c].max /\ o.addr = out[c].addr
        /\ o.hook = out[c].hook /\ o.early = out[c].early /\ o.crowded = out[c].crowded
    BY <1>3 DEF Out
  <2> HIDE DEF o
  <2>4. out'[c] = o /\ \A d \in Conns : out'[d].hook = out[d].hook /\ out'[d].early = out[d].early
    BY <2>2, <2>3 DEF IndInv, Dialing
  <2>5. Tracked'
    BY <1>2, <1>4, <2>1, <2>4 DEF IndInv, Tracked, TrackersForget
  <2>6. out[c] = NoOut
    BY <1>1 DEF IndInv, Dialing, Dials, Early
  <2>7. o.max = 0
    BY <2>3, <2>6 DEF NoOut
  <2>8. Dials("dial", o) /\ Tried(conn[c].open, o)
    BY <1>5, <2>3, <2>7 DEF Dials, Tried, Early
  <2>9. Dialing'
    <3>1. /\ conn'[c].pc = "dial" /\ conn'[c].open = conn[c].open
          /\ \A d \in Conns \ {c} : conn'[d] = conn[d]
      BY <1>4, <2>1
    <3> QED
      BY <1>2, <2>2, <2>3, <2>8, <3>1, DialMoves
  <2> QED
    BY <1>4, <2>1, <2>5, <2>9 DEF IndInv
<1>6. CASE mode # "dial"
  BY <1>4, <1>6 DEF Admit
<1> QED
  BY <1>5, <1>6

\* The connection is refused.
LEMMA RefusePreserves == ASSUME IndInv, NEW c \in Conns, Refuse(c) PROVE IndInv'
<1>1. conn[c].pc = "annotated"
  BY DEF Refuse, At
<1>2. out[c].pc \notin {"draw", "try", "dialed"}
  BY <1>1 DEF IndInv, Dialing, Dials
<1> QED
  BY <1>1, <1>2, ReturnPreserves DEF Refuse

\* The connection was served.
LEMMA EndServingPreserves == ASSUME IndInv, NEW c \in Conns, EndServing(c) PROVE IndInv'
BY ReturnPreserves DEF EndServing, At

\* No address answered.
LEMMA UnreachablePreserves == ASSUME IndInv, NEW c \in Conns, Unreachable(c) PROVE IndInv'
BY ReturnPreserves DEF Unreachable, At

\* The goroutine of OnClose.
LEMMA HookGoroutinePreserves ==
    ASSUME IndInv, NEW c \in Conns, HookGoroutine(c) PROVE IndInv'
<1>1. conn[c].hook = "set" /\ Place(conn[c])
  BY DEF HookGoroutine, CloseHook, IndInv, Handlers
<1>2. conn[c].pc # "end"
  BY <1>1 DEF Place
<1> QED
  BY <1>2, HookPreserves DEF HookGoroutine

\* A step that only changes a connection to the backend, and its place in the
\* tracker.
LEMMA OutPreserves ==
    ASSUME IndInv, NEW c \in Conns, NEW o \in Out, out' = [out EXCEPT ![c] = o],
           Dials(conn[c].pc, o), Tried(conn[c].open, o),
           outConns' \subseteq outConns \union {c},
           c \in outConns' => o.hook # "run" \/ o.early,
           UNCHANGED <<mode, up, be, published, h3, conn, inConns, stream, next>>
    PROVE  IndInv'
<1>1. Handlers' /\ Count'
  BY SameConns DEF IndInv
<1>2. outConns' \subseteq Conns
  BY DEF IndInv, Tracked
<1>3. \A d \in outConns' : out'[d].hook # "run" \/ out'[d].early
  BY <1>2 DEF IndInv, Tracked, TrackersForget, Dialing
<1>4. Tracked'
  BY <1>2, <1>3, SameIn
<1>5. Dialing'
  BY DialMoves
<1> QED
  BY <1>1, <1>4, <1>5 DEF IndInv

\* What the invariant says of one connection to the backend.
LEMMA OutStays ==
    ASSUME IndInv, NEW c \in Conns
    PROVE  /\ out[c] \in Out /\ Dials(conn[c].pc, out[c]) /\ Tried(conn[c].open, out[c])
           /\ c \in outConns => out[c].hook # "run" \/ out[c].early
           /\ out \in [Conns -> Out] /\ outConns \subseteq Conns
           /\ NoOut \in Out
BY QUICAssumption DEF IndInv, Dialing, Tracked, TrackersForget, NoOut, Out

\* A stream that is bridged to TCP starts a dialer from scratch.
LEMMA TCPStreamPreserves == ASSUME IndInv, NEW c \in Conns, TCPStream(c) PROVE IndInv'
<1> DEFINE o == [out[c] EXCEPT !.pc = "draw"]
<1>1. /\ conn[c].pc = "serve" /\ mode = "tcp" /\ out[c].pc = "none"
      /\ out' = [out EXCEPT ![c] = o]
      /\ UNCHANGED <<mode, up, be, published, h3, conn, inConns, stream, outConns, next>>
  BY OutStays DEF TCPStream, At
<1>2. out[c] = NoOut
  BY <1>1, OutStays DEF Dials
<1>3. o \in Out /\ o.pc = "draw" /\ o.max = 0 /\ o.hook = "unset"
  <2>1. o \in Out /\ o.pc = "draw" /\ o.max = out[c].max /\ o.hook = out[c].hook
    BY OutStays DEF Out
  <2> QED
    BY <1>2, <2>1 DEF NoOut
<1> HIDE DEF o
<1>4. Dials(conn[c].pc, o) /\ Tried(conn[c].open, o)
  BY <1>1, <1>3 DEF Dials, Tried, Early
<1> QED
  BY <1>1, <1>3, <1>4, OutPreserves

\* The end of such a stream.
LEMMA EndTCPStreamPreserves == ASSUME IndInv, NEW c \in Conns, EndTCPStream(c) PROVE IndInv'
<1>1. Dials(conn[c].pc, NoOut) /\ Tried(conn[c].open, NoOut)
  BY DEF Dials, Tried, NoOut
<1> QED
  BY <1>1, OutStays, OutPreserves DEF EndTCPStream

\* A stream changes and nothing else.
LEMMA OnlyStream ==
    ASSUME IndInv,
           stream' \in [Conns -> [pc : {"none", "sending", "opening", "bridged"}, waited : BOOLEAN]],
           UNCHANGED <<mode, up, be, published, h3, conn, inConns, out, outConns, next>>
    PROVE  IndInv'
<1>1. Handlers' /\ Count'
  BY SameConns DEF IndInv
<1>2. Tracked'
  BY DEF IndInv, Tracked, TrackersForget
<1>3. Dialing'
  BY DEF IndInv, Dialing, Dials, Tried
<1> QED
  BY <1>1, <1>2, <1>3 DEF IndInv

\* A stream is accepted.
LEMMA AcceptStreamPreserves == ASSUME IndInv, NEW c \in Conns, AcceptStream(c) PROVE IndInv'
<1> DEFINE S == [pc : {"none", "sending", "opening", "bridged"}, waited : BOOLEAN]
<1>1. stream \in [Conns -> S]
  BY DEF IndInv, Dialing
<1>2. [pc |-> "sending", waited |-> TRUE] \in S
  OBVIOUS
<1> HIDE DEF S
<1>3. stream' \in [Conns -> S]
  BY <1>1, <1>2 DEF AcceptStream
<1> QED
  BY <1>3, OnlyStream DEF AcceptStream, S

\* A stream is handed to the HTTP server: where the channel is closed, the connection was
\* counted in after the release, or is counted no more.
LEMMA SendStreamPreserves ==
    ASSUME IndInv, Sending, NEW c \in Conns, SendStream(c) PROVE IndInv'
<1> DEFINE x == [conn[c] EXCEPT !.pc = "panic"]
           S == [pc : {"none", "sending", "opening", "bridged"}, waited : BOOLEAN]
<1>1. /\ conn[c].pc = "serve" /\ HasServer
      /\ UNCHANGED <<mode, up, be, published, h3, inConns, out, outConns, next>>
  BY DEF SendStream, Sending
<1>2. conn[c] \in Conn /\ Place(conn[c])
  BY DEF IndInv, Handlers
<1>3. stream' \in [Conns -> S]
  <2>1. stream \in [Conns -> S]
    BY DEF IndInv, Dialing
  <2>2. NoStream \in S
    BY DEF NoStream
  <2> HIDE DEF S
  <2> QED
    BY <2>1, <2>2 DEF SendStream
<1>4. CASE be.chan = "open"
  <2>1. UNCHANGED conn
    BY <1>4 DEF SendStream
  <2> QED
    BY <1>1, <1>3, <2>1, OnlyStream
<1>5. CASE be.chan # "open"
  <2>1. conn' = [conn EXCEPT ![c] = x]
    BY <1>5 DEF SendStream, Goto, IndInv, Handlers
  <2>2. Released
    BY <1>1, <1>5 DEF IndInv, Count, Released, Sound
  <2>3. InCount(conn[c]) => conn[c].late
    BY <2>2 DEF IndInv, Count, Counted
  <2>4. /\ x \in Conn /\ x.pc = "panic" /\ x.hook = conn[c].hook /\ x.open = conn[c].open
        /\ x.counted = conn[c].counted /\ x.annotated = conn[c].annotated
        /\ x.late = conn[c].late /\ x.early = conn[c].early
    BY <1>2 DEF Conn
  <2> HIDE DEF x
  <2>5. Place(x) /\ (InCount(x) <=> InCount(conn[c]))
    BY <1>1, <1>2, <2>3, <2>4 DEF Place, InCount
  <2>6. out[c].pc \notin {"draw", "try", "dialed"}
    BY <1>1 DEF IndInv, Dialing, Dials, HasServer
  <2>7. Handlers' /\ Count'
    BY <1>1, <2>1, <2>4, <2>5, SameCount DEF IndInv
  <2>8. Tracked'
    BY <1>1, <2>1, <2>4 DEF IndInv, Tracked, TrackersForget, Handlers
  <2>9. Dialing'
    <3>1. ASSUME NEW d \in Conns
          PROVE  /\ conn'[d].open = conn[d].open
                 /\ conn'[d].pc = conn[d].pc \/ (d = c /\ conn'[d].pc = "panic")
      BY <2>1, <2>4 DEF IndInv, Handlers
    <3>2. ASSUME NEW d \in Conns PROVE Dials(conn[d].pc, out[d])'
      BY <1>1, <2>6, <3>1 DEF IndInv, Dialing, Dials, Early
    <3>3. ASSUME NEW d \in Conns PROVE Tried(conn[d].open, out[d])'
      BY <1>1, <3>1 DEF IndInv, Dialing, Tried
    <3> QED
      BY <1>1, <1>3, <3>2, <3>3 DEF IndInv, Dialing
  <2> QED
    BY <2>7, <2>8, <2>9 DEF IndInv
<1> QED
  BY <1>4, <1>5

\* Streams that are bridged to streams.
LEMMA StreamsPreserve ==
    ASSUME IndInv, NEW c \in Conns,
           (\E waited \in BOOLEAN : StartStream(c, waited)) \/ BridgeStream(c) \/ EndStream(c)
    PROVE  IndInv'
<1> DEFINE S == [pc : {"none", "sending", "opening", "bridged"}, waited : BOOLEAN]
<1>1. stream \in [Conns -> S]
  BY DEF IndInv, Dialing
<1>2. /\ stream' \in [Conns -> S]
      /\ UNCHANGED <<mode, up, be, published, h3, conn, inConns, out, outConns, next>>
  <2>1. ASSUME NEW waited \in BOOLEAN, StartStream(c, waited) PROVE <1>2
    BY <1>1, <2>1 DEF StartStream
  <2>2. CASE BridgeStream(c)
    <3>1. [stream[c] EXCEPT !.pc = "bridged"] \in S
      BY <1>1
    <3> QED
      BY <1>1, <2>2, <3>1 DEF BridgeStream
  <2>3. CASE EndStream(c)
    BY <1>1, <2>3 DEF EndStream, NoStream
  <2> QED
    BY <2>1, <2>2, <2>3
<1> QED
  BY <1>2, OnlyStream

\* An address answers.
LEMMA DialSucceedsPreserves ==
    ASSUME IndInv, NEW c \in Conns, DialSucceeds(c) PROVE IndInv'
<1> DEFINE o == [out[c] EXCEPT !.pc = "dialed", !.open = TRUE, !.hook = "set"]
<1>1. /\ out[c].pc = "try" /\ out' = [out EXCEPT ![c] = o]
      /\ UNCHANGED <<mode, up, be, published, h3, conn, inConns, stream, outConns, next>>
  BY OutStays DEF DialSucceeds
<1>2. o \in Out /\ o.pc = "dialed" /\ o.hook = "set"
  BY OutStays DEF Out
<1>3. conn[c].pc \in {"dial", "serve"} /\ mode \in {"tcp", "dial"}
  BY <1>1, OutStays DEF Dials
<1> HIDE DEF o
<1>4. Dials(conn[c].pc, o) /\ Tried(conn[c].open, o)
  BY <1>2, <1>3 DEF Dials, Tried, Early
<1> QED
  BY <1>1, <1>2, <1>4, OutPreserves

\* The connection to the backend ends.
LEMMA BackendClosesPreserves ==
    ASSUME IndInv, NEW c \in Conns, BackendCloses(c) PROVE IndInv'
<1> DEFINE o == [out[c] EXCEPT !.open = FALSE]
<1>1. /\ mode = "dial" /\ out[c].open /\ out' = [out EXCEPT ![c] = o]
      /\ UNCHANGED <<mode, up, be, published, h3, conn, inConns, stream, outConns, next>>
  BY OutStays DEF BackendCloses
<1>2. /\ o \in Out /\ o.pc = out[c].pc /\ o.hook = out[c].hook /\ o.max = out[c].max
      /\ o.addr = out[c].addr /\ o.crowded = out[c].crowded /\ o.early = out[c].early
  BY OutStays DEF Out
<1>3. conn[c].pc \notin Early
  BY <1>1, OutStays DEF Dials, NoOut
<1> HIDE DEF o
<1>4. Dials(conn[c].pc, o) /\ Tried(conn[c].open, o)
  BY <1>1, <1>2, <1>3, OutStays DEF Dials, Tried
<1> QED
  BY <1>1, <1>2, <1>4, OutStays, OutPreserves

\* Its callback: if the connection is not in the tracker yet, it will be added
\* after it was removed.
LEMMA OutHookPreserves ==
    ASSUME IndInv, NEW c \in Conns, NEW pc \in {out[c].pc, "none"}, mode = "dial", OutHook(c, pc),
           UNCHANGED <<mode, up, be, published, h3, conn, inConns, stream, next>>
    PROVE  IndInv'
<1> DEFINE o == [out[c] EXCEPT !.hook = "run", !.open = FALSE, !.pc = pc,
                               !.early = out[c].pc = "dialed"]
<1>1. out[c].hook = "set" /\ out' = [out EXCEPT ![c] = o] /\ outConns' = outConns \ {c}
  BY OutStays DEF OutHook
<1>2. /\ o \in Out /\ o.pc = pc /\ o.hook = "run" /\ o.max = out[c].max
      /\ o.addr = out[c].addr /\ o.crowded = out[c].crowded /\ o.early = (out[c].pc = "dialed")
  BY OutStays DEF Out
<1>3. conn[c].pc \notin Early
  BY <1>1, OutStays DEF Dials, NoOut
<1> HIDE DEF o
<1>4. Dials(conn[c].pc, o) /\ Tried(conn[c].open, o)
  BY <1>1, <1>2, <1>3, OutStays DEF Dials, Tried
<1> QED
  BY <1>1, <1>2, <1>4, OutStays, OutPreserves

\* The connection to the backend is closed.
LEMMA EndOutPreserves == ASSUME IndInv, NEW c \in Conns, EndOut(c) PROVE IndInv'
<1>1. /\ mode = "dial" /\ conn[c].pc = "serve"
      /\ UNCHANGED <<mode, up, be, published, h3, conn, inConns, stream, next>>
  BY DEF EndOut, At
<1>2. CASE OutHook(c, "none")
  BY <1>1, <1>2, OutHookPreserves
<1>3. CASE /\ out[c].hook = "run" /\ out' = [out EXCEPT ![c].pc = "none", ![c].open = FALSE]
           /\ UNCHANGED outConns
  <2> DEFINE o == [out[c] EXCEPT !.pc = "none", !.open = FALSE]
  <2>1. out' = [out EXCEPT ![c] = o] /\ UNCHANGED outConns
    BY <1>3, OutStays
  <2>2. o \in Out /\ o.pc = "none" /\ o.hook = out[c].hook /\ o.early = out[c].early
    BY OutStays DEF Out
  <2> HIDE DEF o
  <2>3. Dials(conn[c].pc, o) /\ Tried(conn[c].open, o)
    BY <1>1, <2>2 DEF Dials, Tried, Early
  <2> QED
    BY <1>1, <2>1, <2>2, <2>3, OutStays, OutPreserves
<1> QED
  BY <1>2, <1>3 DEF EndOut

\* It is added to the tracker, possibly too late.
LEMMA AddOutPreserves == ASSUME IndInv, NEW c \in Conns, AddOut(c) PROVE IndInv'
<1> DEFINE o == [out[c] EXCEPT !.pc = "added"]
           x == [conn[c] EXCEPT !.pc = "serve"]
<1>1. /\ out[c].pc = "dialed" /\ outConns' = outConns \union {c}
      /\ out' = [out EXCEPT ![c] = o] /\ conn' = [conn EXCEPT ![c] = x]
      /\ UNCHANGED <<mode, up, be, published, h3, inConns, stream, next>>
  BY OutStays DEF AddOut, Goto, IndInv, Handlers
<1>2. /\ conn[c] \in Conn /\ Place(conn[c]) /\ conn[c].pc \in {"dial", "serve"}
      /\ mode \in {"tcp", "dial"} /\ conn \in [Conns -> Conn]
  BY <1>1, OutStays DEF Dials, IndInv, Handlers
<1>3. o \in Out /\ o.pc = "added" /\ o.hook = out[c].hook /\ o.early = out[c].early
  BY OutStays DEF Out
<1>4. /\ x \in Conn /\ x.pc = "serve" /\ x.hook = conn[c].hook /\ x.open = conn[c].open
      /\ x.counted = conn[c].counted /\ x.annotated = conn[c].annotated
      /\ x.late = conn[c].late /\ x.early = conn[c].early
  BY <1>2 DEF Conn
<1>5. o.hook # "run" \/ o.early
  BY <1>1, <1>3, OutStays DEF Dials
<1> HIDE DEF o, x
<1>6. Place(x) /\ (InCount(x) <=> InCount(conn[c]))
  BY <1>2, <1>4 DEF Place, InCount
<1>7. Handlers' /\ Count'
  BY <1>1, <1>4, <1>6, SameCount DEF IndInv
<1>8. Tracked'
  <2>1. \A d \in inConns : conn'[d].hook = conn[d].hook
    BY <1>1, <1>2, <1>4
  <2>2. \A d \in outConns' : out'[d].hook # "run" \/ out'[d].early
    BY <1>1, <1>3, <1>5, OutStays DEF IndInv, Tracked, TrackersForget
  <2> QED
    BY <1>1, <2>1, <2>2 DEF IndInv, Tracked, TrackersForget
<1>9. Dialing'
  <2>1. Dials("serve", o) /\ Tried(conn[c].open, o)
    BY <1>2, <1>3 DEF Dials, Tried, Early
  <2>2. /\ conn'[c].pc = "serve" /\ conn'[c].open = conn[c].open
        /\ \A d \in Conns \ {c} : conn'[d] = conn[d]
    BY <1>1, <1>2, <1>4
  <2> QED
    BY <1>1, <1>3, <2>1, <2>2, DialMoves
<1> QED
  BY <1>7, <1>8, <1>9 DEF IndInv

\* A step round the list of addresses makes every other address one further away.
LEMMA Distances ==
    ASSUME NEW a \in Addrs, NEW b \in Addrs
    PROVE  /\ Dist(b, a) \in Addrs
           /\ Dist(b, a) = 0 => b = a
           /\ Dist(b, After(a)) > 0 => Dist(b, a) = Dist(b, After(a)) - 1
<1>1. NAddrs \in Nat /\ a \in Nat /\ b \in Nat /\ a < NAddrs /\ b < NAddrs
  BY QUICAssumption DEF Addrs
<1> QED
  BY <1>1, NextAddress DEF Dist, Addrs

\* An attempt fails: the addresses that were tried now have this one too, and are
\* all of them when no attempt is left.
LEMMA DialFailsPreserves == ASSUME IndInv, NEW c \in Conns, DialFails(c) PROVE IndInv'
<1> DEFINE y == out[c]
           m == y.max - 1
           pc == IF TryAgain(y.max) THEN "draw" ELSE "failed"
           o == [y EXCEPT !.max = m, !.pc = pc]
<1>1. /\ y.pc = "try" /\ (y.addr \in up => ~conn[c].open)
      /\ out' = [out EXCEPT ![c] = o]
      /\ UNCHANGED <<mode, up, be, published, h3, conn, inConns, stream, outConns, next>>
  BY OutStays DEF DialFails
<1>2. /\ conn[c].pc \in {"dial", "serve"} /\ mode \in {"tcp", "dial"}
      /\ y.max \in 1..NAddrs /\ y.addr \in Addrs
  BY <1>1, OutStays DEF Dials, Out
<1>3. /\ o \in Out /\ o.max = y.max - 1 /\ o.addr = y.addr /\ o.crowded = y.crowded
      /\ o.hook = y.hook /\ o.early = y.early
      /\ o.pc = IF y.max > 1 THEN "draw" ELSE "failed"
  <2>1. m \in 0..NAddrs /\ pc \in {"draw", "failed"} /\ (TryAgain(y.max) <=> y.max > 1)
    BY <1>2, QUICAssumption DEF TryAgain
  <2> HIDE DEF m, pc
  <2>2. /\ o \in Out /\ o.max = m /\ o.addr = y.addr /\ o.crowded = y.crowded
        /\ o.hook = y.hook /\ o.early = y.early /\ o.pc = pc
    BY <2>1, OutStays DEF Out
  <2> QED
    BY <2>1, <2>2 DEF m, pc
<1> HIDE DEF o
<1>4. Dials(conn[c].pc, o)
  BY <1>2, <1>3 DEF Dials, Early
<1>5. Tried(conn[c].open, o)
  <2> SUFFICES ASSUME conn[c].open, ~o.crowded
               PROVE  /\ o.pc = "draw" =>
                            \A b \in Addrs : Dist(b, o.addr) < NAddrs - o.max => b \notin up
                      /\ o.pc = "failed" => up = {}
                      /\ o.pc = "draw" => next = After(o.addr)
    BY <1>2, <1>3 DEF Tried
  <2>1. /\ \A b \in Addrs : Dist(b, y.addr) \in 1..(NAddrs - y.max) => b \notin up
        /\ next = After(y.addr) /\ y.addr \notin up
    BY <1>1, <1>2, <1>3, OutStays DEF Tried
  <2>2. ASSUME NEW b \in Addrs, Dist(b, y.addr) < NAddrs - (y.max - 1) PROVE b \notin up
    <3>1. Dist(b, y.addr) \in Nat /\ (Dist(b, y.addr) = 0 => b = y.addr)
      BY <1>2, Distances DEF Addrs
    <3> QED
      BY <1>2, <2>1, <2>2, <3>1, QUICAssumption
  <2>3. y.max = 1 => up = {}
    <3>1. \A b \in Addrs : Dist(b, y.addr) < NAddrs
      BY <1>2, Distances, QUICAssumption DEF Addrs
    <3>2. y.max = 1 => \A b \in Addrs : b \notin up
      BY <2>2, <3>1, QUICAssumption
    <3> QED
      BY <3>2 DEF IndInv, Dialing
  <2> QED
    BY <1>2, <1>3, <2>1, <2>2, <2>3
<1> QED
  BY <1>1, <1>3, <1>4, <1>5, OutStays, OutPreserves

\* An attempt begins: for this dialer the addresses that were tried are one further
\* away, and the other dialers have been crowded.
LEMMA DrawPreserves == ASSUME IndInv, NEW c \in Conns, Draw(c) PROVE IndInv'
<1> DEFINE y == out[c]
           o == [y EXCEPT !.pc = "try", !.addr = next, !.max = IF y.max = 0 THEN NAddrs ELSE y.max]
           Waits(d) == out[d].max > 0 /\ out[d].pc \in {"draw", "try"}
<1>1. /\ y.pc = "draw" /\ next' = After(next) /\ out'[c] = o
      /\ out' = [d \in Conns |-> out'[d]]
      /\ \A d \in Conns \ {c} :
            out'[d] = IF Waits(d) THEN [out[d] EXCEPT !.crowded = TRUE] ELSE out[d]
      /\ UNCHANGED <<mode, up, be, published, h3, conn, inConns, stream, outConns>>
  BY DEF Draw
<1>2. /\ conn[c].pc \in {"dial", "serve"} /\ mode \in {"tcp", "dial"} /\ next \in Addrs
      /\ y.max \in 0..NAddrs /\ (y.max > 0 => y.addr \in Addrs)
  BY <1>1, OutStays DEF Dials, Out, IndInv, Dialing
<1>3. /\ o \in Out /\ o.pc = "try" /\ o.addr = next /\ o.crowded = y.crowded
      /\ o.max = (IF y.max = 0 THEN NAddrs ELSE y.max)
      /\ o.hook = y.hook /\ o.early = y.early
  <2>1. ASSUME NEW m \in 0..NAddrs
        PROVE  LET z == [y EXCEPT !.pc = "try", !.addr = next, !.max = m] IN
               /\ z \in Out /\ z.pc = "try" /\ z.addr = next /\ z.crowded = y.crowded
               /\ z.max = m /\ z.hook = y.hook /\ z.early = y.early
    BY <1>2, OutStays DEF Out
  <2>2. (IF y.max = 0 THEN NAddrs ELSE y.max) \in 0..NAddrs
    BY <1>2, QUICAssumption
  <2> QED
    BY <2>1, <2>2
<1> HIDE DEF o
<1>4. ASSUME NEW d \in Conns, d # c
      PROVE  /\ out'[d] \in Out /\ out'[d].hook = out[d].hook /\ out'[d].early = out[d].early
             /\ (Dials(conn[d].pc, out[d]) /\ Tried(conn[d].open, out[d]))'
  <2>1. CASE Waits(d)
    <3> DEFINE z == [out[d] EXCEPT !.crowded = TRUE]
    <3>1. /\ z \in Out /\ z.pc = out[d].pc /\ z.max = out[d].max /\ z.addr = out[d].addr
          /\ z.hook = out[d].hook /\ z.early = out[d].early /\ z.crowded
      BY OutStays DEF Out
    <3>2. out'[d] = z
      BY <1>1, <1>4, <2>1
    <3> HIDE DEF z
    <3>3. Dials(conn[d].pc, z) /\ Tried(conn[d].open, z)
      <4>1. Dials(conn[d].pc, out[d]) /\ out[d].pc # "none" /\ out[d] # NoOut
        BY <2>1, OutStays DEF NoOut
      <4> QED
        BY <2>1, <3>1, <4>1 DEF Dials, Tried
    <3> QED
      BY <1>1, <3>1, <3>2, <3>3 DEF Dials, Tried
  <2>2. CASE ~Waits(d)
    <3>1. out'[d] = out[d] /\ Dials(conn[d].pc, out[d]) /\ Tried(conn[d].open, out[d])
      BY <1>1, <1>4, <2>2, OutStays
    <3>2. out[d] \in Out
      BY OutStays
    <3> QED
      BY <1>1, <2>2, <3>1, <3>2 DEF Dials, Tried
  <2> QED
    BY <2>1, <2>2
<1>5. Dials(conn[c].pc, out[c])'
  BY <1>1, <1>2, <1>3, QUICAssumption DEF Dials, Early
<1>6. Tried(conn[c].open, out[c])'
  <2>1. ASSUME conn[c].open, ~y.crowded, NEW b \in Addrs,
               Dist(b, next) \in 1..(NAddrs - o.max)
        PROVE  b \notin up
    <3>1. y.max > 0 /\ o.max = y.max
      BY <1>2, <1>3, <2>1, QUICAssumption
    <3>2. /\ \A e \in Addrs : Dist(e, y.addr) < NAddrs - y.max => e \notin up
          /\ next = After(y.addr) /\ y.addr \in Addrs
      BY <1>1, <1>2, <2>1, <3>1, OutStays DEF Tried
    <3>3. Dist(b, y.addr) = Dist(b, next) - 1
      BY <2>1, <3>2, Distances
    <3>4. Dist(b, y.addr) < NAddrs - y.max
      BY <1>2, <2>1, <3>1, <3>3, QUICAssumption
    <3> QED
      BY <3>2, <3>4
  <2> QED
    BY <1>1, <1>3, <2>1 DEF Tried
<1>7. next' \in Addrs
  BY <1>1, <1>2, NextAddress
<1>8. \A d \in Conns : out'[d] \in Out /\ out'[d].hook = out[d].hook /\ out'[d].early = out[d].early
  BY <1>1, <1>3, <1>4
<1>9. out' \in [Conns -> Out]
  BY <1>1, <1>8
<1>10. Handlers' /\ Count'
  BY <1>1, SameConns DEF IndInv
<1>11. Tracked'
  BY <1>1, <1>8 DEF IndInv, Tracked, TrackersForget
<1>12. Dialing'
  BY <1>1, <1>4, <1>5, <1>6, <1>7, <1>9 DEF IndInv, Dialing
<1> QED
  BY <1>10, <1>11, <1>12 DEF IndInv

\* The backend is closed: if that releases the servers, nobody is counted.
LEMMA ReconfigurePreserves == ASSUME IndInv, Reconfigure PROVE IndInv'
<1>1. /\ be' = CloseGraceful(be) /\ published' \in BOOLEAN /\ h3' \in BOOLEAN
      /\ UNCHANGED <<mode, up, conn, inConns, out, stream, outConns, next>>
  BY DEF Reconfigure
<1>2. Handlers'
  BY <1>1 DEF IndInv, Handlers
<1>3. Count'
  <2>1. Counted' = Counted
    BY <1>1 DEF Counted
  <2>2. /\ be' \in BackendState /\ Sound(be') /\ be'.inFlight = be.inFlight
        /\ be'.server => be.server
        /\ be.server /\ ~be'.server => be'.inFlight = 0
    BY <1>1, Closes DEF IndInv, Count
  <2>3. be.inFlight = 0 => Counted = {}
    BY CountedIsFinite, FS_EmptySet DEF IndInv, Count
  <2>4. Released' => \A c \in Counted : conn[c].late
    BY <1>1, <2>2, <2>3 DEF IndInv, Count, Released, HasServer
  <2> QED
    BY <1>1, <2>1, <2>2, <2>4 DEF IndInv, Count
<1>4. Tracked'
  BY <1>1 DEF IndInv, Tracked, TrackersForget
<1>5. Dialing'
  BY <1>1 DEF IndInv, Dialing, Dials, Tried
<1> QED
  BY <1>2, <1>3, <1>4, <1>5 DEF IndInv

\* The handler of a connection moves on, and not while a stream of it is handed over.
LEMMA SendingStays ==
    ASSUME Sending, NEW c \in Conns, UNCHANGED <<stream, mode>>,
           \A d \in Conns \ {c} : conn'[d] = conn[d],
           stream[c].pc = "sending" => conn'[c].pc = conn[c].pc
    PROVE  Sending'
BY DEF Sending, HasServer

\* A stream of a connection changes.
LEMMA SendingMoves ==
    ASSUME IndInv, Sending, NEW c \in Conns, NEW s, stream' = [stream EXCEPT ![c] = s],
           UNCHANGED mode, \A d \in Conns \ {c} : conn'[d] = conn[d],
           s.pc = "sending" => conn'[c].pc = "serve" /\ HasServer
    PROVE  Sending'
<1>1. stream'[c] = s /\ \A d \in Conns \ {c} : stream'[d] = stream[d]
  BY DEF IndInv, Dialing
<1> QED
  BY <1>1 DEF Sending, HasServer

\* A handler that returns is not waiting for a stream.
LEMMA ReturnSends ==
    ASSUME IndInv, Sending, NEW c \in Conns, Return(c), stream[c].pc # "sending"
    PROVE  Sending'
<1>1. /\ UNCHANGED <<stream, mode>>
      /\ \A d \in Conns \ {c} : conn'[d] = conn[d]
  BY DEF Return, CloseHook, IndInv, Handlers
<1> QED
  BY <1>1, SendingStays

\* Every step keeps the handlers waiting for their streams.
LEMMA SendingPreserves == ASSUME IndInv, Sending, [Next]_vars PROVE Sending'
<1>1. ASSUME UNCHANGED <<stream, conn, mode>> PROVE Sending'
  BY <1>1 DEF Sending, HasServer
<1>2. ASSUME NEW c \in Conns, Handler(c) PROVE Sending'
  <2>1. CASE Accept(c) \/ OnClose(c) \/ CountIn(c) \/ Annotate(c) \/ Admit(c)
    <3>1. /\ conn[c].pc # "serve" /\ UNCHANGED <<stream, mode>>
          /\ \A d \in Conns \ {c} : conn'[d] = conn[d]
      BY <2>1 DEF Accept, OnClose, CountIn, Annotate, Admit, At, Goto, IndInv, Handlers
    <3> QED
      BY <3>1, SendingStays DEF Sending
  <2>2. CASE Lookup(c)
    <3>1. stream[c].pc # "sending"
      BY <2>2 DEF Lookup, At, Sending
    <3>2. CASE published
      <4>1. UNCHANGED <<stream, mode>> /\ \A d \in Conns \ {c} : conn'[d] = conn[d]
        BY <2>2, <3>2 DEF Lookup, Goto, IndInv, Handlers
      <4> QED
        BY <3>1, <4>1, SendingStays
    <3>3. CASE ~published
      BY <2>2, <3>1, <3>3, ReturnSends DEF Lookup
    <3> QED
      BY <3>2, <3>3
  <2>3. CASE Refuse(c)
    BY <2>3, ReturnSends DEF Refuse, At, Sending
  <2>4. CASE EndServing(c)
    BY <2>4, ReturnSends DEF EndServing
  <2>5. CASE AcceptStream(c)
    <3>1. [pc |-> "sending", waited |-> TRUE].pc = "sending" => conn'[c].pc = "serve" /\ HasServer
      BY <2>5 DEF AcceptStream, At
    <3> QED
      BY <2>5, <3>1, SendingMoves DEF AcceptStream
  <2>6. CASE SendStream(c)
    <3>1. \A d \in Conns \ {c} : conn'[d] = conn[d]
      BY <2>6 DEF SendStream, Goto, IndInv, Handlers
    <3>2. NoStream.pc # "sending"
      BY DEF NoStream
    <3> QED
      BY <2>6, <3>1, <3>2, SendingMoves DEF SendStream
  <2>7. CASE TCPStream(c) \/ EndTCPStream(c)
    BY <1>1, <2>7 DEF TCPStream, EndTCPStream
  <2>8. ASSUME NEW waited \in BOOLEAN, StartStream(c, waited) PROVE Sending'
    <3>1. [pc |-> "opening", waited |-> waited].pc # "sending"
      OBVIOUS
    <3> QED
      BY <2>8, <3>1, SendingMoves DEF StartStream
  <2>9. CASE BridgeStream(c)
    <3> DEFINE s == [stream[c] EXCEPT !.pc = "bridged"]
    <3>1. s.pc # "sending" /\ stream' = [stream EXCEPT ![c] = s]
      BY <2>9 DEF BridgeStream, IndInv, Dialing
    <3> HIDE DEF s
    <3> QED
      BY <2>9, <3>1, SendingMoves DEF BridgeStream
  <2>10. CASE EndStream(c)
    BY <2>10, SendingMoves DEF EndStream, NoStream
  <2> QED
    BY <1>2, <2>1, <2>2, <2>3, <2>4, <2>5, <2>6, <2>7, <2>8, <2>9, <2>10 DEF Handler
<1>3. ASSUME NEW c \in Conns, Dialer(c) PROVE Sending'
  <2>1. CASE Draw(c) \/ DialFails(c) \/ DialSucceeds(c) \/ EndOut(c)
    BY <1>1, <2>1 DEF Draw, DialFails, DialSucceeds, EndOut
  <2>2. CASE AddOut(c)
    <3>1. /\ UNCHANGED <<stream, mode>> /\ conn'[c].pc = "serve"
          /\ \A d \in Conns \ {c} : conn'[d] = conn[d]
      BY <2>2 DEF AddOut, Goto, IndInv, Handlers, Conn
    <3> QED
      BY <3>1, SendingStays DEF Sending
  <2>3. CASE Unreachable(c)
    BY <2>3, ReturnSends DEF Unreachable, At, Sending
  <2> QED
    BY <1>3, <2>1, <2>2, <2>3 DEF Dialer
<1>4. ASSUME NEW c \in Conns, Ends(c) PROVE Sending'
  <2>1. CASE ClientCloses(c)
    <3>1. /\ UNCHANGED <<stream, mode>> /\ conn'[c].pc = conn[c].pc
          /\ \A d \in Conns \ {c} : conn'[d] = conn[d]
      BY <2>1 DEF ClientCloses, IndInv, Handlers, Conn
    <3> QED
      BY <3>1, SendingStays
  <2>2. CASE HookGoroutine(c)
    <3>1. /\ UNCHANGED <<stream, mode>> /\ conn'[c].pc = conn[c].pc
          /\ \A d \in Conns \ {c} : conn'[d] = conn[d]
      BY <2>2 DEF HookGoroutine, CloseHook, IndInv, Handlers, Conn
    <3> QED
      BY <3>1, SendingStays
  <2>3. CASE BackendCloses(c) \/ OutHookGoroutine(c)
    BY <1>1, <2>3 DEF BackendCloses, OutHookGoroutine
  <2> QED
    BY <1>4, <2>1, <2>2, <2>3 DEF Ends
<1>5. CASE Reconfigure \/ UNCHANGED vars
  BY <1>1, <1>5 DEF Reconfigure, vars
<1> QED
  BY <1>2, <1>3, <1>4, <1>5 DEF Next

\* Every step keeps the invariant.
LEMMA NextPreserves == IndInv /\ Sending /\ [Next]_vars => (IndInv /\ Sending)'
<1> SUFFICES ASSUME IndInv, Sending, [Next]_vars PROVE IndInv'
  BY SendingPreserves
<1>1. ASSUME NEW c \in Conns, Handler(c) PROVE IndInv'
  BY <1>1, AcceptPreserves, OnClosePreserves, LookupPreserves, CountInPreserves, AnnotatePreserves,
     RefusePreserves, AdmitPreserves, EndServingPreserves, AcceptStreamPreserves,
     SendStreamPreserves, TCPStreamPreserves, EndTCPStreamPreserves, StreamsPreserve
  DEF Handler
<1>2. ASSUME NEW c \in Conns, Dialer(c) PROVE IndInv'
  BY <1>2, DrawPreserves, DialFailsPreserves, DialSucceedsPreserves, AddOutPreserves,
     EndOutPreserves, UnreachablePreserves
  DEF Dialer
<1>3. ASSUME NEW c \in Conns, Ends(c) PROVE IndInv'
  <2>1. CASE OutHookGoroutine(c)
    BY <2>1, OutHookPreserves DEF OutHookGoroutine
  <2> QED
    BY <1>3, <2>1, ClientClosesPreserves, HookGoroutinePreserves, BackendClosesPreserves DEF Ends
<1>4. CASE UNCHANGED vars
  <2>1. Handlers' /\ Count'
    BY <1>4, SameConns DEF IndInv, vars
  <2>2. Tracked'
    BY <1>4 DEF IndInv, Tracked, TrackersForget, vars
  <2>3. Dialing'
    BY <1>4 DEF IndInv, Dialing, Dials, Tried, vars
  <2> QED
    BY <2>1, <2>2, <2>3 DEF IndInv
<1> QED
  BY <1>1, <1>2, <1>3, <1>4, ReconfigurePreserves DEF Next

\* A new backend.
LEMMA InitEstablishes == Init => IndInv /\ Sending
<1> SUFFICES ASSUME Init PROVE IndInv /\ Sending
  OBVIOUS
<1> DEFINE x == [pc |-> "new", open |-> TRUE, hook |-> "unset", numOpen |-> 0,
                 counted |-> FALSE, annotated |-> FALSE, early |-> FALSE, late |-> FALSE]
<1>1. x \in Conn /\ Place(x) /\ ~InCount(x) /\ x.open /\ x.pc = "new"
  <2>1. 0 \in 0..Cardinality(Conns)
    BY CardinalityWithin, QUICAssumption, FS_CardinalityType
  <2> QED
    BY <2>1 DEF Conn, Place, InCount
<1>2. conn = [c \in Conns |-> x]
  BY DEF Init
<1> HIDE DEF x
<1>3. Handlers /\ Counted = {}
  BY <1>1, <1>2 DEF Handlers, Counted
<1>4. /\ NewBackend(HasServer) \in BackendState /\ Sound(NewBackend(HasServer))
      /\ NewBackend(HasServer).inFlight = 0 /\ NewBackend(HasServer).server = HasServer
  <2>1. ASSUME NEW h \in BOOLEAN
        PROVE  /\ NewBackend(h) \in BackendState /\ Sound(NewBackend(h))
               /\ NewBackend(h).inFlight = 0 /\ NewBackend(h).server = h
    <3>1. CASE h
      BY <3>1 DEF NewBackend, BackendState, ChanState, ListenerState, Sound
    <3>2. CASE ~h
      BY <3>2 DEF NewBackend, BackendState, ChanState, ListenerState, Sound
    <3> QED
      BY <3>1, <3>2
  <2>2. HasServer \in BOOLEAN
    BY DEF HasServer
  <2> QED
    BY <2>1, <2>2
<1>5. Count
  BY <1>3, <1>4, FS_EmptySet DEF Init, Count
<1>6. Tracked
  BY DEF Init, Tracked, TrackersForget
<1>7. Dialing
  <2>1. NoOut \in Out /\ NoStream \in [pc : {"none", "sending", "opening", "bridged"}, waited : BOOLEAN]
    BY QUICAssumption DEF NoOut, Out, NoStream
  <2>2. \A c \in Conns : Dials(conn[c].pc, out[c]) /\ Tried(conn[c].open, out[c])
    BY <1>1, <1>2 DEF Init, Dials, Tried, NoOut
  <2> QED
    BY <2>1, <2>2, QUICAssumption DEF Init, Dialing, Addrs
<1>8. Sending
  BY DEF Init, Sending, NoStream
<1> QED
  BY <1>3, <1>5, <1>6, <1>7, <1>8 DEF IndInv

\* The invariant holds in every state of handleQUICConnection, its callbacks and
\* the dialer.
THEOREM Inductive == Spec => []IndInv
BY InitEstablishes, NextPreserves, PTL DEF Spec

\* Every variable has its type; numOpen in particular is never more than there are
\* connections, and a dialer never has more attempts left than addresses.
THEOREM TypeCorrect == Spec => []TypeOK
<1>1. IndInv => TypeOK
  BY DEF IndInv, Handlers, Count, Tracked, Dialing, TypeOK
<1> QED
  BY <1>1, Inductive, PTL

\* The size of a union of two sets that have nothing in common.
LEMMA DisjointUnion ==
    ASSUME NEW S, NEW T, IsFiniteSet(S), IsFiniteSet(T), S \cap T = {}
    PROVE  /\ IsFiniteSet(S \union T)
           /\ Cardinality(S \union T) = Cardinality(S) + Cardinality(T)
<1>1. /\ IsFiniteSet(S \union T)
      /\ Cardinality(S \union T) = Cardinality(S) + Cardinality(T) - Cardinality(S \cap T)
  BY FS_Union
<1>2. Cardinality(S) \in Nat /\ Cardinality(T) \in Nat /\ Cardinality(S \cap T) = 0
  BY FS_CardinalityType, FS_EmptySet
<1> QED
  BY <1>1, <1>2

\* The connections that are counted are the ones that are served, the ones that
\* were leaked and the ones on their way.
LEMMA CountCovers == IndInv => InFlightCovers
<1> SUFFICES ASSUME IndInv PROVE InFlightCovers
  OBVIOUS
<1> DEFINE Counting == {c \in Conns : conn[c].pc = "counted" /\ ~conn[c].early}
<1>1. \A c \in Conns : conn[c] \in Conn /\ Place(conn[c])
  BY DEF IndInv, Handlers
<1>2. ASSUME NEW c \in Conns
      PROVE  /\ c \in Counted <=> c \in Serving \/ c \in Leaked \/ c \in Counting
             /\ c \in Serving => c \notin Leaked /\ c \notin Counting
             /\ c \in Leaked => c \notin Counting
  BY <1>1 DEF Place, Conn, Counted, InCount, Serving, Leaked
<1>3. /\ Serving \subseteq Conns /\ Leaked \subseteq Conns /\ Counting \subseteq Conns
      /\ Counted \subseteq Conns
  BY DEF Serving, Leaked, Counted
<1>4. IsFiniteSet(Serving) /\ IsFiniteSet(Leaked) /\ IsFiniteSet(Counting)
  BY <1>3, QUICAssumption, FS_Subset
<1>5. /\ Serving \cap Leaked = {} /\ (Serving \union Leaked) \cap Counting = {}
      /\ Counted = (Serving \union Leaked) \union Counting
  BY <1>2, <1>3
<1> HIDE DEF Counting
<1>6. /\ Cardinality(Serving \union Leaked) = Cardinality(Serving) + Cardinality(Leaked)
      /\ IsFiniteSet(Serving \union Leaked)
  BY <1>4, <1>5, DisjointUnion
<1>7. Cardinality(Counted) = Cardinality(Serving \union Leaked) + Cardinality(Counting)
  BY <1>4, <1>5, <1>6, DisjointUnion
<1> QED
  BY <1>6, <1>7 DEF InFlightCovers, IndInv, Count, Counting

\* be.inFlight counts the connections that have the backend and the ones that ended
\* too early, the trackers forget the connections that ended, and the servers
\* outlive the connections that were counted in before the backend was released and
\* were not counted out (handleQUICConnection, handleQUICTCPStream, OnClose, incInFlight).
THEOREM ConnsCounted == Spec => []ConnsAreCounted
<1>1. IndInv => TrackersForget
  BY DEF IndInv, Tracked
<1>2. IndInv => ServersOutlive
  <2> SUFFICES ASSUME IndInv, NEW c \in Conns
               PROVE  /\ At(c, "panic") /\ ~conn[c].late => conn[c].hook = "run" /\ ~conn[c].early
                      /\ conn[c].annotated /\ conn[c].hook = "set" /\ ~conn[c].late => ~Released
    BY DEF ServersOutlive
  <2>1. conn[c] \in Conn /\ Place(conn[c])
    BY DEF IndInv, Handlers
  <2>2. conn[c].annotated /\ conn[c].hook = "set" => c \in Counted
    BY <2>1 DEF Counted, InCount, Place, Conn
  <2> QED
    BY <2>1, <2>2 DEF At, Place, IndInv, Count
<1> QED
  BY <1>1, <1>2, CountCovers, Inductive, PTL DEF ConnsAreCounted

\* A dialer that nobody came between gives up only when no address answers (dial,
\* dialQUICBackend).
THEOREM TriesAll == Spec => []DialTriesAll
<1>1. IndInv => DialTriesAll
  BY DEF IndInv, Dialing, Tried, DialTriesAll
<1> QED
  BY <1>1, Inductive, PTL
============================================================================

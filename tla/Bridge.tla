------------------------------- MODULE Bridge -------------------------------
(***************************************************************************)
(* bridgeConns (proxy/backend.go): two goroutines copy between the         *)
(* connection of a client and the connection to a server, each in one      *)
(* direction, and pass on the half-close of a stream according to          *)
(* ServerCloseEndsConnection, ClientCloseEndsConnection and                *)
(* HalfCloseTimeout.                                                       *)
(*                                                                         *)
(* A connection is named by the peer at its other end.  The copier of a    *)
(* direction is named by the connection it reads from.  Data is counted in *)
(* chunks; a connection takes Window chunks that its peer has not read,    *)
(* and then a write to it blocks.  Not every connection can be half-closed *)
(* when a copier wants to: its type may not have CloseWrite, and that of a *)
(* TLS connection fails until the handshake is done, which a connection to *)
(* a server only starts with the first read or write.                      *)
(***************************************************************************)
EXTENDS Naturals

CONSTANTS MaxData,    \* bound: chunks that each peer sends
          Window      \* chunks that a connection takes before its peer reads

Ends == {"client", "server"}

ASSUME SizesAssumption == MaxData \in [Ends -> Nat] /\ Window \in Nat \ {0}

Other(e) == IF e = "client" THEN "server" ELSE "client"

VARIABLES closeWhenDone, \* [Ends -> BOOLEAN]: the two settings of the backend
          half,     \* whether closeWrite works: "yes", "never" (its type has none),
                    \* or a TLS handshake is "pending" or has "failed"
          refused,  \* history: closeWrite failed on a connection that was good
          sent,     \* chunks sent by the peer
          fin,      \* the peer has closed its stream
          gone,     \* the peer has reset the connection
          read,     \* chunks read from the connection by its copier
          got,      \* chunks written to the connection by the other copier
          taken,    \* chunks that the peer has read
          eof,      \* what the peer reads after the chunks: "none" (nothing yet), or
                    \* EOF sent by closeWrite ("half") or by Close ("close")
          deadline, \* the read deadline: "none", "set", "expired"
          closed,   \* the connection is closed
          pc,       \* the place of each copier in forward
          killed,   \* the client's connection was closed from outside
          returned  \* bridgeConns has returned, and the handler that called it

peer == <<sent, fin, gone, taken>>
conn == <<read, got, eof, deadline, closed, refused>>
vars == <<closeWhenDone, half, refused, sent, fin, gone, read, got, taken, eof,
          deadline, closed, pc, killed, returned>>

Places == {"read", "write", "closeWrite", "closeRead", "setDeadline",
           "closeOut", "closeIn", "done"}

Flags ==
    /\ closeWhenDone \in [Ends -> BOOLEAN]
    /\ fin \in [Ends -> BOOLEAN] /\ gone \in [Ends -> BOOLEAN]
    /\ refused \in [Ends -> BOOLEAN] /\ closed \in [Ends -> BOOLEAN]
    /\ killed \in BOOLEAN /\ returned \in BOOLEAN

\* No chunk is made up, written twice or left out.
Chunks ==
    /\ sent \in [Ends -> Nat] /\ read \in [Ends -> Nat]
    /\ got \in [Ends -> Nat] /\ taken \in [Ends -> Nat]
    /\ \A e \in Ends : taken[Other(e)] <= got[Other(e)] /\ got[Other(e)] <= read[e]
                       /\ read[e] <= sent[e] /\ sent[e] <= MaxData[e]

\* Types, and the order of the counts of chunks.
TypeOK ==
    /\ Flags
    /\ deadline \in [Ends -> {"none", "set", "expired"}]
    /\ eof \in [Ends -> {"none", "half", "close"}]
    /\ half \in [Ends -> {"yes", "never", "pending", "failed"}]
    /\ pc \in [Ends -> Places]
    /\ Chunks

-----------------------------------------------------------------------------
(* The peers, and what they do to a connection.                            *)

Send(e) ==
    /\ ~fin[e] /\ ~gone[e] /\ sent[e] < MaxData[e]
    /\ sent' = [sent EXCEPT ![e] = @ + 1]
    /\ UNCHANGED <<fin, gone, taken>>

Fin(e) ==
    /\ ~fin[e] /\ ~gone[e]
    /\ fin' = [fin EXCEPT ![e] = TRUE]
    /\ UNCHANGED <<sent, gone, taken>>

Reset(e) ==
    /\ ~gone[e]
    /\ gone' = [gone EXCEPT ![e] = TRUE]
    /\ UNCHANGED <<sent, fin, taken>>

Take(e) ==
    /\ ~gone[e] /\ taken[e] < got[e]
    /\ taken' = [taken EXCEPT ![e] = @ + 1]
    /\ UNCHANGED <<sent, fin, gone>>

\* What a peer does after its connection was closed makes no difference to the proxy.
Peer(e) ==
    /\ ~closed[e]
    /\ Send(e) \/ Fin(e) \/ Reset(e) \/ Take(e)
    /\ UNCHANGED <<closeWhenDone, half, conn, pc, killed, returned>>

\* The TLS handshake with the server ends, one way or the other.
Handshake(e) ==
    /\ half[e] = "pending" /\ ~closed[e] /\ ~gone[e]
    /\ \/ half' = [half EXCEPT ![e] = "yes"]
       \/ half' = [half EXCEPT ![e] = "failed"]
    /\ UNCHANGED <<closeWhenDone, peer, conn, pc, killed, returned>>

\* A read deadline expires.
Expire(e) ==
    /\ deadline[e] = "set" /\ ~returned
    /\ deadline' = [deadline EXCEPT ![e] = "expired"]
    /\ UNCHANGED <<closeWhenDone, half, peer, read, got, eof, closed, refused, pc, killed, returned>>

\* The connections in S are closed.  A peer that has not been told yet reads EOF after
\* the chunks (FIN, close_notify).  It may get a reset instead, if something that it
\* sent is unread: then it reads less than what is said here.
Close(S) ==
    /\ closed' = [e \in Ends |-> closed[e] \/ e \in S]
    /\ eof' = [e \in Ends |-> IF e \in S /\ ~closed[e] /\ ~gone[e] /\ eof[e] = "none"
                             THEN "close" ELSE eof[e]]

\* Stop or reAuthorize closes the client's connection.
Kill ==
    /\ ~killed /\ ~returned
    /\ killed' = TRUE
    /\ Close({"client"})
    /\ UNCHANGED <<closeWhenDone, half, peer, read, got, deadline, refused, pc, returned>>

-----------------------------------------------------------------------------
(* forward(Other(e), e, closeWhenDone[e], HalfCloseTimeout).               *)

GoTo(e, place) == pc' = [pc EXCEPT ![e] = place]

Unusable(e) == closed[e] \/ gone[e] \/ half[e] = "failed"
Unreadable(e) == Unusable(e) \/ deadline[e] = "expired"

\* A read or a write waits until the handshake is done.
Ready(e) == half[e] # "pending"

\* io.Copy reads a chunk, or nothing more: the end of the stream or an error.
ReadChunk(e) ==
    /\ pc[e] = "read" /\ ~Unreadable(e) /\ Ready(e) /\ read[e] < sent[e]
    /\ read' = [read EXCEPT ![e] = @ + 1]
    /\ GoTo(e, "write")
    /\ UNCHANGED <<got, eof, deadline, closed, refused>>

\* A variant that half-closes where it should close, and the other way around.
ReadEOFInverted(e) ==
    /\ pc[e] = "read" /\ ~Unreadable(e) /\ Ready(e) /\ read[e] = sent[e] /\ fin[e]
    /\ GoTo(e, IF closeWhenDone[e] THEN "closeWrite" ELSE "closeOut")
    /\ UNCHANGED conn

ReadEOF(e) ==
    /\ pc[e] = "read" /\ ~Unreadable(e) /\ Ready(e) /\ read[e] = sent[e] /\ fin[e]
    /\ GoTo(e, IF closeWhenDone[e] THEN "closeOut" ELSE "closeWrite")
    /\ UNCHANGED conn

ReadError(e) ==
    /\ pc[e] = "read" /\ Unreadable(e)
    /\ GoTo(e, "closeOut")
    /\ UNCHANGED conn

\* A variant that writes the chunk again after a short write.
WriteChunkAgain(e) ==
    LET o == Other(e) IN
    /\ pc[e] = "write" /\ ~Unusable(o) /\ Ready(o) /\ got[o] - taken[o] < Window
    /\ got' = [got EXCEPT ![o] = @ + 1]
    /\ GoTo(e, "read") \/ UNCHANGED pc
    /\ UNCHANGED <<read, eof, deadline, closed, refused>>

\* It writes the chunk to the other connection, when there is room.
WriteChunk(e) ==
    LET o == Other(e) IN
    /\ pc[e] = "write" /\ ~Unusable(o) /\ Ready(o) /\ got[o] - taken[o] < Window
    /\ got' = [got EXCEPT ![o] = @ + 1]
    /\ GoTo(e, "read")
    /\ UNCHANGED <<read, eof, deadline, closed, refused>>

WriteError(e) ==
    /\ pc[e] = "write" /\ Unusable(Other(e))
    /\ GoTo(e, "closeOut")
    /\ UNCHANGED conn

\* A variant with the connections swapped.
CloseWriteIn(e) ==
    /\ pc[e] = "closeWrite"
    /\ \/ Unusable(e) /\ GoTo(e, "closeOut") /\ UNCHANGED <<eof, refused>>
       \/ /\ ~Unusable(e) /\ half[e] = "yes"
          /\ GoTo(e, "closeRead")
          /\ eof' = [eof EXCEPT ![e] = "half"]
          /\ UNCHANGED refused
    /\ UNCHANGED <<read, got, deadline, closed>>

\* closeWrite(out) sends the end of the stream, or fails: on a connection that is
\* unusable, and on one that is good, before the end of the handshake or because of
\* its type.
CloseWrite(e) ==
    LET o == Other(e) IN
    /\ pc[e] = "closeWrite"
    /\ \/ /\ Unusable(o)
          /\ GoTo(e, "closeOut")
          /\ UNCHANGED <<eof, refused>>
       \/ /\ ~Unusable(o) /\ half[o] # "yes"
          /\ GoTo(e, "closeOut")
          /\ refused' = [refused EXCEPT ![o] = TRUE]
          /\ UNCHANGED eof
       \/ /\ ~Unusable(o) /\ half[o] = "yes"
          /\ GoTo(e, "closeRead")
          /\ eof' = [eof EXCEPT ![o] = "half"]
          /\ UNCHANGED refused
    /\ UNCHANGED <<read, got, deadline, closed>>

\* closeRead(in) may fail on a TCP connection that is gone.  It does nothing to
\* a TLS connection.
CloseRead(e) ==
    /\ pc[e] = "closeRead"
    /\ \/ Unusable(e) /\ GoTo(e, "closeOut")
       \/ GoTo(e, "setDeadline")
    /\ UNCHANGED conn

\* A variant that leaves the deadline of the other stream alone.
SetNoDeadline(e) ==
    /\ pc[e] = "setDeadline"
    /\ GoTo(e, "done")
    /\ UNCHANGED conn

\* out.SetReadDeadline; an error is ignored.
SetDeadline(e) ==
    /\ pc[e] = "setDeadline"
    /\ deadline' = [deadline EXCEPT ![Other(e)] = IF closed[Other(e)] THEN @ ELSE "set"]
    /\ GoTo(e, "done")
    /\ UNCHANGED <<read, got, eof, closed, refused>>

\* out.Close() and in.Close()
CloseOut(e) ==
    /\ pc[e] = "closeOut"
    /\ Close({Other(e)})
    /\ GoTo(e, "closeIn")
    /\ UNCHANGED <<read, got, deadline, refused>>

CloseIn(e) ==
    /\ pc[e] = "closeIn"
    /\ Close({e})
    /\ GoTo(e, "done")
    /\ UNCHANGED <<read, got, deadline, refused>>

Forward(e) ==
    /\ \/ ReadChunk(e) \/ ReadEOF(e) \/ ReadError(e)
       \/ WriteChunk(e) \/ WriteError(e)
       \/ CloseWrite(e) \/ CloseRead(e) \/ SetDeadline(e)
       \/ CloseOut(e) \/ CloseIn(e)
    /\ UNCHANGED <<closeWhenDone, half, peer, killed, returned>>

\* bridgeConns waits for both copiers; its caller then closes both connections.
Return ==
    /\ ~returned /\ \A e \in Ends : pc[e] = "done"
    /\ returned' = TRUE
    /\ Close(Ends)
    /\ UNCHANGED <<closeWhenDone, half, peer, read, got, deadline, refused, pc, killed>>

-----------------------------------------------------------------------------
\* The connection to a server may be a TLS connection that was just dialed.
Init ==
    /\ closeWhenDone \in [Ends -> BOOLEAN]
    /\ half \in [Ends -> {"yes", "never", "pending"}] /\ half["client"] # "pending"
    /\ refused = [e \in Ends |-> FALSE]
    /\ sent = [e \in Ends |-> 0] /\ read = [e \in Ends |-> 0]
    /\ got = [e \in Ends |-> 0] /\ taken = [e \in Ends |-> 0]
    /\ fin = [e \in Ends |-> FALSE] /\ gone = [e \in Ends |-> FALSE]
    /\ eof = [e \in Ends |-> "none"] /\ closed = [e \in Ends |-> FALSE]
    /\ deadline = [e \in Ends |-> "none"]
    /\ pc = [e \in Ends |-> "read"]
    /\ killed = FALSE /\ returned = FALSE

Next ==
    \/ \E e \in Ends : Peer(e) \/ Handshake(e) \/ Expire(e) \/ Forward(e)
    \/ Kill \/ Return

\* The goroutines run, deadlines expire, and peers read what they are sent and get
\* through the handshake.  The last part is not the proxy's: no deadline ends a
\* blocked write or a handshake.
Fairness ==
    /\ \A e \in Ends : WF_vars(Forward(e)) /\ WF_vars(Expire(e))
    /\ \A e \in Ends : WF_vars(Take(e) /\ Peer(e)) /\ WF_vars(Handshake(e))
    /\ WF_vars(Return)

Spec == Init /\ [][Next]_vars /\ Fairness

-----------------------------------------------------------------------------
\* The peer e has ended its stream, and all of its data was passed on.
Passed(e) == fin[e] /\ got[Other(e)] = sent[e]

\* Something broke the bridge: a close from outside, a reset, a handshake that
\* failed or the half-close timeout.
Broken ==
    \/ killed
    \/ \E e \in Ends : gone[e] \/ half[e] = "failed" \/ deadline[e] = "expired"

\* The end of the stream of e ends the connection: it is configured to, or it could
\* not be passed on without a close.  The latter happens to types that cannot be
\* half-closed, and to a peer that sends nothing before it ends its stream.
EndsAll(e) ==
    /\ Passed(e)
    /\ \/ closeWhenDone[e]
       \/ refused[Other(e)] /\ (half[Other(e)] = "never" \/ sent[e] = 0)

\* A peer reads EOF, whether it comes from closeWrite or from a close of the whole
\* connection, only after all of the data of the other one, which has ended its
\* stream; unless the bridge broke, or the peer itself ended the connection.  EOF
\* from closeWrite is never early, whatever breaks.
EOFIsLast ==
    \A e \in Ends :
        /\ eof[Other(e)] = "half" => Passed(e)
        /\ eof[Other(e)] = "close" => Passed(e) \/ Broken \/ EndsAll(Other(e))

\* What may end a connection.
Reason ==
    \/ Broken
    \/ \A e \in Ends : eof[e] = "half"
    \/ \E e \in Ends : EndsAll(e)

\* The proxy cuts a connection only for a reason: somebody closed or reset it, a
\* handshake failed, the half-close timeout expired, both streams have ended, or
\* one has ended whose end is configured to end the connection or cannot be passed
\* on otherwise, after its data was passed on.  The response to a client that has
\* half-closed its connection is not cut short, except in the last case.
ClosedForAReason == (\E e \in Ends : closed[e]) => Reason

\* Once a stream has ended, or a connection was closed or reset, both copiers
\* return and both connections are closed: "we need to set a deadline to avoid
\* keeping connections open forever" (proxy/backend.go:321-322).
BridgeEnds == (killed \/ \E e \in Ends : fin[e] \/ gone[e]) ~> returned
=============================================================================

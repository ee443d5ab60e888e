--------------------------- MODULE Bridge_proofs ---------------------------
(***************************************************************************)
(* Proofs about the bridge, for any amount of data and any window.         *)
(*                                                                         *)
(* The inductive invariant ties the place of each copier to the chunks it  *)
(* has moved (Flow), to the end of stream it has passed on and the         *)
(* deadline it has set (Ended), and to the reason it has for closing the   *)
(* connections (Justified); and it says when a good connection refuses to  *)
(* be half-closed (Held).                                                  *)
(***************************************************************************)
EXTENDS Bridge, TLAPS

\* Copier e has written what it has read, but for the chunk in its hands.
Flow(e) ==
    /\ pc[e] = "read" => got[Other(e)] = read[e]
    /\ pc[e] = "write" => got[Other(e)] + 1 = read[e]
    /\ pc[e] = "closeWrite" => Passed(e)

\* What copier e has passed on when its stream has ended.
Ended(e) ==
    /\ pc[e] \in {"closeRead", "setDeadline"} => eof[Other(e)] = "half"
    /\ eof[Other(e)] = "half" => Passed(e) /\ pc[e] \notin {"read", "write", "closeWrite"}
    /\ deadline[Other(e)] # "none" => pc[e] = "done"

\* Until the handshake of connection e is done, nothing moves on it; and closeWrite
\* is refused at the end of a stream only, for the reason that EndsAll gives.
Held(e) ==
    /\ half[e] = "pending" => got[e] = 0
    /\ refused[e] => Passed(Other(e)) /\ (half[e] = "never" \/ sent[Other(e)] = 0)

\* Copier e closes connections for a reason.
Justified(e) ==
    /\ pc[e] \in {"closeOut", "closeIn"} => Reason
    /\ pc[e] = "done" => eof[Other(e)] = "half" \/ Reason
    /\ closed[e] => Reason
    /\ eof[e] = "close" => Reason

IndInv ==
    /\ TypeOK
    /\ \A e \in Ends : Flow(e)
    /\ \A e \in Ends : Ended(e)
    /\ \A e \in Ends : Held(e)
    /\ \A e \in Ends : Justified(e)

-----------------------------------------------------------------------------
\* There are two ends, and Other exchanges them.
LEMMA OtherEnd ==
    /\ \A e \in Ends : Other(e) \in Ends /\ Other(e) # e /\ Other(Other(e)) = e
    /\ \A e, f \in Ends : f = e \/ f = Other(e)
BY DEF Ends, Other

-----------------------------------------------------------------------------
\* What happened stays: a reset, an end of stream, a half-close, its failure.
LEMMA Monotone ==
    ASSUME IndInv, [Next]_vars
    PROVE  /\ killed => killed'
           /\ closeWhenDone' = closeWhenDone
           /\ \A e \in Ends : /\ gone[e] => gone'[e]
                              /\ fin[e] => fin'[e] /\ sent'[e] = sent[e]
                              /\ eof[e] = "half" => eof'[e] = "half"
                              /\ refused[e] => refused'[e]
                              /\ half[e] # "pending" => half'[e] = half[e]
<1>1. (killed => killed') /\ closeWhenDone' = closeWhenDone
  BY OtherEnd DEF IndInv, TypeOK, Flags, Chunks, Next, vars, Peer, Send, Fin, Reset, Take, Handshake,
       Expire, Kill, Return, Forward, ReadChunk, ReadEOF, ReadError, WriteChunk, WriteError,
       CloseWrite, CloseRead, SetDeadline, CloseOut, CloseIn, Close, conn, peer
<1>2. \A e \in Ends : gone[e] => gone'[e]
  BY OtherEnd DEF IndInv, TypeOK, Flags, Chunks, Next, vars, Peer, Send, Fin, Reset, Take, Handshake,
       Expire, Kill, Return, Forward, ReadChunk, ReadEOF, ReadError, WriteChunk, WriteError,
       CloseWrite, CloseRead, SetDeadline, CloseOut, CloseIn, Close, conn, peer
<1>3. \A e \in Ends : fin[e] => fin'[e] /\ sent'[e] = sent[e]
  BY OtherEnd DEF IndInv, TypeOK, Flags, Chunks, Next, vars, Peer, Send, Fin, Reset, Take, Handshake,
       Expire, Kill, Return, Forward, ReadChunk, ReadEOF, ReadError, WriteChunk, WriteError,
       CloseWrite, CloseRead, SetDeadline, CloseOut, CloseIn, Close, conn, peer
<1>4. \A e \in Ends : eof[e] = "half" => eof'[e] = "half"
  BY OtherEnd DEF IndInv, TypeOK, Flags, Chunks, Next, vars, Peer, Send, Fin, Reset, Take, Handshake,
       Expire, Kill, Return, Forward, ReadChunk, ReadEOF, ReadError, WriteChunk, WriteError,
       CloseWrite, CloseRead, SetDeadline, CloseOut, CloseIn, Close, conn, peer
<1>5. \A e \in Ends : refused[e] => refused'[e]
  BY OtherEnd DEF IndInv, TypeOK, Flags, Chunks, Next, vars, Peer, Send, Fin, Reset, Take, Handshake,
       Expire, Kill, Return, Forward, ReadChunk, ReadEOF, ReadError, WriteChunk, WriteError,
       CloseWrite, CloseRead, SetDeadline, CloseOut, CloseIn, Close, conn, peer
<1>6. \A e \in Ends : half[e] # "pending" => half'[e] = half[e]
  BY OtherEnd DEF IndInv, TypeOK, Flags, Chunks, Next, vars, Peer, Send, Fin, Reset, Take, Handshake,
       Expire, Kill, Return, Forward, ReadChunk, ReadEOF, ReadError, WriteChunk, WriteError,
       CloseWrite, CloseRead, SetDeadline, CloseOut, CloseIn, Close, conn, peer
<1> QED
  BY <1>1, <1>2, <1>3, <1>4, <1>5, <1>6

\* An ended stream that was passed on stays so: its peer sends no more, and its copier
\* has nothing to write.
LEMMA PassedIsStable ==
    ASSUME IndInv, [Next]_vars, NEW e \in Ends, Passed(e)
    PROVE  Passed(e)'
<1>1. fin'[e] /\ sent'[e] = sent[e]
  BY Monotone DEF Passed
<1>2. got'[Other(e)] = got[Other(e)]
  BY OtherEnd DEF Passed, Flow, IndInv, TypeOK, Flags, Chunks, Next, vars, Peer, Send, Fin, Reset, Take, Handshake,
       Expire, Kill, Return, Forward, ReadChunk, ReadEOF, ReadError, WriteChunk, WriteError,
       CloseWrite, CloseRead, SetDeadline, CloseOut, CloseIn, Close, conn, peer
<1> QED
  BY <1>1, <1>2 DEF Passed

\* A reason does not go away: not even an expired deadline, since its copier is
\* done by then.
LEMMA ReasonIsStable == IndInv /\ [Next]_vars /\ Reason => Reason'
<1> SUFFICES ASSUME IndInv, [Next]_vars, Reason PROVE Reason'
  OBVIOUS
<1> USE Monotone
<1>1. \A e \in Ends : deadline[e] = "expired" => deadline'[e] = "expired"
  BY OtherEnd DEF Ended, IndInv, TypeOK, Flags, Chunks, Next, vars, Peer, Send, Fin, Reset, Take, Handshake,
       Expire, Kill, Return, Forward, ReadChunk, ReadEOF, ReadError, WriteChunk, WriteError,
       CloseWrite, CloseRead, SetDeadline, CloseOut, CloseIn, Close, conn, peer
<1>2. Broken => Broken'
  BY <1>1 DEF Broken
<1>3. ASSUME NEW e \in Ends, EndsAll(e) PROVE EndsAll(e)'
  <2>1. Passed(e)' /\ sent'[e] = sent[e]
    BY <1>3, PassedIsStable DEF EndsAll, Passed
  <2>2. Other(e) \in Ends
    BY OtherEnd
  <2> QED
    BY <1>3, <2>1, <2>2 DEF EndsAll
<1> QED
  BY <1>2, <1>3 DEF Reason

-----------------------------------------------------------------------------
\* The invariant holds at first.
LEMMA InitEstablishes == Init => IndInv
<1> SUFFICES ASSUME Init PROVE IndInv
  OBVIOUS
<1> USE OtherEnd DEF Init
<1>1. TypeOK
  <2>1. Flags
    BY Zenon DEF Flags
  <2>2. deadline \in [Ends -> {"none", "set", "expired"}] /\ pc \in [Ends -> Places]
    BY DEF Places
  <2>3. /\ eof \in [Ends -> {"none", "half", "close"}]
        /\ half \in [Ends -> {"yes", "never", "pending", "failed"}]
    OBVIOUS
  <2>4. Chunks
    BY SizesAssumption DEF Chunks
  <2> QED
    BY <2>1, <2>2, <2>3, <2>4 DEF TypeOK
<1>2. \A e \in Ends : Flow(e) /\ Ended(e) /\ Held(e) /\ Justified(e)
  BY DEF Flow, Ended, Held, Justified
<1> QED
  BY <1>1, <1>2 DEF IndInv

\* A close leaves the flags of the connections flags.
LEMMA CloseFlags ==
    ASSUME NEW S, Close(S), closed \in [Ends -> BOOLEAN]
    PROVE  closed' \in [Ends -> BOOLEAN]
BY DEF Close

\* The peers and the clock.
LEMMA EnvironmentPreserves ==
    ASSUME IndInv, Reason => Reason', \A f \in Ends : Passed(f) => Passed(f)',
           NEW e \in Ends, Peer(e) \/ Handshake(e) \/ Expire(e) \/ Kill
    PROVE  IndInv'
<1> USE OtherEnd, SizesAssumption DEF Peer, Send, Fin, Reset, Take, Handshake, Expire, Kill, Close,
    conn, peer
<1>1. TypeOK'
  <2>1. Flags'
    <3>1. CASE Kill
      <4>1. closed' \in [Ends -> BOOLEAN]
        BY <3>1, CloseFlags DEF IndInv, TypeOK, Flags
      <4> QED
        BY <3>1, <4>1 DEF IndInv, TypeOK, Flags
    <3>2. CASE Peer(e)
      <4>1. fin' \in [Ends -> BOOLEAN] /\ gone' \in [Ends -> BOOLEAN]
        BY <3>2 DEF IndInv, TypeOK, Flags
      <4> QED
        BY <3>2, <4>1 DEF IndInv, TypeOK, Flags
    <3>3. CASE Handshake(e) \/ Expire(e)
      BY <3>3 DEF IndInv, TypeOK, Flags
    <3> QED
      BY <3>1, <3>2, <3>3
  <2>2. (deadline \in [Ends -> {"none", "set", "expired"}] /\ pc \in [Ends -> Places])'
    BY DEF IndInv, TypeOK
  <2>3. /\ eof' \in [Ends -> {"none", "half", "close"}]
        /\ half' \in [Ends -> {"yes", "never", "pending", "failed"}]
    BY DEF IndInv, TypeOK
  <2>4. Chunks'
    <3>1. CASE Send(e) /\ UNCHANGED <<read, got>>
      BY <3>1 DEF IndInv, TypeOK, Chunks
    <3>2. CASE Take(e) /\ UNCHANGED <<read, got>>
      BY <3>2 DEF IndInv, TypeOK, Chunks
    <3>3. CASE UNCHANGED <<sent, read, got, taken>>
      BY <3>3 DEF IndInv, TypeOK, Chunks
    <3> QED
      BY <3>1, <3>2, <3>3
  <2> QED
    BY <2>1, <2>2, <2>3, <2>4 DEF TypeOK
<1>2. \A f \in Ends : Flow(f)'
  BY DEF IndInv, TypeOK, Flags, Chunks, Flow
<1>3. \A f \in Ends : Ended(f)'
  BY DEF IndInv, TypeOK, Flags, Chunks, Ended
<1>4. \A f \in Ends : Held(f)'
  <2>1. got' = got /\ refused' = refused
    OBVIOUS
  <2>2. ASSUME NEW f \in Ends
        PROVE  /\ half'[f] = "pending" => half[f] = "pending"
               /\ half[f] = "never" => half'[f] = "never"
               /\ fin[f] => sent'[f] = sent[f]
    BY DEF IndInv, TypeOK, Flags, Chunks
  <2> QED
    BY <2>1, <2>2 DEF IndInv, Held, Passed
<1>5. Kill => Reason'
  BY DEF Reason, Broken
<1>6. \A f \in Ends : Justified(f)'
  BY <1>5 DEF IndInv, TypeOK, Flags, Chunks, Justified
<1> QED
  BY <1>1, <1>2, <1>3, <1>4, <1>6 DEF IndInv

\* One step of a copier.
LEMMA ForwardPreserves ==
    ASSUME IndInv, Reason => Reason', \A f \in Ends : Passed(f) => Passed(f)',
           NEW e \in Ends, Forward(e)
    PROVE  IndInv'
<1> USE OtherEnd, SizesAssumption DEF Forward, ReadChunk, ReadEOF, ReadError, WriteChunk,
     WriteError, CloseWrite, CloseRead, SetDeadline, CloseOut, CloseIn, Close, GoTo, conn, peer
<1>1. TypeOK'
  <2>1. Flags'
    <3>1. closed' \in [Ends -> BOOLEAN]
      <4>0. closed \in [Ends -> BOOLEAN]
        BY DEF IndInv, TypeOK, Flags
      <4>1. CASE CloseOut(e) \/ CloseIn(e)
        <5>1. Close({Other(e)}) \/ Close({e})
          BY <4>1 DEF CloseOut, CloseIn
        <5> HIDE DEF Close
        <5> QED
          BY <4>0, <5>1, CloseFlags, Zenon
      <4>2. CASE UNCHANGED closed
        BY <4>2 DEF IndInv, TypeOK, Flags
      <4> QED
        BY <4>1, <4>2
    <3>2. refused' \in [Ends -> BOOLEAN]
      <4>1. refused' = refused \/ refused' = [refused EXCEPT ![Other(e)] = TRUE]
        OBVIOUS
      <4> QED
        BY <4>1 DEF IndInv, TypeOK, Flags
    <3>3. UNCHANGED <<closeWhenDone, fin, gone, killed, returned>>
      OBVIOUS
    <3> QED
      BY <3>1, <3>2, <3>3 DEF IndInv, TypeOK, Flags
  <2>2. (deadline \in [Ends -> {"none", "set", "expired"}])'
    BY DEF IndInv, TypeOK
  <2>3. (pc \in [Ends -> Places])'
    BY DEF IndInv, TypeOK, Places
  <2>4. /\ eof' \in [Ends -> {"none", "half", "close"}]
        /\ half' \in [Ends -> {"yes", "never", "pending", "failed"}]
    BY DEF IndInv, TypeOK
  <2>5. Chunks'
    <3>1. CASE ReadChunk(e)
      BY <3>1 DEF IndInv, TypeOK, Chunks, Flow
    <3>2. CASE WriteChunk(e)
      BY <3>2 DEF IndInv, TypeOK, Chunks, Flow
    <3>3. CASE UNCHANGED <<read, got>>
      BY <3>3 DEF IndInv, TypeOK, Chunks
    <3> QED
      BY <3>1, <3>2, <3>3
  <2> QED
    BY <2>1, <2>2, <2>3, <2>4, <2>5 DEF TypeOK
<1>2. \A f \in Ends : Flow(f)'
  BY DEF IndInv, TypeOK, Flags, Chunks, Flow, Passed
<1>3. \A f \in Ends : Ended(f)'
  BY DEF IndInv, TypeOK, Flags, Chunks, Flow, Ended, Passed
<1>4. \A f \in Ends : Held(f)'
  <2>1. half' = half /\ sent' = sent
    OBVIOUS
  <2>2. ASSUME NEW f \in Ends, half[f] = "pending" PROVE got'[f] = got[f]
    BY <2>2 DEF IndInv, TypeOK, Flags, Chunks, Ready
  <2>3. ASSUME NEW f \in Ends, refused'[f], ~refused[f]
        PROVE  Passed(Other(f)) /\ (half[f] = "never" \/ sent[Other(f)] = 0)
    <3>1. pc[Other(f)] = "closeWrite" /\ ~Unusable(f) /\ half[f] # "yes"
      BY <2>3 DEF IndInv, TypeOK, Flags
    <3>2. Passed(Other(f))
      BY <3>1 DEF IndInv, Flow
    <3>3. half[f] = "never" \/ half[f] = "pending"
      BY <3>1 DEF IndInv, TypeOK, Unusable
    <3> QED
      BY <3>2, <3>3 DEF IndInv, Held, Passed
  <2> QED
    BY <2>1, <2>2, <2>3 DEF IndInv, Held
<1>5. pc[e] \notin {"closeOut", "closeIn"} /\ pc'[e] = "closeOut" => Reason'
  <2>1. CASE ReadEOF(e)
    <3>1. fin[e] /\ got[Other(e)] = sent[e] /\ fin' = fin /\ got' = got /\ sent' = sent
      BY <2>1 DEF IndInv, Flow
    <3>2. pc'[e] = "closeOut" => closeWhenDone[e]
      BY <2>1 DEF IndInv, TypeOK
    <3> QED
      BY <3>1, <3>2 DEF Reason, EndsAll, Passed
  <2>2. CASE ReadError(e)
    BY <2>2 DEF IndInv, TypeOK, Flags, Justified, Reason, Broken, Unreadable, Unusable
  <2>3. CASE WriteError(e)
    BY <2>3 DEF IndInv, TypeOK, Flags, Justified, Reason, Broken, Unusable
  <2>4. CASE CloseWrite(e)
    <3>1. CASE Unusable(Other(e))
      BY <2>4, <3>1 DEF IndInv, TypeOK, Flags, Justified, Reason, Broken, Unusable
    <3>2. CASE ~Unusable(Other(e)) /\ half[Other(e)] # "yes"
      <4>1. Passed(e)' /\ refused'[Other(e)]
        BY <2>4, <3>2 DEF IndInv, TypeOK, Flags, Flow
      <4>2. Held(Other(e))'
        BY <1>4
      <4> QED
        BY <4>1, <4>2 DEF Held, Reason, EndsAll
    <3>3. CASE ~Unusable(Other(e)) /\ half[Other(e)] = "yes"
      BY <2>4, <3>3 DEF IndInv, TypeOK
    <3> QED
      BY <3>1, <3>2, <3>3
  <2>5. CASE CloseRead(e)
    BY <2>5 DEF IndInv, TypeOK, Flags, Justified, Reason, Broken, Unusable
  <2>6. CASE ReadChunk(e) \/ WriteChunk(e) \/ SetDeadline(e) \/ CloseOut(e) \/ CloseIn(e)
    BY <2>6 DEF IndInv, TypeOK
  <2> QED
    BY <2>1, <2>2, <2>3, <2>4, <2>5, <2>6
<1>6. \A f \in Ends : Justified(f)'
  <2>1. \A f \in Ends : pc'[f] \in {"closeOut", "closeIn"} => Reason'
    BY <1>5 DEF IndInv, TypeOK, Justified
  <2>2. \A f \in Ends : pc'[f] = "done" => eof'[Other(f)] = "half" \/ Reason'
    BY DEF IndInv, TypeOK, Ended, Justified
  <2>3. \A f \in Ends : closed'[f] \/ eof'[f] = "close" => Reason'
    BY DEF IndInv, TypeOK, Flags, Justified
  <2> QED
    BY <2>1, <2>2, <2>3 DEF Justified
<1> QED
  BY <1>1, <1>2, <1>3, <1>4, <1>6 DEF IndInv

\* The return, when both copiers are done.
LEMMA ReturnPreserves ==
    ASSUME IndInv, Reason => Reason', \A f \in Ends : Passed(f) => Passed(f)', Return
    PROVE  IndInv'
<1> USE OtherEnd DEF Return, Close, peer
<1>1. TypeOK' /\ (\A f \in Ends : Flow(f)')
  BY DEF IndInv, TypeOK, Flags, Chunks, Flow
<1>2. \A f \in Ends : Ended(f)' /\ Held(f)'
  BY DEF IndInv, TypeOK, Ended, Held
<1>3. Reason
  BY DEF IndInv, Justified, Reason
<1>4. \A f \in Ends : Justified(f)'
  BY <1>3 DEF IndInv, TypeOK, Flags, Chunks, Justified
<1> QED
  BY <1>1, <1>2, <1>4 DEF IndInv

\* Every step preserves the invariant.
LEMMA NextPreserves == IndInv /\ [Next]_vars => IndInv'
<1> SUFFICES ASSUME IndInv, [Next]_vars PROVE IndInv'
  OBVIOUS
<1>1. (Reason => Reason') /\ \A f \in Ends : Passed(f) => Passed(f)'
  BY ReasonIsStable, PassedIsStable
<1>2. CASE \E e \in Ends : Peer(e) \/ Handshake(e) \/ Expire(e)
  BY <1>1, <1>2, EnvironmentPreserves
<1>3. CASE \E e \in Ends : Forward(e)
  BY <1>1, <1>3, ForwardPreserves
<1>4. CASE Kill
  BY <1>1, <1>4, EnvironmentPreserves DEF Ends
<1>5. CASE Return
  BY <1>1, <1>5, ReturnPreserves
<1>6. CASE UNCHANGED vars
  BY <1>6 DEF vars, IndInv, TypeOK, Flags, Chunks, Flow, Ended, Held, Justified, Reason, Passed,
     EndsAll, Broken
<1> QED
  BY <1>2, <1>3, <1>4, <1>5, <1>6 DEF Next

\* The inductive invariant of the bridge.
LEMMA Inductive == Spec => []IndInv
BY InitEstablishes, NextPreserves, PTL DEF Spec

-----------------------------------------------------------------------------
\* No chunk is made up or written twice, for any amount of data.
THEOREM TypeCorrect == Spec => []TypeOK
<1>1. IndInv => TypeOK
  BY DEF IndInv
<1> QED
  BY <1>1, Inductive, PTL

\* EOF from closeWrite comes after all of the data, whatever breaks.  EOF from a close
\* does so too, unless the bridge broke or the peer that reads it has ended the
\* connection itself (forward, closeWrite).
THEOREM EndOfStreamIsLast == Spec => []EOFIsLast
<1>1. IndInv => EOFIsLast
  <2> SUFFICES ASSUME IndInv, NEW e \in Ends
               PROVE  /\ eof[Other(e)] = "half" => Passed(e)
                      /\ eof[Other(e)] = "close" => Passed(e) \/ Broken \/ EndsAll(Other(e))
    BY DEF EOFIsLast
  <2>1. eof[Other(e)] = "half" => Passed(e)
    BY DEF IndInv, Ended
  <2>2. ASSUME eof[Other(e)] = "close" PROVE Passed(e) \/ Broken \/ EndsAll(Other(e))
    <3>1. Reason /\ ~ \A f \in Ends : eof[f] = "half"
      BY <2>2, OtherEnd DEF IndInv, Justified
    <3> QED
      BY <3>1, OtherEnd DEF Reason, EndsAll
  <2> QED
    BY <2>1, <2>2
<1> QED
  BY <1>1, Inductive, PTL

\* Connections are cut only for a reason, the failures of closeWrite on a connection
\* that is good included.
THEOREM CutsAreJustified == Spec => []ClosedForAReason
<1>1. IndInv => ClosedForAReason
  BY DEF IndInv, Justified, ClosedForAReason
<1> QED
  BY <1>1, Inductive, PTL
=============================================================================

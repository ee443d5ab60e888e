---------------------------- MODULE Proxy_proofs ----------------------------
(***************************************************************************)
(* Proofs about Proxy, for any number of connections, server names,        *)
(* identities, configurations and reconfigurations.                        *)
(*                                                                         *)
(* The inductive invariant has three parts, each with its own proof that   *)
(* every step keeps it: every Backend is sound (AllSound); what the place  *)
(* of a handler tells about its connection, which others may close at any  *)
(* time (Places); and what is counted, with a Backend that is shutting     *)
(* down never left at zero (InFlightIsExact, AllDraining).                 *)
(* StaleConnIsPermitted is inductive beside them.                          *)
(***************************************************************************)
EXTENDS Proxy, FiniteSetTheorems, TLAPS

-----------------------------------------------------------------------------
(* Facts about the operators of module Backend.                            *)

\* The server is there exactly as long as the channel is open, and the channel
\* has not been closed twice.
Sound(r) == r.chan # "panic" /\ (r.server <=> r.chan = "open")

\* A new backend is sound, whatever its mode.
LEMMA NewBackendSound ==
    ASSUME NEW h \in BOOLEAN
    PROVE  NewBackend(h) \in BackendState /\ Sound(NewBackend(h))
BY DEF NewBackend, BackendState, ChanState, ListenerState, Sound

\* Releasing the server is sound while there is one.
LEMMA ReleaseServerSound ==
    ASSUME NEW r \in BackendState
    PROVE  /\ ReleaseServer(r) \in BackendState
           /\ Sound(r) /\ r.server => Sound(ReleaseServer(r))
BY DEF ReleaseServer, CloseChan, Sound, BackendState, ChanState, ListenerState

\* Every operation on a Backend yields a BackendState, and a sound one if it is
\* given one.
LEMMA BackendOps ==
    ASSUME NEW r \in BackendState
    PROVE  /\ \A d \in Int : /\ IncInFlight(r, d) \in BackendState
                             /\ Sound(r) => Sound(IncInFlight(r, d))
           /\ CloseGraceful(r) \in BackendState
           /\ Sound(r) => Sound(CloseGraceful(r))
           /\ CloseNow(r) \in BackendState
           /\ Sound(r) => Sound(CloseNow(r))
           /\ CloseListener(r) \in BackendState
           /\ Sound(r) => Sound(CloseListener(r))
           /\ EndServe(r) \in BackendState
           /\ Sound(r) => Sound(EndServe(r))
<1>1. ASSUME NEW d \in Int
      PROVE  /\ IncInFlight(r, d) \in BackendState
             /\ Sound(r) => Sound(IncInFlight(r, d))
  <2> DEFINE n == [r EXCEPT !.inFlight = @ + d]
  <2>1. n \in BackendState /\ n.server = r.server /\ n.chan = r.chan
    BY DEF BackendState
  <2>2. IncInFlight(r, d) = n \/ (n.server /\ IncInFlight(r, d) = ReleaseServer(n))
    BY DEF IncInFlight
  <2> HIDE DEF n
  <2> QED
    BY <2>1, <2>2, ReleaseServerSound DEF Sound
<1>2. CloseGraceful(r) \in BackendState /\ (Sound(r) => Sound(CloseGraceful(r)))
  BY DEF CloseGraceful, ReleaseServer, CloseChan, Sound, BackendState, ChanState,
         ListenerState
<1>3. CloseNow(r) \in BackendState /\ (Sound(r) => Sound(CloseNow(r)))
  BY DEF CloseNow, ReleaseServer, CloseChan, Sound, BackendState, ChanState,
         ListenerState
<1>4. /\ CloseListener(r) \in BackendState /\ (Sound(r) => Sound(CloseListener(r)))
      /\ EndServe(r) \in BackendState /\ (Sound(r) => Sound(EndServe(r)))
  BY DEF CloseListener, EndServe, Sound, BackendState, ChanState, ListenerState
<1> QED
  BY <1>1, <1>2, <1>3, <1>4

-----------------------------------------------------------------------------
(* Type correctness.                                                       *)

\* A lookup yields a Backend or nil.
LEMMA LookupType ==
    ASSUME TypeOK, NEW n \in Names
    PROVE  Lookup(n) \in Backends \union {None}
BY DEF Lookup, TypeOK, Backends

\* The initial state has the right types.
LEMMA InitType == Init => TypeOK
<1> SUFFICES ASSUME Init PROVE TypeOK
  OBVIOUS
<1>1. cur \in Gens /\ cfgs \in [Gens -> Configs]
  BY GenAssumption DEF Init, Gens
<1>2. owned \in SUBSET Backends
  BY <1>1, ConfigAssumption DEF Init, BackendsOf, Backends
<1>3. bst \in [Backends -> BackendState]
  BY NewBackendSound DEF Init
<1> QED
  BY <1>1, <1>2, <1>3 DEF Init, TypeOK, PCs, Hooks

\* Counting a connection in or out of any Backend, nil included.
LEMMA IncAt ==
    ASSUME bst \in [Backends -> BackendState]
    PROVE  /\ \A b : [bst EXCEPT ![b] = IncInFlight(@, 1)] \in [Backends -> BackendState]
           /\ \A b : [bst EXCEPT ![b] = IncInFlight(@, -1)] \in [Backends -> BackendState]
<1>1. 1 \in Int /\ -1 \in Int
  OBVIOUS
<1>2. \A b \in Backends : /\ IncInFlight(bst[b], 1) \in BackendState
                          /\ IncInFlight(bst[b], -1) \in BackendState
  BY <1>1, BackendOps
<1> QED
  BY <1>2

\* Every step keeps the types, one action at a time.
LEMMA NextType == TypeOK /\ [Next]_vars => TypeOK'
<1> SUFFICES ASSUME TypeOK, [Next]_vars PROVE TypeOK'
  OBVIOUS
<1>1. ASSUME NEW c \in Conns, Accept(c) PROVE TypeOK'
  BY <1>1 DEF TypeOK, Accept, OthersUnchanged, Goto, PCs, proxyVars, reauthVars,
         shutdownVars, stopVars
<1>2. ASSUME NEW c \in Conns, Track(c) PROVE TypeOK'
  <2>1. AddResult(inConns, c) \in Nat
    <3>1. inConns \union {c} \in SUBSET Conns
      BY DEF TypeOK
    <3> QED
      BY <3>1, ConnsAssumption, FS_Subset, FS_CardinalityType DEF AddResult
  <2> QED
    BY <1>2, <2>1 DEF TypeOK, Track, OthersUnchanged, Goto, PCs, proxyVars, reauthVars,
         shutdownVars, stopVars
<1>3. ASSUME NEW c \in Conns, SetOnClose(c) PROVE TypeOK'
  BY <1>3 DEF TypeOK, SetOnClose, OthersUnchanged, Goto, PCs, Hooks, proxyVars,
         reauthVars, shutdownVars, stopVars
<1>4. ASSUME NEW c \in Conns, CheckMaxOpen(c) PROVE TypeOK'
  BY <1>4 DEF TypeOK, CheckMaxOpen, OthersUnchanged, Goto, PCs, proxyVars,
         reauthVars, shutdownVars, stopVars
<1>5. ASSUME NEW c \in Conns, ClientHello(c) PROVE TypeOK'
  <2>1. pc' \in [Conns -> PCs] /\ named' \in [Conns -> BOOLEAN]
    BY <1>5 DEF TypeOK, ClientHello, Goto, PCs
  <2>2. rekeyed' \in SUBSET Conns
    BY <1>5 DEF TypeOK, ClientHello, Rekey
  <2> QED
    BY <1>5, <2>1, <2>2 DEF TypeOK, ClientHello, OthersUnchanged, proxyVars, reauthVars,
         shutdownVars, stopVars
<1>6. ASSUME NEW c \in Conns, FindBackend(c) PROVE TypeOK'
  BY <1>6, LookupType, ClientAssumption DEF TypeOK, FindBackend, OthersUnchanged, Goto, PCs,
         proxyVars, reauthVars, shutdownVars, stopVars
<1>7. ASSUME NEW c \in Conns, Annotate(c) PROVE TypeOK'
  BY <1>7 DEF TypeOK, Annotate, OthersUnchanged, Goto, PCs, proxyVars, reauthVars,
         shutdownVars, stopVars
<1>8. ASSUME NEW c \in Conns, CountIn(c) PROVE TypeOK'
  <2>1. bst' \in [Backends -> BackendState]
    BY <1>8, IncAt DEF TypeOK, CountIn
  <2> QED
    BY <1>8, <2>1 DEF TypeOK, CountIn, OthersUnchanged, Goto, PCs, proxyVars, reauthVars,
         shutdownVars, stopVars
<1>9. ASSUME NEW c \in Conns, Handshake(c) PROVE TypeOK'
  <2>1. pc' \in [Conns -> PCs]
    BY <1>9 DEF TypeOK, Handshake, Goto, PCs
  <2>2. cert' \in [Conns -> Ids \union {None}]
    <3>1. (IF Config(be[c]).clientAuth THEN CertOf[c] ELSE None) \in Ids \union {None}
      BY ClientAssumption
    <3> QED
      BY <1>9, <3>1 DEF TypeOK, Handshake
  <2> QED
    BY <1>9, <2>1, <2>2 DEF TypeOK, Handshake, OthersUnchanged, proxyVars, reauthVars,
         shutdownVars, stopVars
<1>10. ASSUME NEW c \in Conns, SendToServer(c) PROVE TypeOK'
  BY <1>10 DEF TypeOK, SendToServer, OthersUnchanged, Goto, PCs, proxyVars,
         reauthVars, shutdownVars, stopVars
<1>11. ASSUME NEW c \in Conns, DialBackend(c) PROVE TypeOK'
  BY <1>11 DEF TypeOK, DialBackend, OthersUnchanged, Goto, PCs, proxyVars,
         reauthVars, shutdownVars, stopVars
<1>12. ASSUME NEW c \in Conns, EndBridge(c) PROVE TypeOK'
  BY <1>12 DEF TypeOK, EndBridge, OthersUnchanged, Goto, PCs, proxyVars,
         reauthVars, shutdownVars, stopVars
<1>13. ASSUME NEW c \in Conns, EndServed(c) PROVE TypeOK'
  BY <1>13 DEF TypeOK, EndServed, OthersUnchanged, Goto, CloseConn, PCs, Hooks,
         proxyVars, reauthVars, shutdownVars, stopVars
<1>14. ASSUME NEW c \in Conns, Return(c) PROVE TypeOK'
  BY <1>14 DEF TypeOK, Return, OthersUnchanged, Goto, CloseConn, PCs, Hooks,
         proxyVars, reauthVars, shutdownVars, stopVars
<1>15. ASSUME NEW c \in Conns, OnCloseRemove(c) PROVE TypeOK'
  BY <1>15 DEF TypeOK, OnCloseRemove, Hooks, proxyVars, handlerVars, reauthVars,
         shutdownVars, stopVars
<1>16. ASSUME NEW c \in Conns, OnCloseDec(c) PROVE TypeOK'
  <2>1. bst' \in [Backends -> BackendState]
    BY <1>16, IncAt DEF TypeOK, OnCloseDec
  <2> QED
    BY <1>16, <2>1 DEF TypeOK, OnCloseDec, Hooks, proxyVars, handlerVars, reauthVars,
         shutdownVars, stopVars
<1>17. ASSUME NEW c \in Conns, OnCloseNotify(c) PROVE TypeOK'
  BY <1>17 DEF TypeOK, OnCloseNotify, Hooks, proxyVars, handlerVars, reauthVars,
         stopVars
<1>18. ASSUME NEW b \in Backends, CloseListenerOf(b) PROVE TypeOK'
  <2>1. bst' \in [Backends -> BackendState]
    BY <1>18, BackendOps DEF TypeOK, CloseListenerOf
  <2> QED
    BY <1>18, <2>1 DEF TypeOK, CloseListenerOf, proxyVars, handlerVars, closeVars,
         reauthVars, shutdownVars, stopVars
<1>19. ASSUME NEW b \in Backends, EndServeOf(b) PROVE TypeOK'
  <2>1. bst' \in [Backends -> BackendState]
    BY <1>19, BackendOps DEF TypeOK, EndServeOf
  <2> QED
    BY <1>19, <2>1 DEF TypeOK, EndServeOf, proxyVars, handlerVars, closeVars, reauthVars,
         shutdownVars, stopVars
<1>20. ASSUME NEW cfg \in Configs, Reconfigure(cfg) PROVE TypeOK'
  <2>1. cur' \in Gens /\ cfgs' \in [Gens -> Configs]
    BY <1>20, GenAssumption DEF TypeOK, Reconfigure, Gens
  <2>2. owned' \in SUBSET Backends
    BY <1>20, <2>1, ConfigAssumption DEF Reconfigure, BackendsOf, Backends
  <2>3. bst' \in [Backends -> BackendState]
    <3>1. \A b \in Backends : Build(cur + 1, cfg)[b] \in BackendState
      BY NewBackendSound DEF Build, TypeOK
    <3> QED
      BY <1>20, <3>1, BackendOps DEF TypeOK, Reconfigure
  <2>4. reauth' \in [Gens -> {"none", "started", "running"}]
    BY <1>20 DEF TypeOK, Reconfigure
  <2> QED
    BY <1>20, <2>1, <2>2, <2>3, <2>4 DEF TypeOK, Reconfigure, handlerVars,
         closeVars, shutdownVars, stopVars
<1>21. ASSUME NEW g \in Gens, ReAuthSnapshot(g) PROVE TypeOK'
  BY <1>21 DEF TypeOK, ReAuthSnapshot, proxyVars, handlerVars, closeVars,
         shutdownVars, stopVars
<1>22. ASSUME NEW g \in Gens, NEW c \in Conns, ReAuthConn(g, c) PROVE TypeOK'
  BY <1>22 DEF TypeOK, ReAuthConn, CloseConn, Hooks, proxyVars, handlerVars,
         shutdownVars, stopVars
<1>23. CASE Shutdown
  <2>1. bst' \in [Backends -> BackendState]
    BY <1>23, BackendOps DEF TypeOK, Shutdown
  <2> QED
    BY <1>23, <2>1 DEF TypeOK, Shutdown, handlerVars, closeVars, reauthVars, stopVars
<1>24. CASE WaiterCheck
  BY <1>24 DEF TypeOK, WaiterCheck, proxyVars, handlerVars, closeVars, reauthVars,
         stopVars
<1>25. CASE WaiterWait
  BY <1>25 DEF TypeOK, WaiterWait, proxyVars, handlerVars, closeVars, reauthVars,
         stopVars
<1>26. CASE ShutdownDone
  BY <1>26 DEF TypeOK, ShutdownDone, proxyVars, handlerVars, closeVars, reauthVars,
         stopVars
<1>27. CASE GraceExpires
  BY <1>27 DEF TypeOK, GraceExpires, proxyVars, handlerVars, closeVars, reauthVars,
         stopVars
<1>28. CASE CancelContext
  BY <1>28 DEF TypeOK, CancelContext, handlerVars, closeVars, reauthVars,
         shutdownVars, stopVars
<1>29. ASSUME NEW s \in Stoppers, StopLock(s) PROVE TypeOK'
  BY <1>29 DEF TypeOK, StopLock, handlerVars, closeVars, reauthVars, shutdownVars
<1>30. ASSUME NEW s \in Stoppers, StopCloseBackends(s) PROVE TypeOK'
  <2>1. bst' \in [Backends -> BackendState]
    BY <1>30, BackendOps DEF TypeOK, StopCloseBackends
  <2> QED
    BY <1>30, <2>1 DEF TypeOK, StopCloseBackends, proxyVars, handlerVars, closeVars,
         reauthVars, shutdownVars
<1>31. ASSUME NEW s \in Stoppers, NEW c \in Conns, StopCloseConn(s, c) PROVE TypeOK'
  BY <1>31 DEF TypeOK, StopCloseConn, CloseConn, Hooks, proxyVars, handlerVars,
         reauthVars, shutdownVars
<1>32. CASE UNCHANGED vars
  BY <1>32 DEF TypeOK, vars, proxyVars, handlerVars, closeVars, reauthVars,
         shutdownVars, stopVars
<1> QED
  BY <1>1, <1>2, <1>3, <1>4, <1>5, <1>6, <1>7, <1>8, <1>9, <1>10, <1>11, <1>12,
     <1>13, <1>14, <1>15, <1>16, <1>17, <1>18, <1>19, <1>20, <1>21, <1>22, <1>23, <1>24,
     <1>25, <1>26, <1>27, <1>28, <1>29, <1>30, <1>31, <1>32
  DEF Next, Handler, HandlerStep, OnClose, HTTPServer, ReAuthorize, Stop

\* Type correctness of the whole proxy, whatever its configurations and however
\* many connections and reconfigurations there are.
THEOREM TypeCorrect == Spec => []TypeOK
BY InitType, NextType, PTL DEF Spec

-----------------------------------------------------------------------------
(* No channel is closed twice.                                             *)

\* Every Backend is sound: this is what makes ChannelClosedOnce inductive, for
\* only the presence of the server says that the channel may still be closed.
AllSound == \A b \in Backends : Sound(bst[b])

\* The operations that leave every Backend alone.
LEMMA BackendsUntouched ==
    /\ \A c \in Conns :
           \/ Accept(c) \/ Track(c) \/ SetOnClose(c) \/ CheckMaxOpen(c)
           \/ ClientHello(c) \/ FindBackend(c) \/ Annotate(c) \/ Handshake(c)
           \/ SendToServer(c) \/ DialBackend(c) \/ EndBridge(c) \/ EndServed(c)
           \/ Return(c) \/ OnCloseRemove(c) \/ OnCloseNotify(c)
           => bst' = bst
    /\ \A g \in Gens : ReAuthorize(g) => bst' = bst
    /\ \/ WaiterCheck \/ WaiterWait \/ ShutdownDone \/ GraceExpires \/ CancelContext
       => bst' = bst
    /\ \A s \in Stoppers : StopLock(s) => bst' = bst
    /\ \A s \in Stoppers, c \in Conns : StopCloseConn(s, c) => bst' = bst
BY DEF Accept, Track, SetOnClose, CheckMaxOpen, ClientHello, FindBackend, Annotate,
       Handshake, SendToServer, DialBackend, EndBridge, EndServed, Return,
       OnCloseRemove, OnCloseNotify, ReAuthorize, ReAuthSnapshot, ReAuthConn,
       WaiterCheck, WaiterWait, ShutdownDone, GraceExpires, CancelContext, StopLock,
       StopCloseConn

\* Counting a connection in or out keeps every Backend sound.
LEMMA IncSound ==
    ASSUME bst \in [Backends -> BackendState], AllSound
    PROVE  \A b : \A a \in Backends :
               /\ Sound([bst EXCEPT ![b] = IncInFlight(@, 1)][a])
               /\ Sound([bst EXCEPT ![b] = IncInFlight(@, -1)][a])
<1>1. 1 \in Int /\ -1 \in Int
  OBVIOUS
<1>2. \A b \in Backends : /\ Sound(IncInFlight(bst[b], 1))
                          /\ Sound(IncInFlight(bst[b], -1))
  BY <1>1, BackendOps DEF AllSound
<1> QED
  BY <1>2 DEF AllSound

\* Every step keeps every Backend sound.
LEMMA NextSound == TypeOK /\ AllSound /\ [Next]_vars => AllSound'
<1> SUFFICES ASSUME TypeOK, AllSound, [Next]_vars PROVE AllSound'
  OBVIOUS
<1> USE DEF AllSound
<1>1. ASSUME NEW c \in Conns, CountIn(c) PROVE AllSound'
  BY <1>1, IncSound DEF CountIn, TypeOK
<1>2. ASSUME NEW c \in Conns, OnCloseDec(c) PROVE AllSound'
  BY <1>2, IncSound DEF OnCloseDec, TypeOK
<1>3. ASSUME NEW b \in Backends, CloseListenerOf(b) PROVE AllSound'
  BY <1>3, BackendOps DEF CloseListenerOf, TypeOK
<1>4. ASSUME NEW b \in Backends, EndServeOf(b) PROVE AllSound'
  BY <1>4, BackendOps DEF EndServeOf, TypeOK
<1>5. ASSUME NEW cfg \in Configs, Reconfigure(cfg) PROVE AllSound'
  <2>1. \A b \in Backends : Sound(Build(cur + 1, cfg)[b])
    BY NewBackendSound DEF Build
  <2> QED
    BY <1>5, <2>1, BackendOps DEF Reconfigure, TypeOK
<1>6. CASE Shutdown
  BY <1>6, BackendOps DEF Shutdown, TypeOK
<1>7. ASSUME NEW s \in Stoppers, StopCloseBackends(s) PROVE AllSound'
  BY <1>7, BackendOps DEF StopCloseBackends, TypeOK
<1>8. CASE bst' = bst
  BY <1>8
<1>9. CASE UNCHANGED vars
  BY <1>9 DEF vars
<1> QED
  BY <1>1, <1>2, <1>3, <1>4, <1>5, <1>6, <1>7, <1>8, <1>9,
     BackendsUntouched
  DEF Next, Handler, HandlerStep, OnClose, HTTPServer, Stop

\* Every Backend is sound, always.
LEMMA BackendsAreSound == Spec => []AllSound
<1>1. Init => AllSound
  <2> SUFFICES ASSUME Init, NEW b \in Backends PROVE Sound(bst[b])
    BY DEF AllSound
  <2> DEFINE h == b \in owned /\ Config(b).mode = "HTTP"
  <2>1. h \in BOOLEAN /\ bst[b] = NewBackend(h)
    BY DEF Init
  <2> QED
    BY <2>1, NewBackendSound
<1> QED
  BY <1>1, NextSound, TypeCorrect, PTL DEF Spec

\* No interleaving of incInFlight, be.close(ctx) and be.close(nil) closes the
\* httpConnChan of a Backend twice, which would be a panic under be.state.mu in
\* whatever goroutine came second.
THEOREM NoDoubleClose == Spec => []ChannelClosedOnce
<1>1. AllSound => ChannelClosedOnce
  BY DEF AllSound, Sound, ChannelClosedOnce
<1> QED
  BY <1>1, BackendsAreSound, PTL

-----------------------------------------------------------------------------
(* The handlers implement the admission control.                           *)

\* A step of a handler moves its own stage only.
LEMMA StageMove ==
    ASSUME TypeOK, NEW c \in Conns, NEW l, Goto(c, l)
    PROVE  admissionStage' = [admissionStage EXCEPT ![c] = AdmissionStage(l)]
BY DEF TypeOK, Goto, admissionStage

\* A step within a stage is a stutter of the admission control.
LEMMA MoveWithin ==
    ASSUME TypeOK, NEW c \in Conns, NEW l, Goto(c, l),
           AdmissionStage(l) = AdmissionStage(pc[c]),
           UNCHANGED <<inConns, numOpen>>
    PROVE  UNCHANGED ADM!admissionVars
<1>1. admissionStage[c] = AdmissionStage(l)
  BY DEF admissionStage
<1>2. admissionStage' = [admissionStage EXCEPT ![c] = AdmissionStage(l)]
  BY StageMove
<1>3. admissionStage' = admissionStage
  BY <1>1, <1>2 DEF admissionStage
<1> QED
  BY <1>3 DEF ADM!admissionVars

\* The end of a handler that is counted or admitted is a Finish.
LEMMA MoveOver ==
    ASSUME TypeOK, NEW c \in Conns, NEW l \in {"returning", "done"}, Goto(c, l),
           AdmissionStage(pc[c]) \in {"counted", "admitted"},
           UNCHANGED <<inConns, numOpen>>
    PROVE  ADM!Finish(c)
<1>1. admissionStage[c] \in {"counted", "admitted"}
  BY DEF admissionStage
<1>2. AdmissionStage(l) = "over"
  BY DEF AdmissionStage
<1> QED
  BY <1>1, <1>2, StageMove DEF ADM!Finish

\* A step that moves no handler and leaves the tracker alone is a stutter.
LEMMA NoMove ==
    ASSUME UNCHANGED <<pc, inConns, numOpen>>
    PROVE  UNCHANGED ADM!admissionVars
BY DEF ADM!admissionVars, admissionStage

\* Every step of a handler is a step or a stutter of the admission control.
LEMMA HandlerRefines ==
    ASSUME TypeOK, NEW c \in Conns, Handler(c)
    PROVE  ADM!Next \/ UNCHANGED ADM!admissionVars
<1>1. CASE Accept(c)
  BY <1>1, MoveWithin, MoveOver DEF Accept, AdmissionStage, ADM!Next
<1>2. CASE SetOnClose(c)
  BY <1>2, MoveWithin, MoveOver DEF SetOnClose, AdmissionStage, ADM!Next
<1>3. CASE ClientHello(c)
  BY <1>3, MoveWithin, MoveOver DEF ClientHello, AdmissionStage, ADM!Next
<1>4. CASE FindBackend(c)
  BY <1>4, MoveWithin, MoveOver DEF FindBackend, AdmissionStage, ADM!Next
<1>5. CASE Annotate(c)
  BY <1>5, MoveWithin, MoveOver DEF Annotate, AdmissionStage, ADM!Next
<1>6. CASE CountIn(c)
  BY <1>6, MoveWithin, MoveOver DEF CountIn, AdmissionStage, ADM!Next
<1>7. CASE Handshake(c)
  BY <1>7, MoveWithin, MoveOver DEF Handshake, AdmissionStage, ADM!Next
<1>8. CASE SendToServer(c)
  BY <1>8, MoveWithin, MoveOver DEF SendToServer, AdmissionStage, ADM!Next
<1>9. CASE DialBackend(c)
  BY <1>9, MoveWithin, MoveOver DEF DialBackend, AdmissionStage, ADM!Next
<1>10. CASE EndBridge(c)
  BY <1>10, MoveWithin, MoveOver DEF EndBridge, AdmissionStage, ADM!Next
<1>11. CASE EndServed(c)
  BY <1>11, MoveWithin, MoveOver DEF EndServed, AdmissionStage, ADM!Next
<1>12. CASE Return(c)
  BY <1>12, MoveWithin, MoveOver DEF Return, AdmissionStage, ADM!Next
<1>13. CASE Track(c)
  <2>1. admissionStage[c] = "new" /\ AdmissionStage("added") = "counted"
    BY <1>13 DEF Track, admissionStage, AdmissionStage
  <2>2. admissionStage' = [admissionStage EXCEPT ![c] = "counted"]
    BY <1>13, <2>1, StageMove DEF Track
  <2>3. AddResult(inConns, c) = ADM!AddResult(inConns, c)
    BY DEF AddResult, ADM!AddResult, Cardinality, ADM!Cardinality
  <2>4. ADM!Add(c)
    BY <1>13, <2>1, <2>2, <2>3 DEF Track, ADM!Add
  <2> QED
    BY <2>4 DEF ADM!Next
<1>14. CASE CheckMaxOpen(c)
  <2>1. CASE numOpen[c] >= cfgs[cur].maxOpen
    BY <1>14, <2>1, MoveOver DEF CheckMaxOpen, AdmissionStage, ADM!Next
  <2>2. CASE ~(numOpen[c] >= cfgs[cur].maxOpen)
    <3>1. cfgs[cur].maxOpen \in 1 .. OpenLimit /\ numOpen[c] \in Nat
      BY ConfigAssumption DEF TypeOK
    <3>2. numOpen[c] < OpenLimit
      BY <2>2, <3>1, LimitAssumption
    <3>3. admissionStage[c] = "counted" /\ AdmissionStage("hello") = "admitted"
      BY <1>14 DEF CheckMaxOpen, admissionStage, AdmissionStage
    <3>4. admissionStage' = [admissionStage EXCEPT ![c] = "admitted"]
      BY <1>14, <2>2, <3>3, StageMove DEF CheckMaxOpen
    <3>5. ADM!Admit(c)
      BY <1>14, <3>2, <3>3, <3>4 DEF CheckMaxOpen, ADM!Admit, ADM!BelowLimit
    <3> QED
      BY <3>5 DEF ADM!Next
  <2> QED
    BY <2>1, <2>2
<1> QED
  BY <1>1, <1>2, <1>3, <1>4, <1>5, <1>6, <1>7, <1>8, <1>9, <1>10, <1>11, <1>12,
     <1>13, <1>14
  DEF Handler, HandlerStep

\* Every other step only touches the tracker through the close callback.
LEMMA OthersRefine ==
    ASSUME [Next]_vars, ~\E c \in Conns : Handler(c)
    PROVE  ADM!Next \/ UNCHANGED ADM!admissionVars
<1>1. ASSUME NEW c \in Conns, OnCloseRemove(c)
      PROVE  ADM!Next \/ UNCHANGED ADM!admissionVars
  <2>1. admissionStage' = admissionStage
    BY <1>1 DEF OnCloseRemove, handlerVars, admissionStage
  <2>2. CASE c \in inConns /\ c \notin rekeyed
    <3>1. ADM!Remove(c)
      BY <1>1, <2>1, <2>2 DEF OnCloseRemove, handlerVars, ADM!Remove
    <3> QED
      BY <3>1 DEF ADM!Next
  <2>3. CASE c \notin inConns \/ c \in rekeyed
    BY <1>1, <2>1, <2>3 DEF OnCloseRemove, handlerVars, ADM!admissionVars
  <2> QED
    BY <2>2, <2>3
<1>2. ASSUME NEW c \in Conns, OnCloseDec(c) \/ OnCloseNotify(c)
      PROVE  UNCHANGED <<pc, inConns, numOpen>>
  BY <1>2 DEF OnCloseDec, OnCloseNotify, handlerVars
<1>3. ASSUME NEW b \in Backends, HTTPServer(b)
      PROVE  UNCHANGED <<pc, inConns, numOpen>>
  BY <1>3 DEF HTTPServer, CloseListenerOf, EndServeOf, handlerVars, closeVars
<1>4. ASSUME NEW cfg \in Configs, Reconfigure(cfg)
      PROVE  UNCHANGED <<pc, inConns, numOpen>>
  BY <1>4 DEF Reconfigure, handlerVars, closeVars
<1>5. ASSUME NEW g \in Gens, ReAuthorize(g)
      PROVE  UNCHANGED <<pc, inConns, numOpen>>
  BY <1>5 DEF ReAuthorize, ReAuthSnapshot, ReAuthConn, handlerVars, closeVars
<1>6. CASE Shutdown \/ WaiterCheck \/ WaiterWait \/ ShutdownDone
  BY <1>6, NoMove DEF Shutdown, WaiterCheck, WaiterWait, ShutdownDone, handlerVars,
                      closeVars
<1>7. CASE GraceExpires \/ CancelContext
  BY <1>7, NoMove DEF GraceExpires, CancelContext, handlerVars, closeVars
<1>8. ASSUME NEW s \in Stoppers, Stop(s)
      PROVE  UNCHANGED <<pc, inConns, numOpen>>
  BY <1>8 DEF Stop, StopLock, StopCloseBackends, StopCloseConn, handlerVars, closeVars
<1>9. CASE UNCHANGED vars
  BY <1>9, NoMove DEF vars, handlerVars, closeVars
<1> QED
  BY <1>1, <1>2, <1>3, <1>4, <1>5, <1>6, <1>7, <1>8, <1>9, NoMove DEF Next, OnClose

\* The proxy implements the admission control: with any number of handlers, and
\* with Reconfigure, reAuthorize, Shutdown and Stop closing connections under
\* them, what handleConnection does to the tracker and to its count is what
\* module Admission allows, for the largest MaxOpen of any configuration.
THEOREM Refinement == Spec => ImplementsAdmission
<1>1. Init => ADM!Init
  BY DEF Init, ADM!Init, admissionStage, AdmissionStage
<1>2. TypeOK /\ [Next]_vars => [ADM!Next]_ADM!admissionVars
  BY HandlerRefines, OthersRefine
<1> QED
  BY <1>1, <1>2, TypeCorrect, PTL DEF Spec, ImplementsAdmission, ADM!Spec

-----------------------------------------------------------------------------
(* Where a connection is, and the tracker.                                 *)

\* What the place of its handler tells about a connection, while Stop and
\* reAuthorize may have closed it.  A close callback is run before the handler has
\* annotated the connection only when the proxy stops, for reAuthorize closes none
\* that is not annotated.
Placed(c) ==
    /\ pc[c] \in {"idle", "start", "added"} <=> hook[c] = "unset"
    /\ pc[c] \in {"idle", "start", "added", "hooked", "hello", "named"} => be[c] = None
    /\ pc[c] \in {"found", "annotated"} => be[c] # None
    /\ annot[c] = IF pc[c] = "found" THEN None ELSE be[c]
    /\ pc[c] = "named" \/ be[c] # None => named[c]
    /\ pc[c] \in {"idle", "start", "added", "hooked", "hello", "named", "found", "annotated",
                  "handshake"} => cert[c] = None
    /\ be[c] # None => be[c][1] <= cur
    /\ ended[c] \in {None, be[c]}
    /\ hook[c] \notin {"notify", "done"} => ended[c] = None
    /\ ~ctxDone /\ hook[c] \notin {"unset", "set"} =>
          /\ pc[c] \notin {"hooked", "hello", "named", "found"}
          /\ hook[c] \in {"notify", "done"} => ended[c] = annot[c]

\* Stop has begun only when p.ctx is done, and reAuthorize has not begun for a
\* configuration that is not there yet.
Begun ==
    /\ \A s \in Stoppers : stop[s] # "none" => ctxDone
    /\ \A g \in Gens : g > cur => reauth[g] = "none"

\* The handlers and their connections, with the tracker.
Places == Begun /\ TrackedUntilRemoved /\ \A c \in Conns : Placed(c)

\* From the handshake on, a handler keeps its backend: authorizeTLSConnection, handleHTTP
\* and the bridge only move it on, or make it return.
LEMMA LateMove ==
    ASSUME TypeOK, Places, NEW c \in Conns,
           NEW l \in {"ready", "served", "dropped", "bridging", "returning"},
           pc[c] \in {"handshake", "ready", "bridging"},
           pc' = [pc EXCEPT ![c] = l], OthersUnchanged,
           UNCHANGED <<named, rekeyed, be, annot, hook, inConns>>,
           \A d \in Conns \ {c} : cert'[d] = cert[d]
    PROVE  Places'
<1> USE DEF OthersUnchanged, proxyVars, reauthVars, shutdownVars, stopVars
<1>1. Begun'
  BY DEF Places, Begun
<1>2. pc'[c] = l /\ \A d \in Conns \ {c} : pc'[d] = pc[d]
  BY DEF TypeOK
<1>3. TrackedUntilRemoved'
  BY <1>2 DEF Places, TrackedUntilRemoved
<1>4. Placed(c)'
  BY <1>2 DEF Places, Placed
<1>5. ASSUME NEW d \in Conns \ {c} PROVE Placed(d)'
  BY <1>2, <1>5 DEF Places, Placed
<1> QED
  BY <1>1, <1>3, <1>4, <1>5 DEF Places

\* The handshake, the hand over to the HTTP server and the dial are such moves.
LEMMA LateMoves ==
    ASSUME TypeOK, Places, NEW c \in Conns,
           Handshake(c) \/ SendToServer(c) \/ DialBackend(c) \/ EndBridge(c)
    PROVE  Places'
<1>1. CASE Handshake(c)
  <2>1. \E l \in {"ready", "returning"} : Goto(c, l)
    BY <1>1, Zenon DEF Handshake
  <2>2. \A d \in Conns \ {c} : cert'[d] = cert[d]
    BY <1>1 DEF Handshake, TypeOK
  <2>3. /\ pc[c] = "handshake" /\ OthersUnchanged
        /\ UNCHANGED <<named, rekeyed, be, annot, hook, inConns>>
    BY <1>1 DEF Handshake
  <2> QED
    BY <2>1, <2>2, <2>3, LateMove DEF Goto
<1>2. CASE SendToServer(c)
  <2>1. \E l \in {"served", "dropped", "returning"} : Goto(c, l)
    BY <1>2, Zenon DEF SendToServer
  <2>2. /\ pc[c] = "ready" /\ OthersUnchanged
        /\ UNCHANGED <<named, rekeyed, be, annot, hook, inConns, cert>>
    BY <1>2 DEF SendToServer
  <2> QED
    BY <2>1, <2>2, LateMove DEF Goto
<1>3. CASE DialBackend(c)
  <2>1. \E l \in {"bridging", "returning"} : Goto(c, l)
    BY <1>3, Zenon DEF DialBackend
  <2>2. /\ pc[c] = "ready" /\ OthersUnchanged
        /\ UNCHANGED <<named, rekeyed, be, annot, hook, inConns, cert>>
    BY <1>3 DEF DialBackend
  <2> QED
    BY <2>1, <2>2, LateMove DEF Goto
<1>4. CASE EndBridge(c)
  BY <1>4, LateMove DEF EndBridge, Goto
<1> QED
  BY <1>1, <1>2, <1>3, <1>4

\* Every step keeps the places, one action at a time.
LEMMA NextPlaces == TypeOK /\ Places /\ [Next]_vars => Places'
<1> SUFFICES ASSUME TypeOK, Places, [Next]_vars PROVE Places'
  OBVIOUS
<1>9. ASSUME NEW c \in Conns, Handshake(c) PROVE Places'
  BY <1>9, LateMoves, Zenon
<1>10. ASSUME NEW c \in Conns, SendToServer(c) PROVE Places'
  BY <1>10, LateMoves, Zenon
<1>11. ASSUME NEW c \in Conns, DialBackend(c) PROVE Places'
  BY <1>11, LateMoves, Zenon
<1>12. ASSUME NEW c \in Conns, EndBridge(c) PROVE Places'
  BY <1>12, LateMoves, Zenon
<1> USE DEF Places, Begun, Placed, TrackedUntilRemoved
<1>1. ASSUME NEW c \in Conns, Accept(c) PROVE Places'
  BY <1>1 DEF TypeOK, Accept, OthersUnchanged, Goto,
         proxyVars, handlerVars, closeVars, reauthVars, shutdownVars, stopVars
<1>2. ASSUME NEW c \in Conns, Track(c) PROVE Places'
  BY <1>2 DEF TypeOK, Track, OthersUnchanged, Goto,
         proxyVars, handlerVars, closeVars, reauthVars, shutdownVars, stopVars
<1>3. ASSUME NEW c \in Conns, SetOnClose(c) PROVE Places'
  BY <1>3 DEF TypeOK, SetOnClose, OthersUnchanged, Goto,
         proxyVars, handlerVars, closeVars, reauthVars, shutdownVars, stopVars
<1>4. ASSUME NEW c \in Conns, CheckMaxOpen(c) PROVE Places'
  BY <1>4 DEF TypeOK, CheckMaxOpen, OthersUnchanged, Goto,
         proxyVars, handlerVars, closeVars, reauthVars, shutdownVars, stopVars
<1>5. ASSUME NEW c \in Conns, ClientHello(c) PROVE Places'
  BY <1>5 DEF TypeOK, ClientHello, Rekey, OthersUnchanged, Goto,
         proxyVars, handlerVars, closeVars, reauthVars, shutdownVars, stopVars
<1>6. ASSUME NEW c \in Conns, FindBackend(c) PROVE Places'
  <2>1. PICK b : /\ b = Lookup(NameOf[c]) /\ be' = [be EXCEPT ![c] = b]
                 /\ pc' = [pc EXCEPT ![c] = IF b = None THEN "returning" ELSE "found"]
    BY <1>6 DEF FindBackend, Goto
  <2>2. b # None => b[1] <= cur
    BY <2>1 DEF Lookup, TypeOK, Gens
  <2> QED
    BY <1>6, <2>1, <2>2 DEF TypeOK, FindBackend, OthersUnchanged,
         proxyVars, handlerVars, closeVars, reauthVars, shutdownVars, stopVars
<1>7. ASSUME NEW c \in Conns, Annotate(c) PROVE Places'
  BY <1>7 DEF TypeOK, Annotate, OthersUnchanged, Goto,
         proxyVars, handlerVars, closeVars, reauthVars, shutdownVars, stopVars
<1>8. ASSUME NEW c \in Conns, CountIn(c) PROVE Places'
  BY <1>8 DEF TypeOK, CountIn, OthersUnchanged, Goto,
         proxyVars, handlerVars, closeVars, reauthVars, shutdownVars, stopVars
<1>13. ASSUME NEW c \in Conns, EndServed(c) PROVE Places'
  BY <1>13 DEF TypeOK, EndServed, OthersUnchanged, Goto, CloseConn,
         proxyVars, handlerVars, closeVars, reauthVars, shutdownVars, stopVars
<1>14. ASSUME NEW c \in Conns, Return(c) PROVE Places'
  BY <1>14 DEF TypeOK, Return, OthersUnchanged, Goto, CloseConn,
         proxyVars, handlerVars, closeVars, reauthVars, shutdownVars, stopVars
<1>15. ASSUME NEW c \in Conns, OnCloseRemove(c) PROVE Places'
  BY <1>15 DEF TypeOK, OnCloseRemove,
         proxyVars, handlerVars, closeVars, reauthVars, shutdownVars, stopVars
<1>16. ASSUME NEW c \in Conns, OnCloseDec(c) PROVE Places'
  BY <1>16 DEF TypeOK, OnCloseDec,
         proxyVars, handlerVars, closeVars, reauthVars, shutdownVars, stopVars
<1>17. ASSUME NEW c \in Conns, OnCloseNotify(c) PROVE Places'
  BY <1>17 DEF TypeOK, OnCloseNotify,
         proxyVars, handlerVars, closeVars, reauthVars, shutdownVars, stopVars
<1>18. ASSUME NEW b \in Backends, HTTPServer(b) PROVE Places'
  BY <1>18 DEF TypeOK, HTTPServer, CloseListenerOf, EndServeOf,
         proxyVars, handlerVars, closeVars, reauthVars, shutdownVars, stopVars
<1>19. ASSUME NEW cfg \in Configs, Reconfigure(cfg) PROVE Places'
  <2>1. /\ cur \in Nat /\ cur' = cur + 1 /\ \A b \in Backends : b[1] \in Nat
        /\ UNCHANGED <<ctxDone, handlerVars, closeVars, stopVars>>
    BY <1>19 DEF TypeOK, Reconfigure, Backends, Gens
  <2>2. Begun'
    <3>1. ASSUME NEW g \in Gens, g > cur + 1 PROVE reauth'[g] = "none"
      <4>1. g \in Nat /\ g # cur + 1 /\ g > cur
        BY <2>1, <3>1 DEF Gens
      <4>2. reauth'[g] = reauth[g]
        BY <1>19, <4>1 DEF Reconfigure, TypeOK
      <4> QED
        BY <4>1, <4>2
    <3> QED
      BY <2>1, <3>1 DEF stopVars
  <2>3. ASSUME NEW c \in Conns PROVE Placed(c)'
    <3>1. be[c] # None => be[c][1] <= cur'
      BY <2>1 DEF TypeOK
    <3> QED
      BY <2>1, <3>1 DEF handlerVars, closeVars
  <2>4. TrackedUntilRemoved'
    BY <2>1 DEF handlerVars, closeVars
  <2> QED
    BY <2>2, <2>3, <2>4
<1>20. ASSUME NEW g \in Gens, ReAuthSnapshot(g) PROVE Places'
  BY <1>20 DEF TypeOK, ReAuthSnapshot,
         proxyVars, handlerVars, closeVars, reauthVars, shutdownVars, stopVars
<1>21. ASSUME NEW g \in Gens, NEW c \in Conns, ReAuthConn(g, c) PROVE Places'
  BY <1>21 DEF TypeOK, ReAuthConn, ReAuthVerdict, CloseConn,
         proxyVars, handlerVars, closeVars, reauthVars, shutdownVars, stopVars
<1>22. CASE Shutdown \/ WaiterCheck \/ WaiterWait \/ ShutdownDone \/ GraceExpires
  BY <1>22 DEF TypeOK, Shutdown, WaiterCheck, WaiterWait, ShutdownDone, GraceExpires,
         proxyVars, handlerVars, closeVars, reauthVars, shutdownVars, stopVars
<1>23. CASE CancelContext
  BY <1>23 DEF TypeOK, CancelContext,
         proxyVars, handlerVars, closeVars, reauthVars, shutdownVars, stopVars
<1>24. ASSUME NEW s \in Stoppers, StopLock(s) \/ StopCloseBackends(s) PROVE Places'
  BY <1>24 DEF TypeOK, StopLock, StopCloseBackends,
         proxyVars, handlerVars, closeVars, reauthVars, shutdownVars, stopVars
<1>25. ASSUME NEW s \in Stoppers, NEW c \in Conns, StopCloseConn(s, c) PROVE Places'
  BY <1>25 DEF TypeOK, StopCloseConn, CloseConn,
         proxyVars, handlerVars, closeVars, reauthVars, shutdownVars, stopVars
<1>26. CASE UNCHANGED vars
  BY <1>26 DEF TypeOK, vars,
         proxyVars, handlerVars, closeVars, reauthVars, shutdownVars, stopVars
<1> QED
  BY <1>1, <1>2, <1>3, <1>4, <1>5, <1>6, <1>7, <1>8, <1>9, <1>10, <1>11, <1>12,
     <1>13, <1>14, <1>15, <1>16, <1>17, <1>18, <1>19, <1>20, <1>21, <1>22, <1>23, <1>24,
     <1>25, <1>26
  DEF Next, Handler, HandlerStep, OnClose, ReAuthorize, Stop

\* No connection is there in the beginning.
LEMMA InitPlaces == Init => Places
BY DEF Init, Places, Begun, Placed, TrackedUntilRemoved

\* The places hold in every state of the handlers, of their close callbacks and of what
\* else closes connections.
THEOREM PlacesHold == Spec => []Places
BY InitPlaces, NextPlaces, TypeCorrect, PTL DEF Spec

\* The tracker p.inConns has at every moment the connections between inConns.add and
\* the remove of their close callback, so that Stop and reAuthorize miss none, and of the
\* others only those whose key a PROXY header changed.
THEOREM Tracked == Spec => []TrackedUntilRemoved
<1>1. Places => TrackedUntilRemoved
  BY DEF Places
<1> QED
  BY <1>1, PlacesHold, PTL

-----------------------------------------------------------------------------
(* The count of connections in flight.                                     *)

\* A backend that was told to shut down had a server, and has it only while
\* connections are in flight.
Draining(r) == r.shutdown => r.chan # "nil" /\ (r.server => r.inFlight # 0)

\* Counting changes the count by d and keeps Draining, the release included.
LEMMA IncDrains ==
    ASSUME NEW r \in BackendState, NEW d \in Int, Draining(r)
    PROVE  /\ IncInFlight(r, d).inFlight = r.inFlight + d
           /\ Draining(IncInFlight(r, d))
<1> DEFINE n == [r EXCEPT !.inFlight = @ + d]
<1>1. /\ n \in BackendState /\ n.inFlight = r.inFlight + d
      /\ n.server = r.server /\ n.chan = r.chan /\ n.shutdown = r.shutdown
  BY DEF BackendState
<1>2. IncInFlight(r, d) = IF n.inFlight = 0 /\ n.shutdown /\ n.server THEN ReleaseServer(n) ELSE n
  BY DEF IncInFlight
<1> HIDE DEF n
<1>3. /\ ReleaseServer(n).inFlight = n.inFlight
      /\ ~ReleaseServer(n).server /\ ReleaseServer(n).chan # "nil"
  BY <1>1 DEF ReleaseServer, CloseChan, BackendState
<1> QED
  BY <1>1, <1>2, <1>3 DEF Draining, BackendState

\* The other operations leave the count, and keep Draining.
LEMMA OpsDrain ==
    ASSUME NEW r \in BackendState, Draining(r), Sound(r)
    PROVE  /\ CloseGraceful(r).inFlight = r.inFlight /\ Draining(CloseGraceful(r))
           /\ CloseNow(r).inFlight = r.inFlight /\ Draining(CloseNow(r))
           /\ CloseListener(r).inFlight = r.inFlight /\ Draining(CloseListener(r))
           /\ EndServe(r).inFlight = r.inFlight /\ Draining(EndServe(r))
<1>1. CloseGraceful(r).inFlight = r.inFlight /\ Draining(CloseGraceful(r))
  BY DEF CloseGraceful, ReleaseServer, CloseChan, Draining, Sound, BackendState
<1>2. CloseNow(r).inFlight = r.inFlight /\ Draining(CloseNow(r))
  BY DEF CloseNow, ReleaseServer, CloseChan, Draining, Sound, BackendState
<1>3. /\ CloseListener(r).inFlight = r.inFlight /\ Draining(CloseListener(r))
      /\ EndServe(r).inFlight = r.inFlight /\ Draining(EndServe(r))
  BY DEF CloseListener, EndServe, Draining, BackendState
<1> QED
  BY <1>1, <1>2, <1>3

\* A new backend counts nobody and is not told to shut down.
LEMMA NewDrains ==
    ASSUME NEW h \in BOOLEAN
    PROVE  NewBackend(h).inFlight = 0 /\ Draining(NewBackend(h))
BY DEF NewBackend, Draining

\* This is what DrainedBackendIsReleased rests on: no Backend is left at zero.
AllDraining == \A b \in Backends : Draining(bst[b])

\* The sets that are counted are finite.
LEMMA CountsAreFinite ==
    ASSUME NEW b
    PROVE  /\ IsFiniteSet(CountedIn(b)) /\ Cardinality(CountedIn(b)) \in Nat
           /\ IsFiniteSet(CountedOut(b)) /\ Cardinality(CountedOut(b)) \in Nat
BY ConnsAssumption, FS_Subset, FS_CardinalityType DEF CountedIn, CountedOut

\* A step that moves no connection in or out of a count, and leaves the counts.
LEMMA SameCounts ==
    ASSUME TypeOK, InFlightIsExact,
           \A b \in Backends : bst'[b].inFlight = bst[b].inFlight,
           ended' = ended,
           \A b \in Backends, c \in Conns : c \in CountedIn(b)' <=> c \in CountedIn(b)
    PROVE  InFlightIsExact'
<1>1. ASSUME NEW b \in Backends PROVE CountedIn(b)' = CountedIn(b) /\ CountedOut(b)' = CountedOut(b)
  BY DEF CountedIn, CountedOut
<1> QED
  BY <1>1 DEF InFlightIsExact

\* The handler of c counts it in.
LEMMA CountInCounts ==
    ASSUME TypeOK, Places, InFlightIsExact, AllDraining, NEW c \in Conns, CountIn(c)
    PROVE  InFlightIsExact' /\ AllDraining'
<1>1. /\ pc[c] = "annotated" /\ bst' = [bst EXCEPT ![be[c]] = IncInFlight(@, 1)]
      /\ be' = be /\ ended' = ended
      /\ \E l \in {"returning", "ready", "handshake"} : pc' = [pc EXCEPT ![c] = l]
  BY DEF CountIn, Goto, OthersUnchanged
<1>2. be[c] \in Backends
  BY <1>1 DEF TypeOK, Places, Placed
<1>3. /\ \A b \in Backends : bst[b] \in BackendState /\ Draining(bst[b])
      /\ 1 \in Int
  BY DEF TypeOK, AllDraining
<1>4. /\ \A b \in Backends : Draining(bst'[b])
      /\ bst'[be[c]].inFlight = bst[be[c]].inFlight + 1
      /\ \A b \in Backends \ {be[c]} : bst'[b] = bst[b]
  BY <1>1, <1>2, <1>3, IncDrains DEF TypeOK
<1>5. ASSUME NEW b \in Backends
      PROVE  bst'[b].inFlight = Cardinality(CountedIn(b)') - Cardinality(CountedOut(b)')
  <2>1. CountedOut(b)' = CountedOut(b)
    BY <1>1 DEF CountedOut
  <2>2. CASE b = be[c]
    <3>1. CountedIn(b)' = CountedIn(b) \union {c} /\ c \notin CountedIn(b)
      BY <1>1, <2>2 DEF CountedIn, TypeOK
    <3>2. Cardinality(CountedIn(b)') = Cardinality(CountedIn(b)) + 1
      BY <3>1, CountsAreFinite, FS_AddElement
    <3> QED
      BY <1>4, <2>1, <2>2, <3>2, CountsAreFinite DEF InFlightIsExact
  <2>3. CASE b # be[c]
    <3>1. CountedIn(b)' = CountedIn(b)
      BY <1>1, <2>3 DEF CountedIn, TypeOK
    <3> QED
      BY <1>4, <2>1, <2>3, <3>1 DEF InFlightIsExact
  <2> QED
    BY <2>2, <2>3
<1> QED
  BY <1>4, <1>5 DEF InFlightIsExact, AllDraining

\* The close callback of c counts it out, if it finds a backend.
LEMMA OnCloseDecCounts ==
    ASSUME TypeOK, Places, InFlightIsExact, AllDraining, NEW c \in Conns, OnCloseDec(c)
    PROVE  InFlightIsExact' /\ AllDraining'
<1>1. /\ hook[c] = "dec" /\ ended' = [ended EXCEPT ![c] = annot[c]] /\ UNCHANGED <<pc, be>>
      /\ bst' = IF annot[c] = None THEN bst ELSE [bst EXCEPT ![annot[c]] = IncInFlight(@, -1)]
  BY DEF OnCloseDec, handlerVars
<1>2. ended[c] = None /\ annot[c] \in Backends \union {None} /\ None \notin Backends
  BY <1>1, NoneAssumption DEF TypeOK, Places, Placed, Backends, Gens
<1>3. \A b \in Backends : CountedIn(b)' = CountedIn(b)
  BY <1>1 DEF CountedIn
<1>4. CASE annot[c] = None
  <2>1. \A b \in Backends : CountedOut(b)' = CountedOut(b)
    BY <1>1, <1>2, <1>4 DEF CountedOut, TypeOK
  <2> QED
    BY <1>1, <1>3, <1>4, <2>1 DEF InFlightIsExact, AllDraining
<1>5. CASE annot[c] # None
  <2>1. /\ \A b \in Backends : bst[b] \in BackendState /\ Draining(bst[b])
        /\ -1 \in Int
    BY DEF TypeOK, AllDraining
  <2>2. /\ \A b \in Backends : Draining(bst'[b])
        /\ bst'[annot[c]].inFlight = bst[annot[c]].inFlight + (-1)
        /\ \A b \in Backends \ {annot[c]} : bst'[b] = bst[b]
    BY <1>1, <1>2, <1>5, <2>1, IncDrains DEF TypeOK
  <2>3. ASSUME NEW b \in Backends
        PROVE  bst'[b].inFlight = Cardinality(CountedIn(b)') - Cardinality(CountedOut(b)')
    <3>1. CASE b = annot[c]
      <4>1. CountedOut(b)' = CountedOut(b) \union {c} /\ c \notin CountedOut(b)
        BY <1>1, <1>2, <3>1 DEF CountedOut, TypeOK
      <4>2. Cardinality(CountedOut(b)') = Cardinality(CountedOut(b)) + 1
        BY <4>1, CountsAreFinite, FS_AddElement
      <4> QED
        BY <1>3, <2>2, <3>1, <4>2, CountsAreFinite DEF InFlightIsExact
    <3>2. CASE b # annot[c]
      <4>1. CountedOut(b)' = CountedOut(b)
        BY <1>1, <1>2, <3>2 DEF CountedOut, TypeOK
      <4> QED
        BY <1>3, <2>2, <3>2, <4>1 DEF InFlightIsExact
    <3> QED
      BY <3>1, <3>2
  <2> QED
    BY <2>2, <2>3 DEF InFlightIsExact, AllDraining
<1> QED
  BY <1>4, <1>5

\* The new backends are new: nobody was counted in or out of them.
LEMMA ReconfigureCounts ==
    ASSUME TypeOK, Places, AllSound, InFlightIsExact, AllDraining,
           NEW cfg \in Configs, Reconfigure(cfg)
    PROVE  InFlightIsExact' /\ AllDraining'
<1>1. /\ bst' = [b \in Backends |-> IF b \in owned THEN CloseGraceful(bst[b])
                                    ELSE Build(cur + 1, cfg)[b]]
      /\ UNCHANGED <<pc, be, ended>> /\ cur \in Nat
  BY DEF Reconfigure, handlerVars, closeVars, TypeOK, Gens
<1>2. ASSUME NEW b \in Backends
      PROVE  CountedIn(b)' = CountedIn(b) /\ CountedOut(b)' = CountedOut(b)
  BY <1>1 DEF CountedIn, CountedOut
<1>3. ASSUME NEW b \in Backends
      PROVE  /\ Draining(bst'[b])
             /\ \/ bst'[b].inFlight = bst[b].inFlight
                \/ bst'[b].inFlight = 0 /\ b[1] = cur + 1
  <2>1. bst[b] \in BackendState /\ Draining(bst[b]) /\ Sound(bst[b])
    BY DEF TypeOK, AllDraining, AllSound
  <2>2. CASE b \in owned
    BY <1>1, <2>1, <2>2, OpsDrain
  <2>3. CASE b \notin owned /\ b \in BackendsOf(cur + 1, cfg)
    <3> DEFINE h == cfg.be[b[2]].mode = "HTTP"
    <3>1. bst'[b] = NewBackend(h) /\ h \in BOOLEAN
      BY <1>1, <2>3 DEF Build
    <3>2. b[1] = cur + 1
      BY <2>3 DEF BackendsOf
    <3> HIDE DEF h
    <3> QED
      BY <3>1, <3>2, NewDrains
  <2>4. CASE b \notin owned /\ b \notin BackendsOf(cur + 1, cfg)
    BY <1>1, <2>1, <2>4 DEF Build
  <2> QED
    BY <2>2, <2>3, <2>4
<1>4. ASSUME NEW b \in Backends, b[1] = cur + 1
      PROVE  CountedIn(b) = {} /\ CountedOut(b) = {}
  <2>1. \A c \in Conns : be[c] # b /\ ended[c] # b
    BY <1>1, <1>4, NoneAssumption DEF Places, Placed, TypeOK, Backends, Gens
  <2> QED
    BY <2>1 DEF CountedIn, CountedOut
<1>5. ASSUME NEW b \in Backends
      PROVE  bst'[b].inFlight = Cardinality(CountedIn(b)') - Cardinality(CountedOut(b)')
  <2>1. CASE bst'[b].inFlight = bst[b].inFlight
    BY <1>2, <2>1 DEF InFlightIsExact
  <2>2. CASE bst'[b].inFlight = 0 /\ b[1] = cur + 1
    BY <1>2, <1>4, <2>2, FS_EmptySet
  <2> QED
    BY <1>3, <2>1, <2>2
<1> QED
  BY <1>3, <1>5 DEF InFlightIsExact, AllDraining

\* Every step keeps the counts.
LEMMA NextCounts ==
    TypeOK /\ Places /\ AllSound /\ InFlightIsExact /\ AllDraining /\ [Next]_vars
    => InFlightIsExact' /\ AllDraining'
<1> SUFFICES ASSUME TypeOK, Places, AllSound, InFlightIsExact, AllDraining, [Next]_vars
             PROVE  InFlightIsExact' /\ AllDraining'
  OBVIOUS
<1>1. ASSUME \A b \in Backends : Draining(bst'[b]) /\ bst'[b].inFlight = bst[b].inFlight,
             UNCHANGED <<pc, be, ended>>
      PROVE  InFlightIsExact' /\ AllDraining'
  BY <1>1, SameCounts DEF AllDraining, CountedIn
<1>2. \A b \in Backends : bst[b] \in BackendState /\ Draining(bst[b]) /\ Sound(bst[b])
  BY DEF TypeOK, AllDraining, AllSound
<1>3. ASSUME NEW c \in Conns, NEW l \in PCs, Goto(c, l), pc[c] \notin {"found", "annotated"},
             l \notin {"found", "annotated"}, UNCHANGED <<bst, be, ended>>
      PROVE  InFlightIsExact' /\ AllDraining'
  BY <1>2, <1>3, SameCounts DEF AllDraining, CountedIn, Goto, TypeOK
<1>4. ASSUME NEW c \in Conns, OthersUnchanged,
             \/ Accept(c) \/ Track(c) \/ SetOnClose(c) \/ CheckMaxOpen(c) \/ ClientHello(c)
             \/ Handshake(c) \/ SendToServer(c) \/ DialBackend(c) \/ EndBridge(c)
             \/ EndServed(c) \/ Return(c)
      PROVE  InFlightIsExact' /\ AllDraining'
  <2>1. CASE Accept(c)
    BY <1>3, <1>4, <2>1 DEF OthersUnchanged, PCs, Accept
  <2>2. CASE Track(c)
    BY <1>3, <1>4, <2>2 DEF OthersUnchanged, PCs, Track
  <2>3. CASE SetOnClose(c)
    BY <1>3, <1>4, <2>3 DEF OthersUnchanged, PCs, SetOnClose
  <2>4. CASE CheckMaxOpen(c)
    BY <1>3, <1>4, <2>4 DEF OthersUnchanged, PCs, CheckMaxOpen
  <2>5. CASE ClientHello(c)
    BY <1>3, <1>4, <2>5 DEF OthersUnchanged, PCs, ClientHello
  <2>6. CASE Handshake(c)
    BY <1>3, <1>4, <2>6 DEF OthersUnchanged, PCs, Handshake
  <2>7. CASE SendToServer(c)
    BY <1>3, <1>4, <2>7 DEF OthersUnchanged, PCs, SendToServer
  <2>8. CASE DialBackend(c)
    BY <1>3, <1>4, <2>8 DEF OthersUnchanged, PCs, DialBackend
  <2>9. CASE EndBridge(c)
    BY <1>3, <1>4, <2>9 DEF OthersUnchanged, PCs, EndBridge
  <2>10. CASE EndServed(c)
    BY <1>3, <1>4, <2>10 DEF OthersUnchanged, PCs, EndServed
  <2>11. CASE Return(c)
    BY <1>3, <1>4, <2>11 DEF OthersUnchanged, PCs, Return
  <2> QED
    BY <1>4, <2>1, <2>2, <2>3, <2>4, <2>5, <2>6, <2>7, <2>8, <2>9, <2>10, <2>11
<1>5. ASSUME NEW c \in Conns, FindBackend(c) PROVE InFlightIsExact' /\ AllDraining'
  <2>1. /\ pc[c] = "named" /\ UNCHANGED <<bst, ended>>
        /\ \E b : /\ be' = [be EXCEPT ![c] = b]
                  /\ pc' = [pc EXCEPT ![c] = IF b = None THEN "returning" ELSE "found"]
    BY <1>5 DEF FindBackend, Goto, OthersUnchanged
  <2>2. be[c] = None /\ None \notin Backends
    BY <2>1, NoneAssumption DEF Places, Placed, Backends, Gens
  <2>3. \A b \in Backends, d \in Conns : d \in CountedIn(b)' <=> d \in CountedIn(b)
    BY <2>1, <2>2 DEF CountedIn, TypeOK
  <2> QED
    BY <2>1, <2>3, SameCounts DEF AllDraining
<1>6. ASSUME NEW c \in Conns, Annotate(c) PROVE InFlightIsExact' /\ AllDraining'
  <2>1. pc[c] = "found" /\ UNCHANGED <<bst, be, ended>> /\ pc' = [pc EXCEPT ![c] = "annotated"]
    BY <1>6 DEF Annotate, Goto, OthersUnchanged
  <2>2. \A b \in Backends, d \in Conns : d \in CountedIn(b)' <=> d \in CountedIn(b)
    BY <2>1 DEF CountedIn, TypeOK
  <2> QED
    BY <2>1, <2>2, SameCounts DEF AllDraining
<1>7. ASSUME NEW c \in Conns, Handler(c) PROVE InFlightIsExact' /\ AllDraining'
  <2>1. OthersUnchanged
    BY <1>7 DEF Handler, HandlerStep, Accept, Track, SetOnClose, CheckMaxOpen, ClientHello,
         FindBackend, Annotate, CountIn, Handshake, SendToServer, DialBackend, EndBridge,
         EndServed, Return
  <2> QED
    BY <1>4, <1>5, <1>6, <1>7, <2>1, CountInCounts DEF Handler, HandlerStep
<1>8. ASSUME NEW c \in Conns, OnClose(c) PROVE InFlightIsExact' /\ AllDraining'
  BY <1>1, <1>2, <1>8, OnCloseDecCounts DEF OnClose, OnCloseRemove, OnCloseNotify, handlerVars
<1>9. ASSUME NEW b \in Backends, HTTPServer(b) PROVE InFlightIsExact' /\ AllDraining'
  <2>1. PICK r \in {CloseListener(bst[b]), EndServe(bst[b])} : bst' = [bst EXCEPT ![b] = r]
    BY <1>9 DEF HTTPServer, CloseListenerOf, EndServeOf
  <2>2. Draining(r) /\ r.inFlight = bst[b].inFlight
    BY <1>2, OpsDrain
  <2>3. \A a \in Backends : Draining(bst'[a]) /\ bst'[a].inFlight = bst[a].inFlight
    BY <1>2, <2>1, <2>2 DEF TypeOK
  <2> QED
    BY <1>1, <1>9, <2>3 DEF HTTPServer, CloseListenerOf, EndServeOf, handlerVars, closeVars
<1>10. ASSUME NEW g \in Gens, ReAuthorize(g) PROVE InFlightIsExact' /\ AllDraining'
  BY <1>1, <1>2, <1>10 DEF ReAuthorize, ReAuthSnapshot, ReAuthConn, handlerVars, closeVars
<1>11. CASE Shutdown
  BY <1>1, <1>2, <1>11, OpsDrain DEF Shutdown, handlerVars, closeVars
<1>12. CASE WaiterCheck \/ WaiterWait \/ ShutdownDone \/ GraceExpires \/ CancelContext
  BY <1>1, <1>2, <1>12 DEF WaiterCheck, WaiterWait, ShutdownDone, GraceExpires, CancelContext,
         handlerVars, closeVars
<1>13. ASSUME NEW s \in Stoppers, Stop(s) PROVE InFlightIsExact' /\ AllDraining'
  BY <1>1, <1>2, <1>13, OpsDrain DEF Stop, StopLock, StopCloseBackends, StopCloseConn, handlerVars,
         closeVars
<1>14. CASE UNCHANGED vars
  BY <1>1, <1>2, <1>14 DEF vars, handlerVars, closeVars
<1> QED
  BY <1>7, <1>8, <1>9, <1>10, <1>11, <1>12, <1>13, <1>14, ReconfigureCounts DEF Next

\* Nobody is counted in the beginning.
LEMMA InitCounts == Init => InFlightIsExact /\ AllDraining
<1> SUFFICES ASSUME Init, NEW b \in Backends
             PROVE  /\ bst[b].inFlight = Cardinality(CountedIn(b)) - Cardinality(CountedOut(b))
                    /\ Draining(bst[b])
  BY DEF InFlightIsExact, AllDraining
<1> DEFINE h == b \in owned /\ Config(b).mode = "HTTP"
<1>1. h \in BOOLEAN /\ bst[b] = NewBackend(h)
  BY DEF Init
<1> HIDE DEF h
<1>2. bst[b].inFlight = 0 /\ Draining(bst[b])
  BY <1>1, NewDrains
<1>3. None \notin Backends
  BY NoneAssumption DEF Backends, Gens
<1>4. CountedIn(b) = {} /\ CountedOut(b) = {}
  BY <1>3 DEF Init, CountedIn, CountedOut
<1> QED
  BY <1>2, <1>4, FS_EmptySet

\* The counts, always.
LEMMA CountsHold == Spec => [](InFlightIsExact /\ AllDraining)
BY InitCounts, NextCounts, TypeCorrect, PlacesHold, BackendsAreSound, PTL DEF Spec

\* be.state.inFlight is at every moment the number of incInFlight(1) minus the number
\* of incInFlight(-1), for every Backend that there ever was, whichever of the two a
\* connection comes to first.
THEOREM InFlightExact == Spec => []InFlightIsExact
BY CountsHold, PTL

\* Until the proxy stops, a Backend that was shut down has closed its channel when its
\* last connection is gone (incInFlight, be.close).
THEOREM DrainedIsReleased == Spec => []DrainedBackendIsReleased
<1>1. TypeOK /\ Places /\ AllSound /\ InFlightIsExact /\ AllDraining => DrainedBackendIsReleased
  <2> SUFFICES ASSUME TypeOK, Places, AllSound, InFlightIsExact, AllDraining,
                      NEW b \in Backends, bst[b].shutdown, Quiescent(b), ~ctxDone
               PROVE  bst[b].chan = "closed"
    BY DEF DrainedBackendIsReleased
  <2>1. ASSUME NEW c \in Conns PROVE c \in CountedIn(b) <=> c \in CountedOut(b)
    <3>1. be[c] = b => ended[c] = b /\ pc[c] \notin {"found", "annotated"}
      BY DEF Quiescent, Places, Placed
    <3>2. ended[c] = b => be[c] = b
      BY NoneAssumption DEF Places, Placed, Backends, Gens
    <3> QED
      BY <3>1, <3>2 DEF CountedIn, CountedOut
  <2>2. CountedIn(b) = CountedOut(b)
    BY <2>1 DEF CountedIn, CountedOut
  <2>3. bst[b].inFlight = 0
    BY <2>2, CountsAreFinite DEF InFlightIsExact
  <2>4. bst[b] \in BackendState /\ Sound(bst[b]) /\ Draining(bst[b])
    BY DEF TypeOK, AllSound, AllDraining
  <2> QED
    BY <2>3, <2>4 DEF Sound, Draining, BackendState, ChanState
<1> QED
  BY <1>1, TypeCorrect, PlacesHold, BackendsAreSound, CountsHold, PTL

-----------------------------------------------------------------------------
(* Connections that were let in by an older configuration.                 *)

\* Handlers and callbacks: only the handshake changes what StillPermitted looks at,
\* and it asks the current backend.
LEMMA HandlerStale ==
    ASSUME TypeOK, Places, StaleConnIsPermitted, NEW c \in Conns, Handler(c), ~crashed
    PROVE  StaleConnIsPermitted'
<1>1. /\ UNCHANGED <<proxyVars, crashed, reauthVars>>
      /\ \A d \in Conns \ {c} : be'[d] = be[d] /\ sock'[d] = sock[d] /\ hook'[d] = hook[d]
                                /\ cert'[d] = cert[d]
  BY DEF Handler, HandlerStep, Accept, Track, SetOnClose, CheckMaxOpen, ClientHello,
         FindBackend, Annotate, CountIn, Handshake, SendToServer, DialBackend, EndBridge,
         EndServed, Return, OthersUnchanged, CloseConn, TypeOK
<1>2. ASSUME NEW d \in Conns \ {c}, be'[d] # None, be'[d][1] < cur', reauth'[cur'] = "running",
             d \notin pending'[cur'], sock'[d] = "open", hook'[d] = "set"
      PROVE  StillPermitted(d)'
  <2>1. StillPermitted(d)
    BY <1>1, <1>2 DEF StaleConnIsPermitted, proxyVars, reauthVars
  <2> QED
    BY <1>1, <2>1 DEF StillPermitted, Config, Denied, proxyVars
<1>3. ASSUME be'[c] # None, be'[c][1] < cur', reauth'[cur'] = "running",
             c \notin pending'[cur'], sock'[c] = "open", hook'[c] = "set"
      PROVE  StillPermitted(c)'
  <2>1. CASE UNCHANGED <<be, cert>> /\ sock[c] = "open" /\ hook[c] = "set"
    <3>1. StillPermitted(c)
      BY <1>1, <1>3, <2>1 DEF StaleConnIsPermitted, proxyVars, reauthVars
    <3> QED
      BY <1>1, <2>1, <3>1 DEF StillPermitted, Config, Denied, proxyVars
  <2>2. CASE FindBackend(c)
    <3>1. be'[c] = Lookup(NameOf[c])
      BY <2>2 DEF FindBackend, TypeOK
    <3>2. be'[c][1] = cur /\ cur' = cur /\ cur \in Nat
      BY <1>1, <1>3, <3>1 DEF Lookup, TypeOK, Gens, proxyVars
    <3> QED
      BY <1>3, <3>2
  <2>3. CASE Handshake(c)
    <3>1. /\ pc[c] = "handshake" /\ UNCHANGED <<be, sock, hook>> /\ cert[c] = None
      BY <2>3 DEF Handshake, Places, Placed
    <3>2. StillPermitted(c)
      BY <1>1, <1>3, <3>1 DEF StaleConnIsPermitted, proxyVars, reauthVars
    <3>3. NameOf[c] \in DOMAIN cfgs[cur].be /\ Config(<<cur, NameOf[c]>>) \in BackendConfig
      BY <3>2, ConfigAssumption DEF StillPermitted, TypeOK, Config
    <3>4. ~(Config(<<cur, NameOf[c]>>).clientAuth /\ Config(<<cur, NameOf[c]>>).hasACL)
      BY <3>1, <3>2, <3>3, NoneAssumption DEF StillPermitted, BackendConfig
    <3> QED
      BY <1>1, <3>1, <3>2, <3>4 DEF StillPermitted, Config, Denied, proxyVars
  <2>4. CASE Accept(c) \/ SetOnClose(c)
    BY <1>3, <2>4 DEF Accept, SetOnClose, Places, Placed
  <2> QED
    BY <1>3, <2>1, <2>2, <2>3, <2>4 DEF Handler, HandlerStep, Track, CheckMaxOpen, ClientHello,
         Annotate, CountIn, SendToServer, DialBackend, EndBridge, EndServed, Return,
         CloseConn, TypeOK
<1> QED
  BY <1>2, <1>3 DEF StaleConnIsPermitted

\* A step that leaves the configurations, the handlers and the progress of reAuthorize
\* alone, and opens no connection.
LEMMA OthersStale ==
    ASSUME StaleConnIsPermitted, ~crashed, UNCHANGED <<cur, cfgs, be, cert, reauthVars>>,
           \A d \in Conns : /\ sock'[d] = "open" => sock[d] = "open"
                            /\ hook'[d] = "set" => hook[d] = "set"
    PROVE  StaleConnIsPermitted'
BY DEF StaleConnIsPermitted, StillPermitted, Config, Denied, reauthVars

\* reAuthorize takes its list when every connection that has a callback is in it.
LEMMA SnapshotStale ==
    ASSUME TypeOK, Places, StaleConnIsPermitted, NEW g \in Gens, ReAuthSnapshot(g), ~crashed
    PROVE  StaleConnIsPermitted'
<1>1. /\ reauth' = [reauth EXCEPT ![g] = "running"] /\ pending' = [pending EXCEPT ![g] = inConns]
      /\ UNCHANGED <<proxyVars, be, cert, hook, sock>>
  BY DEF ReAuthSnapshot, handlerVars, closeVars
<1>2. ASSUME NEW c \in Conns, be'[c] # None, be'[c][1] < cur', reauth'[cur'] = "running",
             c \notin pending'[cur'], sock'[c] = "open", hook'[c] = "set"
      PROVE  StillPermitted(c)'
  <2>1. c \in inConns
    BY <1>1, <1>2 DEF Places, Placed, TrackedUntilRemoved
  <2>2. g # cur
    BY <1>1, <1>2, <2>1 DEF TypeOK, proxyVars
  <2>3. StillPermitted(c)
    BY <1>1, <1>2, <2>2, ~crashed DEF StaleConnIsPermitted, TypeOK, proxyVars
  <2> QED
    BY <1>1, <2>3 DEF StillPermitted, Config, Denied, proxyVars
<1> QED
  BY <1>2 DEF StaleConnIsPermitted

\* reAuthorize looks at a connection: the process ends, the connection is closed, or it
\* is permitted.
LEMMA ReAuthStale ==
    ASSUME TypeOK, Places, StaleConnIsPermitted, NEW g \in Gens, NEW c \in Conns,
           ReAuthConn(g, c), ~crashed
    PROVE  StaleConnIsPermitted'
<1>1. /\ pending' = [pending EXCEPT ![g] = @ \ {c}] /\ crashed' = (ReAuthVerdict(c) = "panic")
      /\ UNCHANGED <<proxyVars, be, cert, reauth>>
      /\ IF ReAuthVerdict(c) = "close" THEN CloseConn(c) ELSE UNCHANGED <<hook, sock>>
  BY DEF ReAuthConn, handlerVars
<1>2. ASSUME NEW d \in Conns, ~crashed', be'[d] # None, be'[d][1] < cur', reauth'[cur'] = "running",
             d \notin pending'[cur'], sock'[d] = "open", hook'[d] = "set"
      PROVE  StillPermitted(d)'
  <2>1. /\ be[d] # None /\ be[d][1] < cur /\ reauth[cur] = "running"
        /\ sock[d] = "open" /\ hook[d] = "set"
    BY <1>1, <1>2 DEF CloseConn, TypeOK, proxyVars
  <2>2. CASE d \notin pending[cur]
    <3>1. StillPermitted(d)
      BY <2>1, <2>2, ~crashed DEF StaleConnIsPermitted
    <3> QED
      BY <1>1, <3>1 DEF StillPermitted, Config, Denied, proxyVars
  <2>3. CASE d \in pending[cur]
    <3>1. d = c
      BY <1>1, <1>2, <2>3 DEF TypeOK, proxyVars
    <3>2. ReAuthVerdict(c) \notin {"close", "panic"}
      BY <1>1, <1>2, <2>1, <3>1 DEF CloseConn, TypeOK
    <3>3. named[c] /\ (annot[c] # None => annot[c] = be[c])
      BY <2>1, <3>1 DEF Places, Placed
    <3> DEFINE b == Lookup(NameOf[c])
    <3>4. /\ b # None /\ Config(b).mode = Config(be[c]).mode /\ ~Denied(b, c)
          /\ Config(b).clientAuth => Authorized(b, cert[c])
      BY <3>2, <3>3 DEF ReAuthVerdict
    <3>5. b = <<cur, NameOf[c]>> /\ NameOf[c] \in DOMAIN cfgs[cur].be
      BY <3>4 DEF Lookup
    <3>6. StillPermitted(c)
      BY <3>4, <3>5 DEF StillPermitted, Authorized
    <3> QED
      BY <1>1, <3>1, <3>6 DEF StillPermitted, Config, Denied, proxyVars
  <2> QED
    BY <2>2, <2>3
<1> QED
  BY <1>2 DEF StaleConnIsPermitted

\* Every step keeps connections permitted.
LEMMA NextStale == TypeOK /\ Places /\ StaleConnIsPermitted /\ [Next]_vars => StaleConnIsPermitted'
<1> SUFFICES ASSUME TypeOK, Places, StaleConnIsPermitted, [Next]_vars PROVE StaleConnIsPermitted'
  OBVIOUS
<1>1. CASE UNCHANGED vars
  BY <1>1 DEF StaleConnIsPermitted, StillPermitted, Config, Denied, vars, proxyVars, handlerVars,
         closeVars, reauthVars
<1> SUFFICES ASSUME ~crashed, Next PROVE StaleConnIsPermitted'
  BY <1>1 DEF Next
<1>2. ASSUME NEW c \in Conns, OnClose(c) PROVE StaleConnIsPermitted'
  BY <1>2, OthersStale DEF OnClose, OnCloseRemove, OnCloseDec, OnCloseNotify, proxyVars,
         handlerVars, TypeOK
<1>3. ASSUME NEW b \in Backends, HTTPServer(b) PROVE StaleConnIsPermitted'
  BY <1>3, OthersStale DEF HTTPServer, CloseListenerOf, EndServeOf, proxyVars, handlerVars,
         closeVars
<1>4. ASSUME NEW cfg \in Configs, Reconfigure(cfg) PROVE StaleConnIsPermitted'
  <2>1. cur' = cur + 1 /\ cur' \in Gens /\ cur' > cur /\ reauth[cur'] = "none"
    BY <1>4, GenAssumption DEF Reconfigure, TypeOK, Gens, Places, Begun
  <2>2. reauth'[cur'] # "running"
    BY <1>4, <2>1 DEF Reconfigure, TypeOK
  <2> QED
    BY <2>2 DEF StaleConnIsPermitted
<1>5. ASSUME NEW g \in Gens, ReAuthorize(g) PROVE StaleConnIsPermitted'
  BY <1>5, SnapshotStale, ReAuthStale DEF ReAuthorize
<1>6. CASE Shutdown \/ WaiterCheck \/ WaiterWait \/ ShutdownDone \/ GraceExpires \/ CancelContext
  BY <1>6, OthersStale DEF Shutdown, WaiterCheck, WaiterWait, ShutdownDone, GraceExpires,
         CancelContext, proxyVars, handlerVars, closeVars
<1>7. ASSUME NEW s \in Stoppers, Stop(s) PROVE StaleConnIsPermitted'
  BY <1>7, OthersStale DEF Stop, StopLock, StopCloseBackends, StopCloseConn, CloseConn, proxyVars,
         handlerVars, closeVars, TypeOK
<1> QED
  BY <1>2, <1>3, <1>4, <1>5, <1>6, <1>7, HandlerStale DEF Next

\* Once reAuthorize has dealt with a connection of an older configuration, and let it
\* live, the current configuration permits it, wherever its handler was then: the
\* handshake of a handler that was overtaken asks the current backend.
THEOREM StaleIsPermitted == Spec => []StaleConnIsPermitted
<1>1. Init => StaleConnIsPermitted
  BY DEF Init, StaleConnIsPermitted
<1> QED
  BY <1>1, NextStale, TypeCorrect, PlacesHold, PTL DEF Spec

=============================================================================

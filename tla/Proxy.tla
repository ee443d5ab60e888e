------------------------------- MODULE Proxy -------------------------------
(***************************************************************************)
(* The life of incoming TLS connections in the proxy (proxy/proxy.go),     *)
(* against everything that can happen to them at the same time:            *)
(*                                                                         *)
(*   - one handleConnection goroutine per connection, from Accept to the   *)
(*     hand-off to the internal HTTP server or the end of the bridge;      *)
(*   - the close callback of each connection, run once by whichever        *)
(*     goroutine closes the connection first (netw.Conn.Close);            *)
(*   - Reconfigure, which replaces every backend, and the reAuthorize      *)
(*     goroutine it starts;                                                *)
(*   - Shutdown, with its goroutine waiting on the condition variable      *)
(*     connClosed, and Stop, called by Shutdown and by ctxWait.            *)
(*                                                                         *)
(* A step is what happens between two points where another goroutine can   *)
(* observe or change shared state.  Backend objects are identified by the  *)
(* configuration that created them (a generation number) and the server    *)
(* name they serve; a configuration maps each server name to one backend.  *)
(***************************************************************************)
EXTENDS Backend, FiniteSets

CONSTANTS Conns,     \* the connections clients may open
          Names,     \* server names
          Ids,       \* identities found in client certificates
          Configs,   \* the configurations that may be installed
          NameOf,    \* the server name each client asks for
          OpenLimit, \* no configuration has a larger MaxOpen
          CertOf,    \* the identity each client can present, or None
          Proxied,   \* the connections that may begin with a PROXY header
          MaxGen,    \* bound: configurations installed, the first one included
          Events,    \* bound: what happens to the proxy from outside
          None       \* nil

Modes == {"HTTP", "TCP", "PASSTHROUGH"}

\* The fields of a Backend that decide who may connect.  clientAuth stands for
\* be.ClientAuth # nil and hasACL for be.ClientAuth.ACL # nil.
BackendConfig ==
    [mode : Modes, deny : SUBSET Conns, clientAuth : BOOLEAN, hasACL : BOOLEAN,
     acl : SUBSET Ids]

ASSUME ConnsAssumption == IsFiniteSet(Conns)
ASSUME GenAssumption == MaxGen \in Nat \ {0}
ASSUME LimitAssumption == OpenLimit \in Nat \ {0}
ASSUME EventsAssumption == Events \subseteq {"shutdown", "cancel", "echError"}
ASSUME ClientAssumption ==
    /\ NameOf \in [Conns -> Names] /\ CertOf \in [Conns -> Ids \union {None}]
    /\ Proxied \subseteq Conns
ASSUME ConfigAssumption ==
    \A cfg \in Configs :
        /\ DOMAIN cfg = {"be", "maxOpen"}
        /\ cfg.maxOpen \in 1 .. OpenLimit
        /\ DOMAIN cfg.be \subseteq Names
        /\ \A n \in DOMAIN cfg.be : cfg.be[n] \in BackendConfig
ASSUME NoneAssumption == None \notin Ids /\ None \notin (1 .. MaxGen) \X Names

Gens == 1 .. MaxGen
Backends == Gens \X Names
Stoppers == {"shutdown", "ctxWait"}

VARIABLES
    cur,        \* the generation of p.cfg and p.backends
    cfgs,       \* generation -> configuration
    owned,      \* p.cfg.Backends: Stop takes them away
    bst,        \* the shared state of every Backend object
    listening,  \* p.listener is open
    ctxDone,    \* p.ctx is done
    crashed,    \* a panic outside a recover ended the process
    pc,         \* where the goroutine of each connection is
    numOpen,    \* what inConns.add returned to it
    named,      \* annotation serverNameKey is set
    rekeyed,    \* the connections that have the addresses of a PROXY header
    be,         \* the Backend the handler found
    annot,      \* annotation backendKey
    cert,       \* annotation clientCertKey
    hook,       \* the OnClose callback: unset, set, or how far it has run
    ended,      \* the Backend whose count the callback has decremented
    sock,       \* the network connection is open or closed
    inConns,    \* the connections in the tracker p.inConns, which may be closed
    reauth,     \* the reAuthorize goroutine of each generation
    pending,    \* the connections it still has to look at
    sd,         \* Shutdown: not called, waiting in its select, or calling Stop
    waiter,     \* the goroutine Shutdown waits for
    stop,       \* how far each call of Stop is
    stopBackends, stopConns   \* what that call has taken to close

proxyVars == <<cur, cfgs, owned, listening, ctxDone>>
handlerVars == <<pc, numOpen, named, rekeyed, be, annot, cert>>
closeVars == <<hook, ended, sock, inConns>>
reauthVars == <<reauth, pending>>
shutdownVars == <<sd, waiter>>
stopVars == <<stop, stopBackends, stopConns>>
vars == <<proxyVars, bst, crashed, handlerVars, closeVars, reauthVars,
          shutdownVars, stopVars>>

PCs == {"idle", "start", "added", "hooked", "hello", "named", "found",
        "annotated", "handshake", "ready", "bridging", "served", "dropped", "returning", "done"}
Hooks == {"unset", "set", "remove", "dec", "notify", "done"}

TypeOK ==
    /\ cur \in Gens
    /\ cfgs \in [Gens -> Configs]
    /\ owned \in SUBSET Backends
    /\ bst \in [Backends -> BackendState]
    /\ listening \in BOOLEAN /\ ctxDone \in BOOLEAN /\ crashed \in BOOLEAN
    /\ pc \in [Conns -> PCs]
    /\ numOpen \in [Conns -> Nat]
    /\ named \in [Conns -> BOOLEAN] /\ rekeyed \in SUBSET Conns
    /\ be \in [Conns -> Backends \union {None}]
    /\ annot \in [Conns -> Backends \union {None}]
    /\ cert \in [Conns -> Ids \union {None}]
    /\ hook \in [Conns -> Hooks]
    /\ ended \in [Conns -> Backends \union {None}]
    /\ sock \in [Conns -> {"open", "closed"}]
    /\ inConns \in SUBSET Conns
    /\ reauth \in [Gens -> {"none", "started", "running"}]
    /\ pending \in [Gens -> SUBSET Conns]
    /\ sd \in {"none", "waiting", "stopping"}
    /\ waiter \in {"none", "check", "checked", "asleep", "done"}
    /\ stop \in [Stoppers -> {"none", "locked", "closing"}]
    /\ stopBackends \in [Stoppers -> SUBSET Backends]
    /\ stopConns \in [Stoppers -> SUBSET Conns]

-----------------------------------------------------------------------------
(* Backends and their configuration.                                       *)

\* The Backend objects configuration g creates.
BackendsOf(g, cfg) == {g} \X DOMAIN cfg.be

Config(b) == cfgs[b[1]].be[b[2]]

\* New backends are built with their HTTP server already running.
Build(g, cfg) ==
    [b \in Backends |->
        IF b \in BackendsOf(g, cfg)
        THEN NewBackend(cfg.be[b[2]].mode = "HTTP")
        ELSE bst[b]]

\* p.mu is free.  The goroutine of Shutdown keeps it from its check of the open
\* connections until it is on the wait list; all other critical sections are
\* single steps here.
MuFree == waiter # "checked"

\* p.backend(serverName): the current backend of that name, unless it is
\* shutting down.
Lookup(n) ==
    LET b == <<cur, n>>
    IN  IF n \in DOMAIN cfgs[cur].be /\ ~bst[b].shutdown THEN b ELSE None

\* be.checkIP
Denied(b, c) == c \in Config(b).deny

\* be.authorize(cert) is nil.  Only meaningful for a certificate that is not nil.
Authorized(b, id) == Config(b).hasACL => id \in Config(b).acl

-----------------------------------------------------------------------------
(* Closing a connection (netw.Conn.Close and the callback set by           *)
(* handleConnection).                                                      *)

\* A variant of Close that runs the callback without taking it away: a second
\* Close runs it again.
CloseConnAgain(c) ==
    IF hook[c] # "unset"
    THEN hook' = [hook EXCEPT ![c] = "remove"] /\ UNCHANGED sock
    ELSE sock' = [sock EXCEPT ![c] = "closed"] /\ UNCHANGED hook

\* The first Close takes the callback and runs it, in the three steps below,
\* before it closes the network connection; any other Close only does the
\* latter.
CloseConn(c) ==
    IF hook[c] = "set"
    THEN hook' = [hook EXCEPT ![c] = "remove"] /\ UNCHANGED sock
    ELSE sock' = [sock EXCEPT ![c] = "closed"] /\ UNCHANGED hook

\* A variant of the callback that only removes a connection with a backend.
OnCloseRemoveAnnotated(c) ==
    /\ hook[c] = "remove"
    /\ inConns' = IF annot[c] = None \/ c \in rekeyed THEN inConns ELSE inConns \ {c}
    /\ hook' = [hook EXCEPT ![c] = "dec"]
    /\ UNCHANGED <<proxyVars, bst, crashed, handlerVars, ended, sock, reauthVars,
                   shutdownVars, stopVars>>

\* p.inConns.remove(conn): the key is computed again, under a new one there is nothing to
\* delete, and the entry of the connection stays for good.
OnCloseRemove(c) ==
    /\ hook[c] = "remove"
    /\ inConns' = IF c \in rekeyed THEN inConns ELSE inConns \ {c}
    /\ hook' = [hook EXCEPT ![c] = "dec"]
    /\ UNCHANGED <<proxyVars, bst, crashed, handlerVars, ended, sock, reauthVars,
                   shutdownVars, stopVars>>

\* if be := connBackend(conn); be != nil { be.incInFlight(-1) }
OnCloseDec(c) ==
    /\ hook[c] = "dec"
    /\ hook' = [hook EXCEPT ![c] = "notify"]
    /\ ended' = [ended EXCEPT ![c] = annot[c]]
    /\ bst' = IF annot[c] = None THEN bst
              ELSE [bst EXCEPT ![annot[c]] = IncInFlight(@, -1)]
    /\ UNCHANGED <<proxyVars, crashed, handlerVars, sock, inConns, reauthVars,
                   shutdownVars, stopVars>>

\* p.connClosed.Broadcast(), without p.mu, then Close of the network connection.
OnCloseNotify(c) ==
    /\ hook[c] = "notify"
    /\ hook' = [hook EXCEPT ![c] = "done"]
    /\ sock' = [sock EXCEPT ![c] = "closed"]
    /\ waiter' = IF waiter = "asleep" THEN "check" ELSE waiter
    /\ UNCHANGED <<proxyVars, bst, crashed, handlerVars, ended, inConns,
                   reauthVars, sd, stopVars>>

OnClose(c) == OnCloseRemove(c) \/ OnCloseDec(c) \/ OnCloseNotify(c)

-----------------------------------------------------------------------------
(* The handler of a connection.                                            *)

\* What a step of the handler of c leaves alone, whatever else it does.
OthersUnchanged == UNCHANGED <<proxyVars, crashed, ended, reauthVars,
                               shutdownVars, stopVars>>

Goto(c, l) == pc' = [pc EXCEPT ![c] = l]

\* acceptLoop: listener.Accept, then go p.handleConnection(conn)
Accept(c) ==
    /\ pc[c] = "idle" /\ listening
    /\ Goto(c, "start")
    /\ sock' = [sock EXCEPT ![c] = "open"]
    /\ OthersUnchanged
    /\ UNCHANGED <<bst, numOpen, named, rekeyed, be, annot, cert, hook, inConns>>

\* Variants of add: the size read before the new entry is stored, and the number
\* of other connections, also read too early.
AddResultBefore(t, c) == Cardinality(t)
AddResultOthers(t, c) == Cardinality(t) - 1

\* connTracker.add: the number of connections, the new one included.
AddResult(t, c) == Cardinality(t \union {c})

\* numOpen := p.inConns.add(conn)
Track(c) ==
    /\ pc[c] = "start"
    /\ inConns' = inConns \union {c}
    /\ numOpen' = [numOpen EXCEPT ![c] = AddResult(inConns, c)]
    /\ Goto(c, "added")
    /\ OthersUnchanged
    /\ UNCHANGED <<bst, named, rekeyed, be, annot, cert, hook, sock>>

\* conn.OnClose(func() { ... })
SetOnClose(c) ==
    /\ pc[c] = "added"
    /\ hook' = [hook EXCEPT ![c] = "set"]
    /\ Goto(c, "hooked")
    /\ OthersUnchanged
    /\ UNCHANGED <<bst, numOpen, named, rekeyed, be, annot, cert, sock, inConns>>

\* if numOpen >= p.cfg.MaxOpen { ... return }
CheckMaxOpen(c) ==
    /\ pc[c] = "hooked"
    /\ Goto(c, IF numOpen[c] >= cfgs[cur].maxOpen THEN "returning" ELSE "hello")
    /\ OthersUnchanged
    /\ UNCHANGED <<bst, numOpen, named, rekeyed, be, annot, cert, hook, sock, inConns>>

\* A connection in the tracker has the addresses of its socket (localNetConn), until
\* conn.Conn is replaced: from then on, they are those of the PROXY header, if it came
\* with one.
Rekey(c) == rekeyed' = rekeyed \/ (c \in Proxied /\ rekeyed' = rekeyed \union {c})

\* ech.NewConn reads the ClientHello, conn.Conn is the connection it returns, and the
\* server name is recorded.  It fails on a bad ClientHello, after 5 seconds, and when
\* the connection is closed.
ClientHello(c) ==
    /\ pc[c] = "hello"
    /\ \/ /\ sock[c] = "open"
          /\ named' = [named EXCEPT ![c] = TRUE]
          /\ Rekey(c)
          /\ Goto(c, "named")
       \/ /\ Goto(c, "returning")
          /\ UNCHANGED <<named, rekeyed>>
    /\ OthersUnchanged
    /\ UNCHANGED <<bst, numOpen, be, annot, cert, hook, sock, inConns>>

\* be, err := p.backend(serverName, alpnProtos...)
FindBackend(c) ==
    /\ pc[c] = "named" /\ MuFree
    /\ be' = [be EXCEPT ![c] = Lookup(NameOf[c])]
    /\ Goto(c, IF Lookup(NameOf[c]) = None THEN "returning" ELSE "found")
    /\ OthersUnchanged
    /\ UNCHANGED <<bst, numOpen, named, rekeyed, annot, cert, hook, sock, inConns>>

\* conn.SetAnnotation(backendKey, be)
Annotate(c) ==
    /\ pc[c] = "found"
    /\ annot' = [annot EXCEPT ![c] = be[c]]
    /\ Goto(c, "annotated")
    /\ OthersUnchanged
    /\ UNCHANGED <<bst, numOpen, named, rekeyed, be, cert, hook, sock, inConns>>

\* be.incInFlight(1), and the switch on the mode of the backend, which touches
\* nothing that is shared: a denied address ends the connection, an ACME
\* tls-alpn-01 challenge is answered, whatever the address, and ends it too.
CountIn(c) ==
    /\ pc[c] = "annotated"
    /\ bst' = [bst EXCEPT ![be[c]] = IncInFlight(@, 1)]
    /\ \/ Denied(be[c], c) /\ Goto(c, "returning")
       \/ Config(be[c]).mode # "PASSTHROUGH" /\ Goto(c, "returning")
       \/ /\ ~Denied(be[c], c)
          /\ Goto(c, IF Config(be[c]).mode = "PASSTHROUGH" THEN "ready"
                     ELSE "handshake")
    /\ OthersUnchanged
    /\ UNCHANGED <<numOpen, named, rekeyed, be, annot, cert, hook, sock, inConns>>

\* p.verifyConnection, installed by the tls.Config of the backend the handler
\* found when that backend has ClientAuth: it asks the backend that is current.
VerifyConnection(c) ==
    LET b == Lookup(NameOf[c])
    IN  b # None /\ (Config(b).clientAuth => Authorized(b, CertOf[c]))

\* A client certificate is asked for, verified and authorized, or not asked for.
HandshakeAccepts(c) ==
    Config(be[c]).clientAuth =>
        /\ CertOf[c] # None
        /\ VerifyConnection(c)
        /\ Authorized(be[c], CertOf[c])

\* authorizeTLSConnection: the handshake, the annotations it leaves, and the
\* second check of the ACL.  The handshake ends after 2 minutes, when p.ctx is
\* done or when the connection is closed.
Handshake(c) ==
    /\ pc[c] = "handshake" /\ MuFree
    /\ \/ /\ sock[c] = "open" /\ ~ctxDone /\ HandshakeAccepts(c)
          /\ cert' = [cert EXCEPT ![c] = IF Config(be[c]).clientAuth
                                         THEN CertOf[c] ELSE None]
          /\ Goto(c, "ready")
       \/ /\ Goto(c, "returning")
          /\ UNCHANGED cert
    /\ OthersUnchanged
    /\ UNCHANGED <<bst, numOpen, named, rekeyed, be, annot, hook, sock, inConns>>

\* be.connLimit.Wait(p.ctx), which fails once p.ctx is done, then
\* be.httpConnChan <- conn.  The connection is accepted by the HTTP server,
\* discarded by the goroutine of a closed listener, or, on a closed channel,
\* the send panics and handleConnection recovers and closes the connection.
SendToServer(c) ==
    /\ pc[c] = "ready" /\ Config(be[c]).mode = "HTTP"
    /\ LET r == bst[be[c]]
       IN  \/ (ctxDone \/ r.chan # "open") /\ Goto(c, "returning")
           \/ r.chan = "open" /\ r.listener \in {"accepting", "closing"}
              /\ Goto(c, "served")
           \/ r.chan = "open" /\ r.listener \in {"closing", "drained"}
              /\ Goto(c, "dropped")
    /\ OthersUnchanged
    /\ UNCHANGED <<bst, numOpen, named, rekeyed, be, annot, cert, hook, sock, inConns>>

\* be.connLimit.Wait(p.ctx) and be.dial(p.ctx), which fail once p.ctx is done,
\* and the start of bridgeConns.
DialBackend(c) ==
    /\ pc[c] = "ready" /\ Config(be[c]).mode # "HTTP"
    /\ \/ ~ctxDone /\ Goto(c, "bridging")
       \/ Goto(c, "returning")
    /\ OthersUnchanged
    /\ UNCHANGED <<bst, numOpen, named, rekeyed, be, annot, cert, hook, sock, inConns>>

\* bridgeConns returns.
EndBridge(c) ==
    /\ pc[c] = "bridging"
    /\ Goto(c, "returning")
    /\ OthersUnchanged
    /\ UNCHANGED <<bst, numOpen, named, rekeyed, be, annot, cert, hook, sock, inConns>>

\* The HTTP server is done with the connection and closes it.
EndServed(c) ==
    /\ pc[c] = "served"
    /\ Goto(c, "done")
    /\ CloseConn(c)
    /\ OthersUnchanged
    /\ UNCHANGED <<bst, numOpen, named, rekeyed, be, annot, cert, inConns>>

\* handleConnection returns and its deferred function closes the connection.
Return(c) ==
    /\ pc[c] = "returning"
    /\ Goto(c, "done")
    /\ CloseConn(c)
    /\ OthersUnchanged
    /\ UNCHANGED <<bst, numOpen, named, rekeyed, be, annot, cert, inConns>>

\* The steps that happen by themselves, sooner or later.
HandlerStep(c) ==
    \/ Track(c) \/ SetOnClose(c) \/ CheckMaxOpen(c) \/ ClientHello(c)
    \/ FindBackend(c) \/ Annotate(c) \/ CountIn(c) \/ Handshake(c)
    \/ SendToServer(c) \/ DialBackend(c) \/ Return(c)

Handler(c) == Accept(c) \/ HandlerStep(c) \/ EndBridge(c) \/ EndServed(c)

-----------------------------------------------------------------------------
(* The internal HTTP servers.                                              *)

CloseListenerOf(b) ==
    /\ CanCloseListener(bst[b])
    /\ bst' = [bst EXCEPT ![b] = CloseListener(@)]
    /\ UNCHANGED <<proxyVars, crashed, handlerVars, closeVars, reauthVars,
                   shutdownVars, stopVars>>

EndServeOf(b) ==
    /\ CanEndServe(bst[b])
    /\ bst' = [bst EXCEPT ![b] = EndServe(@)]
    /\ UNCHANGED <<proxyVars, crashed, handlerVars, closeVars, reauthVars,
                   shutdownVars, stopVars>>

HTTPServer(b) == CloseListenerOf(b) \/ EndServeOf(b)

-----------------------------------------------------------------------------
(* Reconfigure and reAuthorize.                                            *)

\* Reconfigure with a configuration that differs from p.cfg and passes its
\* checks, under p.mu from end to end: build the new backends, close the ones
\* of p.cfg with p.ctx, publish, then rotate the ECH keys.  An error there is
\* returned at once, and reAuthorize is not started.
Reconfigure(cfg) ==
    /\ MuFree /\ cur < MaxGen
    /\ cfg # cfgs[cur] \/ owned # BackendsOf(cur, cfg)
    /\ cur' = cur + 1
    /\ cfgs' = [cfgs EXCEPT ![cur + 1] = cfg]
    /\ owned' = BackendsOf(cur + 1, cfg)
    /\ bst' = [b \in Backends |-> IF b \in owned THEN CloseGraceful(bst[b])
                                  ELSE Build(cur + 1, cfg)[b]]
    /\ \/ reauth' = [reauth EXCEPT ![cur + 1] = "started"]
       \/ "echError" \in Events /\ UNCHANGED reauth
    /\ UNCHANGED <<listening, ctxDone, crashed, handlerVars, closeVars, pending,
                   shutdownVars, stopVars>>

\* for _, conn := range p.inConns.slice()
ReAuthSnapshot(g) ==
    /\ reauth[g] = "started"
    /\ reauth' = [reauth EXCEPT ![g] = "running"]
    /\ pending' = [pending EXCEPT ![g] = inConns]
    /\ UNCHANGED <<proxyVars, bst, crashed, handlerVars, closeVars, shutdownVars,
                   stopVars>>

\* A variant of the loop without its check of the client's address.
ReAuthVerdictNoCheckIP(c) ==
    LET b == Lookup(NameOf[c])
    IN  IF ~named[c] THEN "keep"
        ELSE IF b = None \/ annot[c] = None THEN "panic"
        ELSE IF Config(b).mode # Config(annot[c]).mode THEN "close"
        ELSE IF ~Config(b).clientAuth THEN "keep"
        ELSE IF Config(b).hasACL /\ cert[c] = None THEN "panic"
        ELSE IF Authorized(b, cert[c]) THEN "keep" ELSE "close"

\* What one round of the loop comes to.  There are three nil dereferences, each
\* of which ends the process because the goroutine has no recover: be when the
\* lookup fails, oldBE when the handler has not annotated the connection yet,
\* and the certificate when there is an ACL and none was presented.
ReAuthVerdict(c) ==
    LET b == Lookup(NameOf[c])
    IN  IF ~named[c] THEN "keep"
        ELSE IF b = None \/ annot[c] = None THEN "panic"
        ELSE IF Config(b).mode # Config(annot[c]).mode \/ Denied(b, c) THEN "close"
        ELSE IF ~Config(b).clientAuth THEN "keep"
        ELSE IF Config(b).hasACL /\ cert[c] = None THEN "panic"
        ELSE IF Authorized(b, cert[c]) THEN "keep" ELSE "close"

ReAuthConn(g, c) ==
    /\ reauth[g] = "running" /\ c \in pending[g] /\ MuFree
    /\ pending' = [pending EXCEPT ![g] = @ \ {c}]
    /\ crashed' = (ReAuthVerdict(c) = "panic")
    /\ IF ReAuthVerdict(c) = "close" THEN CloseConn(c) ELSE UNCHANGED <<hook, sock>>
    /\ UNCHANGED <<proxyVars, bst, handlerVars, ended, inConns, reauth,
                   shutdownVars, stopVars>>

ReAuthorize(g) == ReAuthSnapshot(g) \/ \E c \in Conns : ReAuthConn(g, c)

-----------------------------------------------------------------------------
(* Shutdown and Stop.                                                      *)

\* The first part of Shutdown, under p.mu.
Shutdown ==
    /\ "shutdown" \in Events
    /\ sd = "none" /\ MuFree
    /\ sd' = "waiting"
    /\ waiter' = "check"
    /\ listening' = FALSE
    /\ bst' = [b \in Backends |-> IF b \in owned THEN CloseGraceful(bst[b])
                                  ELSE bst[b]]
    /\ UNCHANGED <<cur, cfgs, owned, ctxDone, crashed, handlerVars, closeVars,
                   reauthVars, stopVars>>

\* connLeft(): a connection that is not bridged to a TCP or TLS server is open.
\* One that has no backend yet counts.
ConnLeft ==
    \E c \in inConns :
        annot[c] = None \/ Config(annot[c]).mode \notin {"TCP", "PASSTHROUGH"}

\* p.mu.Lock(); for connLeft() { ... }; close(done)
WaiterCheck ==
    /\ waiter = "check"
    /\ waiter' = IF ConnLeft THEN "checked" ELSE "done"
    /\ UNCHANGED <<proxyVars, bst, crashed, handlerVars, closeVars, reauthVars, sd,
                   stopVars>>

\* p.connClosed.Wait() joins the wait list and releases p.mu.
WaiterWait ==
    /\ waiter = "checked"
    /\ waiter' = "asleep"
    /\ UNCHANGED <<proxyVars, bst, crashed, handlerVars, closeVars, reauthVars, sd,
                   stopVars>>

\* case <-done
ShutdownDone ==
    /\ sd = "waiting" /\ waiter = "done"
    /\ sd' = "stopping"
    /\ UNCHANGED <<proxyVars, bst, crashed, handlerVars, closeVars, reauthVars,
                   waiter, stopVars>>

\* A variant of the select that only looks at ctx when the waiter is done.
GraceExpiresLate ==
    /\ sd = "waiting" /\ waiter = "done"
    /\ sd' = "stopping"
    /\ UNCHANGED <<proxyVars, bst, crashed, handlerVars, closeVars, reauthVars,
                   waiter, stopVars>>

\* case <-ctx.Done(): the grace period is over.
GraceExpires ==
    /\ sd = "waiting"
    /\ sd' = "stopping"
    /\ UNCHANGED <<proxyVars, bst, crashed, handlerVars, closeVars, reauthVars,
                   waiter, stopVars>>

\* The context given to Start is canceled.
CancelContext ==
    /\ "cancel" \in Events
    /\ ~ctxDone
    /\ ctxDone' = TRUE
    /\ UNCHANGED <<cur, cfgs, owned, listening, bst, crashed, handlerVars,
                   closeVars, reauthVars, shutdownVars, stopVars>>

\* The first part of Stop, under p.mu.  Shutdown calls it at its end; ctxWait
\* calls it when p.ctx is done, the cancel of another Stop included.
StopLock(s) ==
    /\ stop[s] = "none" /\ MuFree
    /\ IF s = "shutdown" THEN sd = "stopping" ELSE ctxDone
    /\ stop' = [stop EXCEPT ![s] = "locked"]
    /\ ctxDone' = TRUE
    /\ listening' = FALSE
    /\ owned' = {}
    /\ stopBackends' = [stopBackends EXCEPT ![s] = owned]
    /\ stopConns' = [stopConns EXCEPT ![s] = inConns]
    /\ UNCHANGED <<cur, cfgs, bst, crashed, handlerVars, closeVars, reauthVars,
                   shutdownVars>>

\* for _, be := range backends { be.close(nil) }
StopCloseBackends(s) ==
    /\ stop[s] = "locked"
    /\ stop' = [stop EXCEPT ![s] = "closing"]
    /\ bst' = [b \in Backends |-> IF b \in stopBackends[s] THEN CloseNow(bst[b])
                                  ELSE bst[b]]
    /\ UNCHANGED <<proxyVars, crashed, handlerVars, closeVars, reauthVars,
                   shutdownVars, stopBackends, stopConns>>

\* A variant of Stop that leaves the connections to their handlers.
StopForgetsConn(s, c) ==
    /\ stop[s] = "closing" /\ c \in stopConns[s]
    /\ stopConns' = [stopConns EXCEPT ![s] = @ \ {c}]
    /\ UNCHANGED <<proxyVars, bst, crashed, handlerVars, closeVars, reauthVars,
                   shutdownVars, stop, stopBackends>>

\* for _, conn := range conns { conn.Close() }
StopCloseConn(s, c) ==
    /\ stop[s] = "closing" /\ c \in stopConns[s]
    /\ stopConns' = [stopConns EXCEPT ![s] = @ \ {c}]
    /\ CloseConn(c)
    /\ UNCHANGED <<proxyVars, bst, crashed, handlerVars, ended, inConns,
                   reauthVars, shutdownVars, stop, stopBackends>>

Stop(s) == StopLock(s) \/ StopCloseBackends(s) \/ \E c \in Conns : StopCloseConn(s, c)

-----------------------------------------------------------------------------
Init ==
    /\ cur = 1
    /\ cfgs \in {[g \in Gens |-> cfg] : cfg \in Configs}
    /\ owned = BackendsOf(1, cfgs[1])
    /\ bst = [b \in Backends |->
                NewBackend(b \in owned /\ Config(b).mode = "HTTP")]
    /\ listening = TRUE /\ ctxDone = FALSE /\ crashed = FALSE
    /\ pc = [c \in Conns |-> "idle"]
    /\ numOpen = [c \in Conns |-> 0]
    /\ named = [c \in Conns |-> FALSE] /\ rekeyed = {}
    /\ be = [c \in Conns |-> None]
    /\ annot = [c \in Conns |-> None]
    /\ cert = [c \in Conns |-> None]
    /\ hook = [c \in Conns |-> "unset"]
    /\ ended = [c \in Conns |-> None]
    /\ sock = [c \in Conns |-> "closed"]
    /\ inConns = {}
    /\ reauth = [g \in Gens |-> "none"]
    /\ pending = [g \in Gens |-> {}]
    /\ sd = "none" /\ waiter = "none"
    /\ stop = [s \in Stoppers |-> "none"]
    /\ stopBackends = [s \in Stoppers |-> {}]
    /\ stopConns = [s \in Stoppers |-> {}]

\* A crash ends every goroutine.
Next ==
    /\ ~crashed
    /\ \/ \E c \in Conns : Handler(c) \/ OnClose(c)
       \/ \E b \in Backends : HTTPServer(b)
       \/ \E cfg \in Configs : Reconfigure(cfg)
       \/ \E g \in Gens : ReAuthorize(g)
       \/ Shutdown \/ WaiterCheck \/ WaiterWait \/ ShutdownDone \/ GraceExpires
       \/ CancelContext
       \/ \E s \in Stoppers : Stop(s)

Spec == Init /\ [][Next]_vars

-----------------------------------------------------------------------------
(* Safety.                                                                 *)

\* No interleaving of handlers, close callbacks, Reconfigure, Shutdown and Stop
\* closes a backend's httpConnChan twice: incInFlight and both branches of
\* be.close race to do it.
ChannelClosedOnce == \A b \in Backends : bst[b].chan # "panic"

\* The connections counted in, and out, of backend b.
CountedIn(b) == {c \in Conns : be[c] = b /\ pc[c] \notin {"found", "annotated"}}
CountedOut(b) == {c \in Conns : ended[c] = b}

\* be.state.inFlight is the number of handlers that have executed
\* incInFlight(1) minus the number of callbacks that have executed
\* incInFlight(-1), in whatever order the two happen for a connection.
InFlightIsExact ==
    \A b \in Backends :
        bst[b].inFlight = Cardinality(CountedIn(b)) - Cardinality(CountedOut(b))

\* No handler and no close callback will touch the count of b again.
Quiescent(b) ==
    \A c \in Conns :
        be[c] = b => /\ pc[c] \notin {"found", "annotated"}
                     /\ hook[c] \in {"notify", "done"}

\* Until the proxy stops, a backend that was replaced or shut down has closed its
\* channel, and so ended its HTTP server, once its last connection is gone: the
\* count cannot miss zero, although a connection may be counted out before it is
\* counted in (handleConnection annotates the connection, then counts it).
DrainedBackendIsReleased ==
    \A b \in Backends :
        bst[b].shutdown /\ Quiescent(b) /\ ~ctxDone => bst[b].chan = "closed"

\* Stop and reAuthorize, which only know the connections of the tracker, miss none
\* that is open: whatever closes it, with or without a callback, a connection is there
\* from inConns.add until the remove of its close callback.  After that it is there only
\* if its key is not the one it was added with.
TrackedUntilRemoved ==
    \A c \in Conns :
        LET added == pc[c] \notin {"idle", "start"}
            removed == hook[c] \in {"dec", "notify", "done"}
        IN  /\ added /\ ~removed => c \in inConns
            /\ c \in inConns => added /\ (removed => c \in rekeyed)

\* The current configuration lets the connection stay, as reAuthorize sees it.
StillPermitted(c) ==
    /\ NameOf[c] \in DOMAIN cfgs[cur].be
    /\ LET b == <<cur, NameOf[c]>>
       IN  /\ Config(b).mode = Config(be[c]).mode
           /\ ~Denied(b, c)
           /\ Config(b).clientAuth /\ Config(b).hasACL => cert[c] \in Config(b).acl

\* Once the reAuthorize of the current configuration has dealt with a connection
\* that was let in by an older one, the connection is closed, or being closed, or
\* the current configuration permits it.  The handler may have looked up its
\* backend before the change and still be on its way, handshake included.
StaleConnIsPermitted ==
    \A c \in Conns :
        /\ ~crashed
        /\ be[c] # None /\ be[c][1] < cur
        /\ reauth[cur] = "running" /\ c \notin pending[cur]
        /\ sock[c] = "open" /\ hook[c] = "set"
        => StillPermitted(c)

\* "ClientAuth specifies that the TLS client's identity must be verified"
\* (config.go): once reAuthorize has dealt with a connection that is being served
\* and let it be, it has a certificate if the current backend has ClientAuth.
StaleConnIsVerified ==
    \A c \in Conns :
        /\ ~crashed
        /\ be[c] # None /\ be[c][1] < cur
        /\ reauth[cur] = "running" /\ c \notin pending[cur]
        /\ sock[c] = "open" /\ hook[c] = "set" /\ pc[c] \in {"served", "bridging"}
        /\ NameOf[c] \in DOMAIN cfgs[cur].be
        => (Config(<<cur, NameOf[c]>>).clientAuth => cert[c] # None)

\* "Reconfigure updates the proxy's configuration" (proxy.go): whatever the
\* connections are doing at that time, the process survives it.
ReconfigureSurvives == ~crashed

\* How far a handler is, as seen by the admission control.
AdmissionStage(l) ==
    CASE l \in {"idle", "start"} -> "new"
      [] l \in {"added", "hooked"} -> "counted"
      [] l \in {"returning", "done"} -> "over"
      [] OTHER -> "admitted"

admissionStage == [c \in Conns |-> AdmissionStage(pc[c])]

ADM == INSTANCE Admission WITH
           MaxOpen <- OpenLimit, tracked <- inConns, stage <- admissionStage

\* The handlers, with everything that may close a connection under them,
\* implement the admission control of module Admission, for which the number of
\* admitted connections is proved to stay below MaxOpen.
ImplementsAdmission == ADM!Spec

-----------------------------------------------------------------------------
(* Liveness.                                                               *)

\* Goroutines are scheduled, locks are granted and every wait of a handler has a
\* timeout (5 seconds for the ClientHello, 2 minutes for the handshake, the rate
\* limiter and the dialer have theirs).  A connection that is being served or
\* bridged need not end, except that reading from it fails once it is closed.
Fairness ==
    /\ \A c \in Conns :
           /\ WF_vars(~crashed /\ HandlerStep(c))
           /\ WF_vars(~crashed /\ OnClose(c))
           /\ WF_vars(~crashed /\ sock[c] = "closed" /\ (EndBridge(c) \/ EndServed(c)))
    /\ \A b \in Backends : WF_vars(~crashed /\ HTTPServer(b))
    /\ \A g \in Gens : WF_vars(~crashed /\ ReAuthorize(g))
    /\ WF_vars(~crashed /\ (WaiterCheck \/ WaiterWait))
    /\ WF_vars(~crashed /\ ShutdownDone)
    /\ \A s \in Stoppers : WF_vars(~crashed /\ Stop(s))

\* The context given to Shutdown may never be done.
FairSpec == Spec /\ Fairness

\* The context main gives to Shutdown has a timeout.
DeadlineSpec == FairSpec /\ WF_vars(~crashed /\ GraceExpires)

\* Once p.ctx is done, every connection ends up closed for good, and out of the tracker
\* unless its key has changed, those included that were accepted but not yet tracked
\* when Stop took its list, or had no close callback yet when Stop closed them.
StopClosesAll ==
    ctxDone ~> [](\/ crashed
                  \/ \A c \in Conns : sock[c] = "closed" /\ (c \in inConns => c \in rekeyed))

\* Shutdown comes to the end of its Stop, connections that never end or that the
\* HTTP server dropped included, when its context has a deadline.
ShutdownReturns ==
    sd = "waiting" ~>
        crashed \/ (stop["shutdown"] = "closing" /\ stopConns["shutdown"] = {})

\* "Shutdown gracefully shuts down the proxy, waiting for all existing
\* connections to close or ctx to be canceled": when none is left, it goes on.
ShutdownSeesLastClose ==
    (sd = "waiting" /\ inConns = {} /\ ~crashed) ~> (sd # "waiting" \/ crashed)
=============================================================================

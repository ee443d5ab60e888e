# Verification of tlsproxy

TLA+ models of the TLS reverse proxy in this repository, model-checked with TLC
and partly proved with TLAPS. Every definition that models code has an entry in
`PROJECT.json` (`map`) with the file and the lines it stands for.

## 1. The system

| Component | State | Operations | Modelled in |
|---|---|---|---|
| Connection handlers (`proxy/proxy.go`, `netw`) | the annotations of a connection (server name, backend, mode), its close callback, the handler's place | accept, track, MaxOpen check, ClientHello, backend lookup, count, handshake, hand over to an HTTP server or bridge, close | `Proxy` |
| Connection tracker (`conntracker.go`) | set of open connections | add (returns the size), remove, slice | `Admission`, `Proxy` |
| Backends (`backend.go`, `http.go`, `config.go`) | `inFlight`, `shutdown`, `httpServer`, `httpConnChan`, the listener of the internal HTTP server | `incInFlight`, `close(ctx)`, `close(nil)`, `proxyListener.Accept/Close` | `Backend`, `Proxy` |
| Configuration changes (`proxy.go`) | the map from server name to backend | `Reconfigure`, `reAuthorize` | `Proxy` |
| Shutdown (`proxy.go`, `main.go`) | the waiter on `connClosed`, the context | `Shutdown`, `Stop`, `ctxWait` | `Proxy` |
| Bridge (`backend.go`) | two connections, two copiers, read deadlines | `bridgeConns`, `forward`, half-close | `Bridge` |
| Token manager (`internal/tokenmanager`) | signing keys in memory and in a file | rotation, `CreateToken`, `ValidateToken`, `ServeJWKS` | `TokenManager` |
| QUIC connections (`quic.go`, `netw/quic.go`) | as the connection handlers; connections to backends, streams | `handleQUICConnection`, its streams, `OnClose`, `Close` | `QUIC` |
| Dialer (`backend.go`, `quic.go`) | index of the next address, tracker of outgoing connections | `dial`, `dialQUICBackend` | `QUIC` |
| SSO enforcement, cookies, URL tokens (`backend-sso.go`, `cookiemanager`, `urltoken.go`) | the cookies of a browser | checks of a request, login, logout, renewal of the ID token | `Login` |
| OpenID Connect client, SAML client | states of the logins under way | `RequestLogin`, `HandleCallback` | `Login` |
| OpenID Connect server | codes and access tokens | authorization, token, user info, vacuum | `OIDCServer` |
| Passkeys | login nonces, challenges, a file of users and keys and a copy of it | options, registration, login, deletion | `Passkeys` |
| PKI | issued certificates, revocations, delegates, revocation lists, a file and a copy of it | issue, find, revoke, list, OCSP answer | `PKI` |
| OCSP cache | answers, and a file of them | verification of a handshake, fetch, flush, load | `Revocation` |
| Local handlers and reverse proxy, configuration checks, SSH CA, ECH keys, counters, metrics, logging, WebSockets, certificate revocation at start, command line tools | little or none | | no (see PROJECT.json) |

How they interact: a handler goroutine per connection works on the shared
tracker (`inConns`), the shared map of backends (under `p.mu`) and the state of
one backend (under `be.state.mu`), never with two of these locks at a time.
Closing a connection runs its callback on whatever goroutine closes it: the
handler, `Stop`, `reAuthorize` or the HTTP server. The callback removes the
connection from the tracker, decrements the backend's count and broadcasts on
`connClosed`, which `Shutdown` waits on. A backend that was closed gracefully is
released by the callback of its last connection.

Above the connections, a request to an HTTP backend meets the SSO policy, which
reads cookies that the identity providers of the configuration set at the end of
a login. A login is a conversation of four parties: the browser, the backend
that asks for it, the client of the identity provider (OpenID Connect, SAML or
passkeys) and the provider, which for OpenID Connect may be this program too. A
handshake with a client certificate asks the PKI of the program (`IsRevoked`), or
an OCSP server through the cache. PKI, passkeys and token manager keep documents in
files that they open, change in memory and commit. A new configuration makes
new clients, managers and backends; requests under way end with the old ones.

What is hard about it: each of these is a separate critical section, so every
check is stale when it is used; four parties may close the same connection at any
step of its handler; a configuration change replaces the backends that handlers
hold; keys are used before they are saved; a login is looked up before and after
calls that may take long; a revocation travels through a file, a copy in memory,
lists, stapled answers and caches, any of which may be old. The list of hazards in
`PROJECT.json` says at which line each one bites and which property covers it.

What makes each component correct:

* tracker and handlers: fewer than MaxOpen connections are admitted; a tracked
  connection is one that is open; the count of a backend is the number of
  connections that use it;
* backends: the channel to the HTTP server is closed once, and a drained backend
  releases its server;
* configuration changes: no connection that the new configuration refuses
  survives the re-authorization;
* shutdown: everything is closed in the end, and `Shutdown` returns;
* bridge: the end of a stream comes after its data, a connection is cut only for
  a reason, and a half-closed connection ends;
* token manager: a live token always validates, and services that cache the
  served keys recognize new tokens;
* logins: a login ends in one session at most, of the browser that began it and
  the user who logged in for it; the session is good for the page it was made for
  and for nothing that the policy of a host refuses; codes and tokens work once;
* PKI and OCSP: a reported revocation is never lost, the lists show it, and a
  revoked certificate is refused within one refresh period;
* passkeys: a login is by a key of that user, for a challenge answered in time and
  once; a registered key can be used until it is deleted;
* QUIC and dialer: connections are counted and forgotten as they should, servers
  outlive their connections, and a dialer tries every address.

## 2. Modules

`Admission` is the abstract specification of admission control: a connection is
added to the tracker and told the size of it, later compares that number with
MaxOpen and is admitted or finishes, and is removed when it is closed. It says
nothing about backends, handshakes or who closes what.

`Backend` has the state of one backend and its operations as functions from
state to state (`IncInFlight`, `CloseGraceful`, `CloseNow`), each one critical
section of `be.state.mu`, and the states of its `proxyListener`.

`Proxy` composes them. One action is one step at which another goroutine could
see or change something:

| Action | Code |
|---|---|
| `Accept`, `Track`, `SetOnClose`, `CheckMaxOpen`, `ClientHello`, `FindBackend`, `Annotate`, `CountIn` | `acceptLoop`, `handleConnection` up to the mode switch |
| `Handshake` (`VerifyConnection`, `HandshakeAccepts`, `Authorized`, `Denied`) | `authorizeTLSConnection`, `verifyConnection`, `authorize`, `checkIP` |
| `SendToServer`, `EndServed` | `handleHTTPConnection`, the HTTP server |
| `DialBackend`, `EndBridge` | `handleTLSConnection`, `handleTLSPassthroughConnection` |
| `Return` | the deferred functions of `handleConnection` |
| `OnCloseRemove`, `OnCloseDec`, `OnCloseNotify` | the close callback, in its three critical sections |
| `CloseListenerOf`, `EndServeOf` | `startInternalHTTPServer`, `serveHTTP` |
| `Reconfigure`, `ReAuthSnapshot`, `ReAuthConn` | `Reconfigure`, `reAuthorize` |
| `Shutdown`, `WaiterCheck`, `WaiterWait`, `ShutdownDone`, `GraceExpires`, `CancelContext` | `Shutdown`, `ctxWait`, `main` |
| `StopLock`, `StopCloseBackends`, `StopCloseConn` | `Stop` |

`Bridge` refines what `Proxy` does in `EndBridge`: one action per step of
`forward` for each direction, with the peers, the window of a connection and
the deadline as its environment.

`TokenManager` counts time in rounds of `KeyRotationLoop`. A rotation may end
early, or fail to save the keys after they are in use; the process may crash and
start again. One live token and one cache of served keys stand for all: they
come and go at any time.

`OIDCServer` has the codes and access tokens of the OpenID Connect server. A token
request is two steps, since the vacuum comes before the form is read. Another client
of the server, which retries, is part of its environment.

`Login` extends it with the browsers. `Outcome` is what the SSO policy makes of a
request, a function of the cookies; `RefreshIDToken`, `ServeLogin`,
`ServeLogout` and `ServeLogoutAgain` are the requests that change something;
`StartCallback`, `ReceiveToken`, `ReceiveUserInfo`, `CallFails` and
`FinishCallback` are `HandleCallback` of the OpenID Connect client, cut where it
calls the server; `SAMLCallback` is that of the SAML client. `Reconfigure` replaces
the clients and the server.

`PKI` has one action per critical section of the manager's lock, and one for the
check of the delegate's age, which is made without it. `Revocation` extends it
with the verification of handshakes (`Verify`, `AddStapled`, `Look`, `Fetch`,
`AddFetched`), the cache's file (`Flush`, `Load`) and the owners of certificates,
who staple answers. Both have restarts; `PKI` has new configurations.

`Passkeys` has the file of users, and for each manager a copy and its challenges. A
browser is sent to the login page (`RequestLogin`, `OpenLoginPage`), gets options,
and answers them in a request that first cleans up and then does the rest under
the lock (`StartAddKey`, `FinishAddKey`, `StartCheck`, `FinishCheck`). A
configuration is made (`Reconfigure`) and later published (`Publish`); in
between the old manager goes on changing the file.

`QUIC` is the life of QUIC connections at one backend, on top of `Backend`: the
handler, the goroutine that `OnClose` starts, the streams, and the dialer with the
connections it makes. The mode of the backend is chosen once: an HTTP/3 server
(`h3`), an HTTP server only (`http`), streams bridged to TCP connections (`tcp`),
or to a QUIC connection (`dial`).

The `MC` modules give the constants their values. The modules whose names end in
`_proofs` hold the theorems about the module they are named after.

### Abstractions

* A configuration is a MaxOpen and, for each server name, one backend with a mode
  (HTTP, TCP or passthrough), client authentication, an ACL and denied addresses;
  ALPN protocols are left out, and so is what is forwarded. MaxOpen may change, so
  `Proxy` implements `Admission` with the largest MaxOpen of its configurations.
* Revocation checks are a handshake that may fail.
* `reAuthorize` looks a connection up and judges it in one step; the closing of
  the connection and the callback are steps of their own.
* The tracker's key of a connection is the connection. (The code computes it from
  the addresses, which a PROXY header could change between add and remove.)
* QUIC connections and the HTTP/3 server are in `QUIC`, one backend at a time, not
  in `Proxy`; datagrams are left out.
* Random strings are numbers: a nonce is the number of its login, a code that of its
  authorization. They are not guessed, and browsers keep to their cookies, except
  that one may send the answer of a provider that was meant for another.
* Cookies of an answer take effect when the request ends. A request that was
  refused with an expired ID token and one without are the same.
* The commit of a document writes the file or fails; a failed one leaves the copy
  as it is. The decoder of the storage library may merge what it reads into the
  maps in memory (`merge`), or not: both are possible.
* OCSP: a chain has one certificate with one server; a fetch that fails ends the
  handshake. (The code skips a certificate for which no request can be made at all,
  say because the URL of its server does not parse.)
* Passkeys: an authenticator follows the protocol and remembers the handle it was
  given; every user is on the ACL.
* Stored keys always parse. The tokens' signatures and the bytes of a stream are
  not modelled; chunks are counted.
* Each variant definition (named after what it gets wrong) is a plausible bug; the
  `mutants` of `PROJECT.json` say which property it must violate.

## 3. Model checking

| Run | Instance | Shows |
|---|---|---|
| `admission` | 4 connections, MaxOpen 3 | stale counts never admit MaxOpen connections or more; one too many is refused |
| `reconfigure` | 2 connections, 1 name, 7 configurations, 1 change, with or without `reAuthorize` | counts and tracker are exact, channels are closed once, drained backends are released, refused connections do not survive; `Proxy` implements `Admission` |
| `shutdown` | 1 connection, `Shutdown` with a deadline and cancellation in any order | both calls of `Stop` together close everything; `Shutdown` returns |
| `bridge` | 2 chunks each way, window 1, all settings | order of data and end of stream, justified cuts, and the end of the bridge |
| `token_manager` | 2 key types, 15 rounds, periods as tight as the assumption allows | live tokens validate, caches know the keys of new tokens, a key of each type is always there |
| `login` | 2 browsers, 3 hosts (ForceReAuth, ID tokens, SAML), 2 users, 2 callbacks at a time, 2 logins or 1 and a new configuration or a login of another client | single use of codes, access tokens and logins; who a session is for and what it is good for |
| `revocation` | 1 certificate, 2 requests or handshakes at a time and 4 in all, 1 commit that fails, restart or new configuration | revocations are durable, lists are current and numbered, a revoked certificate is refused in time |
| `passkeys` | 2 users, 2 browsers, 2 keys, 3 challenges, 2 logins with the other provider, 1 commit that fails or new configuration | logins are sound, registered keys are kept and found |
| `quic` | 2 connections, 2 addresses up or down, 4 modes, 1 new configuration | counts and trackers, the life of the servers, the dialer tries all addresses |
| `lost_wakeup` | as `shutdown`, without deadline | violated: see below |
| `client_auth` | 1 connection, 1 change | violated: see below |
| `reauth_crash` | 1 connection, 1 change | violated: see below |

Bounds. Two connections are enough for a stale count, a lost decrement or two
closers to meet, because all shared state is per connection, per backend or a
count; one change of configuration has every handler step before, during and
after it, and the seven configurations differ in every field `reAuthorize` looks
at. The token run covers more than one full retention period, so that keys are
made, used, kept and dropped. A window of one makes copiers block.

In `login` two logins are what it takes for one to disturb another: two tabs, two
browsers, two callbacks of the same login, or a second user after a logout; MaxLogins
counts the logins here, those of the other client and the new configurations, and
`MayLogIn` lets the first login be of one user and the second of the other. Lifetimes
of 1 and 2 with a clock up to 2 make everything expire, or not, between any two
steps. In `revocation` the refresh period is 2 and the clock runs to 3, so that a
list, a stapled and a cached answer outlive a revocation and then expire; a list can
be replaced and dropped (MaxNumCRL 1), and a delegate is rotated twice. One certificate
is enough: what is said of one does not depend on the others, but for the list that
they share. MaxWork bounds the requests and handshakes that begin, not the steps in
them. In `passkeys` the clock moves by `Leap`, past all lifetimes at once: what
matters is whether something has expired. Three challenges make two registrations
and a login with the first key. In `quic` two connections meet at the count, at the
server and at the index of the next address; MaxOpen is out of reach because
`admission` is about it.

None of these four runs checks for deadlock: with the bounds used up, and nobody
asking, the system is at rest.

Fairness. In `shutdown` and `bridge` the goroutines of the proxy are weakly fair:
the Go scheduler runs them, locks are granted, and every wait of a handler ends
by a timeout (ClientHello, handshake, dial) or with the context. What a client
or a backend does is not fair: an idle bridged or served connection ends only
after somebody closed it. `Shutdown` returns under the deadline that `main`
gives it (`DeadlineSpec`); `lost_wakeup` drops that one condition. In `bridge`,
deadlines expire. `bridge` also assumes that
peers read what they are sent; the code does not enforce this: no deadline ends a
write that blocks, and `HalfCloseTimeout` only bounds reads, so a client that
half-closes and stops reading can keep its connection.

`TokenManager` has bounds that are assumptions on failures: outages and early
errors delay saved keys by at most MaxLag, with
`NewAfter + MaxLag + SettleFor + TokenLife <= RetainFor + 1` (5 days with the periods
of the code: 24 h, 2 h, 20 h and 7 days), and keys that could not be saved
are replaced before they are old enough to sign (2 hours). Beyond the second
bound live tokens do become invalid: a key that was never saved signs them, and
the next rotation that works forgets it.

### Disagreements with the documentation

* `lost_wakeup`: the close callback broadcasts without the mutex of the condition,
  so that the last close can fall between the check and the wait in `Shutdown`;
  without a deadline it then waits forever with no connection left.
* `client_auth`: after a change that adds ClientAuth without an ACL, a connection
  that never showed a certificate is kept.
* `reauth_crash`: `reAuthorize` dereferences nil for a server name that is gone, for
  a connection between two steps of its handler, and for a connection without
  certificate under a new ACL.

### Corner cases

What the models show to be possible, and the properties therefore leave out. No
document promises otherwise, and none of them is more than a bounded nuisance except
where it says so.

* QUIC: a connection that ends between `incInFlight` and the annotation of its backend
  is never counted out (`Leaked`), so that a replaced backend keeps its servers for
  good. A connection to a backend that ends between `OnClose` and `outConns.add`
  stays in that tracker.
* QUIC: when the backend is replaced between its lookup and `incInFlight`, it is
  released; a stream is then sent to a closed channel, and since the handlers of
  streams do not recover from a panic, the process ends (`late`).
* QUIC: when the connection to the backend ends first, the handler waits for the client.
  A stream of the backend that goes one way is not waited for.
* Dialer: two dialers that take turns may each be given the same address twice and
  give up although another one answers (`crowded`).
* PKI: a revocation in the same second as a list is not on it until the next list; a
  list is handed out up to half a period after its next update.
* PKI: a revocation by a request that began before a new configuration is in the file,
  but the new manager answers from its copy until it next reads the file
  (`acked[s].old`).
* OCSP cache: a stapled good answer may replace a revoked one that came in between,
  and a restart brings older answers back; both are good until they expire, which is
  why `RevokedIsNotLetInLate` speaks of one refresh period.
* PKI: two requests may both find the delegate too old and make one each, and two may
  revoke the same certificate, the second of which moves its time.
* Passkeys: a manager that has not read the file since a user registered elsewhere
  (by the previous manager, or by that of another passkey provider, which shares the
  file) gives the user a new handle; the key is then saved under the old one, and the
  user cannot log in with it (`stale`). The same happens when two registrations of a new
  user are pending and all keys are deleted between the end of the first and that of
  the second.
* Passkeys: `ManageKeys` answers that a key is deleted also when that failed.
* Logins under way, and pending challenges, end with an error after a new
  configuration. States of logins are dropped only by callbacks, so that logins that
  are begun and never finished add up until then.

## 4. Proofs

All theorems hold for every value of the constants under the named assumptions
of the modules. Each proof module states its inductive invariant, shows that the
initial states satisfy it and that every action preserves it, and derives the
properties of the runs from it. TLC checked each invariant on a small instance before
it was proved (that of `Passkeys` with one browser; with two by simulation).

* `Admission_proofs`: `TypeCorrect`, `RanksHold`, `AdmissionIsBounded`. That fewer
  than MaxOpen connections are admitted is not inductive: a handler compares an
  old number. The strengthening is `CountsAreRanks`: at most k tracked
  connections were ever told k or less. An `add` preserves it because the new
  number is larger than the size of the tracker before; a `remove` only shrinks
  the sets. The admitted ones were all told less than MaxOpen.
* `Proxy_proofs`:
  * `TypeCorrect`, and `NoDoubleClose`, from the invariant that a backend whose
    channel is closed has no server left to release (`AllSound`), which each
    operation of `Backend` preserves whatever the order.
  * `PlacesHold` and `TrackerExact`: what the place of a handler and the place of the
    close callback say about the connection (`Placed`). The callback may run at any
    step of the handler, so the invariant relates the two places rather than fixing
    one by the other.
  * `InFlightExact`: the count of a backend is the cardinality of a set that is
    defined by those places. A step adds one connection to the set and one to the
    count, or takes both away, or changes neither.
  * `DrainedIsReleased`: from the count and from what a backend that was shut down
    still waits for (`AllDraining`).
  * `StaleIsPermitted`: a connection that reAuthorize has dealt with stays permitted,
    because its backend and certificate do not change any more (`Placed`).
  * `Refinement`, `Spec => ImplementsAdmission`: the stage of a connection in
    `Admission` is computed from the handler's place and the tracker, every action of
    `Proxy` maps to `Add`, `Admit`, `Finish`, `Remove` or a stutter. The bound of
    `AdmissionIsBounded` therefore holds of the proxy.
* `Bridge_proofs`: `TypeCorrect`, `EndOfStreamIsLast`, `CutsAreJustified`. The
  inductive invariant ties the place of each copier to the chunks moved (`Flow`),
  to the end of stream passed on and the deadline set (`Ended`), and to the reason
  it has for closing (`Justified`). The lemma `ReasonIsStable` carries the last
  one: a reason does not go away.
* `TokenManager_proofs`: `TypeCorrect`, `OutlivesRotation`, `CachesKnow`, `KeysToSign`.
  Keys are added a set at a time and removed one at a time, so the invariant looks at
  them through a window of the size of a set (`Good`): a key is followed, that many
  places on, by one of its type that was made in time. It bounds the age of the key
  that signs. `Split` and `Kept` say how far the keys in memory may differ from the
  saved ones after a save failed, and `Covers` what a cache of the served keys has.
  The theorems show that `LagAssumption` is enough: the retention must exceed the
  period of rotation, its delays, the time a key settles and the life of a token
  together, and keys that could not be saved must not be old enough to sign.
* `Login_proofs`: `TypeCorrect`, `SingleUse`, `OneSession`, `OwnSession`, `Honoured`,
  `Authorised`, `IDTokenOfSession`. A code or a state that is gone never comes back: the
  number that the next one gets is larger than all that are around. Between the two
  critical sections of HandleCallback the handler holds what it took out of the map,
  and the invariant says of that record what it said of the map. Sessions, tokens and
  ID tokens are each tied to the login that they come from.
* `Revocation_proofs`: `TypeCorrect`, `Durable`, `Current`, `NumbersGrow` (an action
  property), `NotLetInLate`. Every commit starts from the file, so that the file only
  gains revocations. For `NotLetInLate`, every answer, wherever it is on its way (stapled,
  fetched, in the cache or in the file of the cache), says good of a certificate only if
  it is too young for the revocation to matter.
* `QUIC_proofs`: `TypeCorrect`, `ConnsCounted`, `TriesAll`. The invariant names the
  connections that are in the count (`Counted`) for every order of the steps of a handler
  and of the goroutine that runs its callback, and measures how far a dialer has come
  round the list of addresses (`Dist`, `Tried`).
* `Passkeys_proofs`: `TypeCorrect`, `SoundLogin`, `Kept`. The copies of the file that the
  managers have may be old, may have what could not be saved, and may be mixed with the
  file by the decoder. What they all agree on is whom a handle was given out for and
  under which handle a key was put: the invariant asks for one such pair of functions
  that makes the file and every copy `Sound`, a property that mixing preserves
  (`ReloadedSound`). What the file has of a user survives every mix, so that a write
  loses only the key it deletes (`Later`) and a key whose deletion was saved is not
  found again. A challenge has its number for itself and is in the map of one manager,
  so that taking it out is taking it out for good.

Assumptions, besides numbers being numbers and sets of connections being finite:
`CacheFor <= SettleFor` and `LagAssumption` of `TokenManager` (60 minutes of
Cache-Control against 2 hours, and the periods of the code with bounds on failures);
lifetimes of sessions and tokens, and the number of addresses of a backend, are not 0;
`None` is none of the values that it stands beside.

Only model-checked: liveness (`StopClosesAll`, `ShutdownReturns`, `BridgeEnds`),
which with fairness and ENABLED is beyond the prover. All invariants and action
properties of the passing runs are proved.

## 5. Plan

Done: `Admission`, `Backend`, `Proxy`, `Bridge`, `TokenManager`, `OIDCServer`, `Login`,
`PKI`, `Revocation`, `Passkeys`, `QUIC`, with proofs of all their safety properties.

Next: shorter proofs where two modules prove the same kind of fact, and properties for
the hazards that have none.

### Not modelled

* Local handlers and the reverse proxy: routing, headers and pages of one request; the
  state they share is in the modules of its owners.
* Configuration checks: parsing and validation of one document, sequential.
* SSH CA: one request, one signature. Certificate revocation at start, ECH keys: one
  goroutine and calls to external services.
* Counters, metrics, logging: nothing reads them but people. Bandwidth limits: how fast
  data moves is in no property.
* WebSockets: a bridge like that of `Bridge`. Datagrams of QUIC: sent on or lost.
* Renewal of the CA's own certificate, which happens at a start in the second half of
  its life; pages and files that show certificates.
* Signatures, key generation, encodings and the verification of SAML and WebAuthn
  messages, which are taken to be right.

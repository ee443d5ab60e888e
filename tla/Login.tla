------------------------------- MODULE Login -------------------------------
(***************************************************************************)
(* Logins: the enforcement of the SSO policy on a request (backend-sso.go),*)
(* the cookies it reads and sets (cookiemanager.go), the tokens of the URL *)
(* to return to (urltoken.go), the OpenID Connect client (oidc/client.go)  *)
(* talking to the OpenID Connect server of OIDCServer, and the SAML client *)
(* (saml/saml.go) talking to an external identity provider.                *)
(*                                                                         *)
(* Browsers ask for pages of the hosts, follow redirects or not, and send  *)
(* to the callbacks what they like of what the identity providers told     *)
(* some browser: again, the state of one login with the code of another,   *)
(* or what was meant for another browser.  The callback of the OpenID      *)
(* Connect client makes calls to the server between its two critical       *)
(* sections: those are steps of their own.  The cookies of an answer take  *)
(* effect when the request ends.                                           *)
(***************************************************************************)
EXTENDS OIDCServer

CONSTANTS Browsers,
          Hosts,        \* the host names of the backends with SSO
          Provider,     \* Provider[h]: "oidc" or "saml"
          ACL,          \* ACL[h]: the users that SSO.ACL lets in
          ForceReAuth,  \* ForceReAuth[h]: 0 when not set
          GenerateIDTokens,
          Handlers,     \* requests to the OIDC callback being served
          OtherClient,  \* another client of the OpenID Connect server
          This,         \* the OpenID Connect client of this program
          StateLife,    \* how long a login may take
          SessionLife,  \* lifetime of an auth token
          MaxLogins,    \* bound: logins here, at the other client, and new configurations
          MayLogIn,     \* bound: MayLogIn[n], the users of login n at the provider
          MaxTime,      \* bound: time
          None

ASSUME LoginAssumption ==
    /\ This \in Clients /\ OtherClient \in Clients /\ This # OtherClient
    /\ Provider \in [Hosts -> {"oidc", "saml"}]
    /\ ACL \in [Hosts -> SUBSET Users]
    /\ ForceReAuth \in [Hosts -> Nat] /\ GenerateIDTokens \subseteq Hosts
    /\ MayLogIn \in [1..MaxLogins -> SUBSET Users]
    /\ StateLife \in Nat /\ SessionLife \in Nat \ {0} /\ MaxTime \in Nat /\ MaxLogins \in Nat
    /\ Users # {}

VARIABLES began,       \* every login there was: began[n] is number n, its nonce
          states,      \* p.states of the clients: nonce -> state
          jar,         \* the cookies of each browser
          assertions,  \* what the SAML provider told browsers to send back
          handler,     \* the requests in HandleCallback of the OIDC client
          sessions,    \* the auth tokens made so far, and what they were made of
          configs      \* changes of the configuration so far

loginVars == <<began, states, jar, assertions, handler, sessions, configs>>
vars == <<now, serverVars, loginVars>>

Logins == 1..MaxLogins
AuthToken == [user : Users, sid : Logins, host : Hosts, iat : Nat, provider : {"oidc", "saml"}]
IDToken == [user : Users, sid : Logins, exp : Nat]
Claim == [user : Users, sid : Logins, host : Hosts \union {None}, iat : Nat]

\* None stands for a missing cookie, claim or host.
ASSUME NoneAssumption == None \notin Nat /\ None \notin Hosts /\ None \notin Claim

Idle == [pc |-> "idle"]

TypeOK ==
    /\ now \in 0..MaxTime /\ configs \in 0..MaxLogins
    /\ ServerTypeOK
    /\ began \in Seq([browser : Browsers, host : Hosts, url : Hosts, config : 0..MaxLogins])
    /\ DOMAIN states \subseteq DOMAIN began
    /\ \A n \in DOMAIN states : states[n] \in [created : Nat, host : Hosts, seen : BOOLEAN]
    /\ jar \in [Browsers -> [nonce : Logins \union {None},
                             auth : AuthToken \union {None},
                             id : [Hosts -> IDToken \union {None}]]]
    /\ assertions \subseteq [nonce : Logins, user : Users, until : Nat]
    /\ \A h \in Handlers :
          handler[h] = Idle \/ handler[h] \in
              [pc : {"token", "userinfo", "claims"}, browser : Browsers, nonce : Logins,
               code : Auths, sid : Logins \union {None}]
    /\ sessions \subseteq [sid : Logins, browser : Browsers, user : Users, host : Hosts,
                           at : Nat, nth : Nat, provider : {"oidc", "saml"},
                           state : Logins, code : Auths \union {None}]

Init ==
    /\ now = 0 /\ configs = 0 /\ ServerInit
    /\ began = << >> /\ states = << >> /\ assertions = {}
    /\ jar = [b \in Browsers |-> [nonce |-> None, auth |-> None, id |-> [h \in Hosts |-> None]]]
    /\ handler = [h \in Handlers |-> Idle]
    /\ sessions = {}

-----------------------------------------------------------------------------
(* Cookies and tokens (cookiemanager.go, urltoken.go).                     *)

\* sessionID: the session cookie of a browser is its own and per host.
SessionID(b, h) == <<b, h>>

\* URLToken: a token for a page of host h, in the session of the browser that asked
\* for the page.
URLToken(b, h) == [session |-> SessionID(b, h), url |-> h]

\* The pages that ask for a login, deny access or show the status come with a token.
\* Tokens do not expire and asking for a page is free, so browsers have them all from
\* the start.
URLTokens == {URLToken(b, h) : b \in Browsers, h \in Hosts}

\* ValidateAuthTokenCookie, on host h.
AuthTokenOK(b, h) ==
    LET a == jar[b].auth IN
    a # None /\ now < a.iat + SessionLife /\ a.provider = Provider[h]

IDTokenUnexpired(b, h) == jar[b].id[h] # None /\ now < jar[b].id[h].exp

\* ValidateIDTokenCookie: the ID token is of the same user and session.
IDTokenOK(b, h) ==
    LET a == jar[b].auth
        i == jar[b].id[h]
    IN  IDTokenUnexpired(b, h) /\ i.user = a.user /\ i.sid = a.sid

\* SetIDTokenCookie: the claims of the auth token, but for its host and its time.
SetIDTokenCookie(b, h) ==
    LET a == jar[b].auth IN
    jar' = [jar EXCEPT ![b].id[h] =
        [user |-> a.user, sid |-> a.sid, exp |-> a.iat + SessionLife]]

\* SetAuthTokenCookie, with what remains of the browser's cookies.  The session remembers
\* the state and the code that the browser presented.
SetAuthTokenCookie(b, cookies, u, n, host, kind, state, code) ==
    /\ jar' = [jar EXCEPT ![b] = [cookies EXCEPT !.auth =
          [user |-> u, sid |-> n, host |-> host, iat |-> now, provider |-> kind]]]
    /\ sessions' = sessions \union
          {[sid |-> n, browser |-> b, user |-> u, host |-> host, at |-> now,
            provider |-> kind, nth |-> Cardinality({s \in sessions : s.sid = n}),
            state |-> state, code |-> code]}

\* SetNonce
SetNonce(cookies, n) == [cookies EXCEPT !.nonce = n]

\* ClearCookies: the ID token cookies of other hosts stay.
ClearCookies(b, h) == [jar[b] EXCEPT !.auth = None, !.id[h] = None]

-----------------------------------------------------------------------------
(* The SSO policy (backend-sso.go).                                        *)

BearerOK(b, h, bearer) == bearer /\ IDTokenUnexpired(b, h)

\* checkCookies stops the request: it sets the ID token and redirects.
MustSetIDToken(b, h, bearer) ==
    /\ ~BearerOK(b, h, bearer)
    /\ AuthTokenOK(b, h) /\ h \in GenerateIDTokens /\ ~IDTokenOK(b, h)

\* authenticateUser and checkCookies: the claims of the user, or None.  An ID
\* token in the authorization header is of no host, so that its time is not used.
Claims(b, h, bearer) ==
    LET a == jar[b].auth
        i == jar[b].id[h]
    IN  CASE BearerOK(b, h, bearer) -> [user |-> i.user, sid |-> i.sid, host |-> None, iat |-> 0]
          [] ~BearerOK(b, h, bearer) /\ AuthTokenOK(b, h) ->
                [user |-> a.user, sid |-> a.sid, host |-> a.host, iat |-> a.iat]
          [] OTHER -> None

\* A variant that forgets that the login was for another host.
MustLogInAny(c, h) ==
    c # None => ForceReAuth[h] # 0 /\ now - c.iat > ForceReAuth[h]

\* enforceSSOPolicy asks for a login.
MustLogIn(c, h) ==
    c # None => ForceReAuth[h] # 0 /\ (c.host # h \/ now - c.iat > ForceReAuth[h])

\* What becomes of a request.  The pages that ask for a login and that deny access
\* come with a URL token, and a request other than GET is refused, not asked to log
\* in; only the redirect changes a cookie that matters.
Outcome(b, h, bearer) ==
    LET c == Claims(b, h, bearer) IN
    CASE MustSetIDToken(b, h, bearer) -> "redirected"
      [] ~MustSetIDToken(b, h, bearer) /\ MustLogIn(c, h) -> "asked to log in"
      [] ~MustSetIDToken(b, h, bearer) /\ ~MustLogIn(c, h) /\ c.user \notin ACL[h] -> "denied"
      [] OTHER -> "forwarded"

\* The redirect of checkCookies.
RefreshIDToken(b, h, bearer) ==
    /\ MustSetIDToken(b, h, bearer)
    /\ SetIDTokenCookie(b, h)
    /\ UNCHANGED <<now, serverVars, began, states, assertions, handler, sessions, configs>>

-----------------------------------------------------------------------------
(* The start of a login (serveLogin, serveLogout, RequestLogin).           *)

Kind(n) == Provider[began[n].host]

\* The login began under the configuration that is in force: its state is in the map of
\* a client that serves callbacks.
Current(n) == began[n].config = configs

OtherAuths == {i \in DOMAIN auths : auths[i].client = OtherClient}
LoginsLeft == Len(began) + Cardinality(OtherAuths) + configs < MaxLogins

\* A login begins: its state is made.
NewState(b, h, url) ==
    LET n == Len(began) + 1 IN
    /\ LoginsLeft
    /\ began' = Append(began, [browser |-> b, host |-> h, url |-> url, config |-> configs])
    /\ states' = [i \in DOMAIN states \union {n} |->
          IF i = n THEN [created |-> now, host |-> url, seen |-> FALSE] ELSE states[i]]

\* RequestLogin of the OpenID Connect client.  One nonce cookie serves all logins of a
\* browser.
RequestLogin(b, cookies, h, url) ==
    /\ Provider[h] = "oidc"
    /\ NewState(b, h, url)
    /\ jar' = [jar EXCEPT ![b] = SetNonce(cookies, Len(began) + 1)]

\* RequestLogin of the SAML client
SAMLRequestLogin(b, cookies, h, url) ==
    /\ Provider[h] = "saml"
    /\ NewState(b, h, url)
    /\ jar' = [jar EXCEPT ![b] = cookies]

\* ValidateURLToken
URLTokenOK(tok, b, h) == tok \in URLTokens /\ tok.session = SessionID(b, h)

ServeLogin(b, h, tok) ==
    /\ ~MustSetIDToken(b, h, FALSE)
    /\ URLTokenOK(tok, b, h)
    /\ RequestLogin(b, jar[b], h, tok.url) \/ SAMLRequestLogin(b, jar[b], h, tok.url)
    /\ UNCHANGED <<now, serverVars, assertions, handler, sessions, configs>>

\* serveLogout, with a token to choose another account, or without.
ServeLogout(b, h) ==
    /\ ~MustSetIDToken(b, h, FALSE)
    /\ ClearCookies(b, h) # jar[b]    \* otherwise nothing changes
    /\ jar' = [jar EXCEPT ![b] = ClearCookies(b, h)]
    /\ UNCHANGED <<now, serverVars, began, states, assertions, handler, sessions, configs>>

ServeLogoutAgain(b, h, tok) ==
    /\ ~MustSetIDToken(b, h, FALSE)
    /\ URLTokenOK(tok, b, h)
    /\ \/ RequestLogin(b, ClearCookies(b, h), h, tok.url)
       \/ SAMLRequestLogin(b, ClearCookies(b, h), h, tok.url)
    /\ UNCHANGED <<now, serverVars, assertions, handler, sessions, configs>>

-----------------------------------------------------------------------------
(* The identity providers and the callbacks.                               *)

\* The browser follows the redirect to the OpenID Connect server, where it is
\* logged in as u, and is told to come back with a code.
Authorize(n, u) ==
    /\ n \in DOMAIN began /\ Kind(n) = "oidc" /\ u \in MayLogIn[n]
    /\ ServeAuthorization(This, u, n)
    /\ UNCHANGED <<now, loginVars>>

\* An external SAML provider signs one assertion in response to request n.
SAMLAssert(n, u) ==
    /\ n \in DOMAIN began /\ Kind(n) = "saml" /\ u \in MayLogIn[n] /\ \A a \in assertions : a.nonce # n
    /\ assertions' = assertions \union {[nonce |-> n, user |-> u, until |-> now + CodeLife]}
    /\ UNCHANGED <<now, serverVars, began, states, jar, handler, sessions, configs>>

\* Another client of the OpenID Connect server: it has users log in, exchanges
\* codes, its own and others, and asks for the claims, again if it likes.
OtherAuthorize ==
    /\ LoginsLeft
    /\ ServeAuthorization(OtherClient, CHOOSE u \in Users : TRUE, 0)
    /\ UNCHANGED <<now, loginVars>>
OtherStartToken(i) ==
    /\ i \in DOMAIN auths /\ OtherAuths # {}
    /\ StartToken(i, OtherClient)
    /\ UNCHANGED <<now, loginVars>>
OtherToken(r) ==
    /\ r \in reqs
    /\ FinishToken(r)
    /\ UNCHANGED <<now, loginVars>>
OtherUserInfo(i) ==
    /\ i \in DOMAIN auths /\ Exchanged(i) /\ auths[i].client = OtherClient
    /\ ServeUserInfo(i)
    /\ UNCHANGED <<now, loginVars>>

\* The states of the client of this kind that are not older than StateLife, and
\* those of the other client and of clients that were replaced.
Unexpired(kind) ==
    Restrict(states, {n \in DOMAIN states :
        Kind(n) # kind \/ ~Current(n) \/ now - states[n].created <= StateLife})

\* A variant that leaves an empty cookie.
NoNonceEmpty(b) == [jar[b] EXCEPT !.nonce = 0]

\* Nonce: the answer clears the cookie, whichever login it is of by then.
NoNonce(b) == [jar[b] EXCEPT !.nonce = None]

\* The client of this kind has a state for n.
Known(kind, n) ==
    /\ n \in DOMAIN states /\ Kind(n) = kind /\ Current(n)
    /\ now - states[n].created <= StateLife

\* A variant that does not compare the state with the cookie.
InvalidStateAny(b, n) == Known("oidc", n) => states[n].seen

\* The check in the first critical section of HandleCallback.
InvalidState(b, n) == Known("oidc", n) => states[n].seen \/ jar[b].nonce # n

\* The states after the first critical section of HandleCallback with state n.
CheckState(n) ==
    LET st == Unexpired("oidc") IN
    states' = [i \in DOMAIN st |->
        IF i = n /\ Known("oidc", n) THEN [st[i] EXCEPT !.seen = TRUE] ELSE st[i]]

\* HandleCallback with a state that is refused, whatever the code.  The cookie is cleared
\* only if it was looked at.
RefuseCallback(b, n) ==
    /\ InvalidState(b, n)
    /\ CheckState(n)
    /\ jar' = IF Known("oidc", n) /\ ~states[n].seen THEN [jar EXCEPT ![b] = NoNonce(b)] ELSE jar
    /\ UNCHANGED <<now, serverVars, began, assertions, handler, sessions, configs>>

\* HandleCallback up to the request for the token, with a state and a code that may be of
\* different logins.  The cookie is cleared by the answer, when the request ends.
StartCallback(h, b, n, code) ==
    /\ handler[h] = Idle
    /\ ~InvalidState(b, n)
    /\ CheckState(n)
    /\ handler' = [handler EXCEPT ![h] =
          [pc |-> "token", browser |-> b, nonce |-> n, code |-> code, sid |-> None]]
    /\ UNCHANGED <<now, serverVars, began, jar, assertions, sessions, configs>>

\* The request ends with an error: the nonce is cleared all the same.
EndCallback(h) ==
    /\ handler' = [handler EXCEPT ![h] = Idle]
    /\ jar' = [jar EXCEPT ![handler[h].browser] = NoNonce(handler[h].browser)]

\* The request to the token endpoint and its answer.  A provider may send no ID
\* token, and then the client asks for the user info; the server of this program
\* always sends one.
ReceiveToken(h, withID) ==
    LET i == handler[h].code IN
    /\ handler[h].pc = "token"
    /\ ServeToken(i, This)
    /\ IF TokenAnswered(Vacuum(codes), i, This)
       THEN /\ handler' = [handler EXCEPT
                  ![h].pc = IF withID THEN "claims" ELSE "userinfo",
                  ![h].sid = IF withID THEN auths[i].nonce ELSE None]
            /\ UNCHANGED jar
       ELSE EndCallback(h)
    /\ UNCHANGED <<now, began, states, assertions, sessions, configs>>

\* The user info has no nonce: the state's is used.
ReceiveUserInfo(h) ==
    /\ handler[h].pc = "userinfo"
    /\ ServeUserInfo(handler[h].code)
    /\ IF handler[h].code \in Vacuum(accessTokens)
       THEN /\ handler' = [handler EXCEPT ![h].pc = "claims", ![h].sid = handler[h].nonce]
            /\ UNCHANGED jar
       ELSE EndCallback(h)
    /\ UNCHANGED <<now, began, states, assertions, sessions, configs>>

\* A call to the server fails in a way that does not reach it.
CallFails(h) ==
    /\ handler[h].pc \in {"token", "userinfo"}
    /\ EndCallback(h)
    /\ UNCHANGED <<now, serverVars, began, states, assertions, sessions, configs>>

\* A variant that records another host, such as the one of the callback itself.
HostOfOther(st) == CHOOSE x \in Hosts : x # st.host

\* The host that goes into the auth token.
HostOf(st) == st.host

\* The second critical section of HandleCallback and what follows: the nonce of the claims
\* is looked up in the client that the callback began with, and it may be of another login
\* than the state was.  That state is gone also when the checks of the email address and
\* its domain fail.
FinishCallback(h, verified) ==
    LET b == handler[h].browser
        n == handler[h].sid
        found == n \in DOMAIN states /\ began[n].config = began[handler[h].nonce].config
        code == handler[h].code
    IN
    /\ handler[h].pc = "claims"
    /\ states' = Restrict(states, IF found THEN DOMAIN states \ {n} ELSE DOMAIN states)
    /\ IF found /\ verified
       THEN /\ SetAuthTokenCookie(b, NoNonce(b), auths[code].user, n, HostOf(states[n]), "oidc",
                                  handler[h].nonce, code)
            /\ handler' = [handler EXCEPT ![h] = Idle]
       ELSE EndCallback(h) /\ UNCHANGED sessions
    /\ UNCHANGED <<now, serverVars, began, assertions, configs>>

\* A variant that leaves the state for another use.
TakeStateKeep(n) == Unexpired("saml")

\* The states after the critical section of the SAML HandleCallback.
TakeState(n) ==
    LET st == Unexpired("saml") IN
    Restrict(st, IF Known("saml", n) THEN DOMAIN st \ {n} ELSE DOMAIN st)

\* HandleCallback of the SAML client, for an assertion with a good signature.
SAMLCallback(b, a) ==
    LET n == a.nonce IN
    /\ states' = TakeState(n)
    /\ IF Known("saml", n) /\ now <= a.until
       THEN SetAuthTokenCookie(b, jar[b], a.user, n, states[n].host, "saml", n, None)
       ELSE UNCHANGED <<jar, sessions>>
    /\ UNCHANGED <<now, serverVars, began, assertions, handler, configs>>

\* Reconfigure makes new clients and a new server, which know nothing of the logins under
\* way.  A callback that is being served goes on with the client it began with, and that
\* client's states.  A request to the old server goes on there too; since it then touches
\* nothing that anyone else reads, it is taken to end before.
Reconfigure ==
    /\ LoginsLeft /\ configs' = configs + 1
    /\ reqs = {}
    /\ states # << >> \/ codes # {}    \* otherwise nothing changes
    /\ NewServer
    /\ UNCHANGED <<now, began, states, jar, assertions, handler, sessions>>

Tick ==
    /\ now < MaxTime
    /\ now' = now + 1
    /\ UNCHANGED <<serverVars, loginVars>>

-----------------------------------------------------------------------------
Next ==
    \/ Tick \/ Reconfigure
    \/ \E b \in Browsers, h \in Hosts :
        \/ \E bearer \in BOOLEAN : RefreshIDToken(b, h, bearer)
        \/ ServeLogout(b, h)
        \/ LoginsLeft /\ \E tok \in URLTokens : ServeLogin(b, h, tok) \/ ServeLogoutAgain(b, h, tok)
    \/ \E u \in Users, n \in Logins : Authorize(n, u) \/ SAMLAssert(n, u)
    \/ OtherAuthorize
    \/ \E i \in Auths : OtherStartToken(i) \/ OtherUserInfo(i)
    \/ \E r \in reqs : OtherToken(r)
    \/ \E b \in Browsers, n \in DOMAIN began :
        \/ RefuseCallback(b, n)
        \/ \E h \in Handlers, i \in DOMAIN auths : StartCallback(h, b, n, i)
    \/ \E b \in Browsers, a \in assertions : SAMLCallback(b, a)
    \/ \E h \in Handlers :
        \/ \E withID \in BOOLEAN : ReceiveToken(h, withID)
        \/ ReceiveUserInfo(h)
        \/ CallFails(h)
        \/ \E verified \in BOOLEAN : FinishCallback(h, verified)

Spec == Init /\ [][Next]_vars

-----------------------------------------------------------------------------
(* Properties.                                                             *)

\* A login makes at most one session, whichever client it goes through, however
\* often the answer of the identity provider is sent to the callback, and also
\* when two such requests are served at the same time (HandleCallback).
OneSessionPerLogin == \A s \in sessions : s.nth = 0

\* A session of the OpenID Connect client takes a login that the browser itself began, and
\* each such login is good for one session; it is for a user whose login this program's
\* client was given, and its ID is that of the user's login, unless there was no ID token.
\* Where the browser sends back the code that its own login was given, the session is
\* that of its own login, whatever other requests change between the two critical
\* sections; the code does not compare the two, so that with another code it is not
\* (HandleCallback).  A page handed to one browser starts no login in another.
SessionHasStateAndCode ==
    \A s \in sessions : s.provider = "oidc" =>
        /\ began[s.state].browser = s.browser
        /\ \A t \in sessions : t.provider = "oidc" /\ t.state = s.state => t = s
        /\ \E g \in grants : g.kind = "code" /\ g.id = s.code /\ g.client = This
        /\ s.user = auths[s.code].user
        /\ s.sid \in {s.state, auths[s.code].nonce}
        /\ began[s.sid].url = began[s.sid].host

\* A browser sent back to its page after a login is not asked to log in again:
\* the cookie it was just given satisfies the policy of that host, for any
\* ForceReAuth (SetAuthTokenCookie against enforceSSOPolicy).
LoginIsHonoured ==
    \A b \in Browsers : LET a == jar[b].auth IN
        a # None /\ a.iat = now => Outcome(b, began[a.sid].url, FALSE) # "asked to log in"

\* A request reaches the backend only for a user that the ACL lets in, by a session
\* that was made by a login; where ForceReAuth is set, by a login for that very
\* host and no longer ago than that, whatever tokens were renewed since.
ForwardIsAuthorised ==
    \A b \in Browsers, h \in Hosts, bearer \in BOOLEAN :
        Outcome(b, h, bearer) = "forwarded" =>
            LET c == Claims(b, h, bearer) IN
            /\ c.user \in ACL[h]
            /\ \E s \in sessions :
                  /\ s.sid = c.sid /\ s.user = c.user /\ now < s.at + SessionLife
                  /\ ForceReAuth[h] # 0 => s.host = h /\ now - s.at <= ForceReAuth[h]
=============================================================================

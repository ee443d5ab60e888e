---------------------------- MODULE Login_proofs ----------------------------
(***************************************************************************)
(* Proofs about logins, for any number of browsers, hosts, users, logins   *)
(* and concurrent callbacks, and any lifetimes.                            *)
(*                                                                         *)
(* The inductive invariant has a part for the OpenID Connect server        *)
(* (ServerInv: what was granted is spent, and what is left of the codes    *)
(* that are being exchanged is in time) and one for the logins (LoginInv:  *)
(* what each cookie, answer, callback and session says of the login it     *)
(* comes from).  A login that has made a session has no state any more,    *)
(* which is why it makes no other.  A callback holds the nonce of its      *)
(* browser, which no other callback and no session holds (Once), and a     *)
(* code that may be of another login, one of this program's client         *)
(* (Issued).                                                               *)
(*                                                                         *)
(* Logins, authorizations and sessions are only ever added (Grow).  What   *)
(* the invariant says of one of them stays true when others are added, so  *)
(* that each action is left with the variables that it changes.            *)
(***************************************************************************)
EXTENDS Login, FiniteSetTheorems, TLAPS

\* A code or access token that was granted is gone, was granted once, to its client
\* and in time.
Spent ==
    /\ \A g \in grants :
          /\ g.id \in DOMAIN auths
          /\ g.nth = 0 /\ g.client = auths[g.id].client /\ ~g.late
          /\ g.kind = "code" => g.id \notin codes
          /\ g.kind = "access" => g.id \notin accessTokens

\* A token request under way can only find its code if it began within the lifetime
\* of the code.
InTime ==
    \A r \in reqs :
        /\ r.id \in DOMAIN auths
        /\ r.id \in codes => r.at - auths[r.id].created <= CodeLife

\* The invariant of the server.
ServerInv == ServerTypeOK /\ now \in Nat /\ Spent /\ InTime

\* What a step of the server leaves: its invariant, and the authorizations and the
\* grants there were.
ServerEffect ==
    /\ ServerInv' /\ grants \subseteq grants'
    /\ \A i \in DOMAIN auths : i \in DOMAIN auths' /\ auths'[i] = auths[i]

\* vacuum removes what is too old, and nothing is added.
LEMMA VacuumRemoves ==
    ASSUME NEW ids
    PROVE  /\ Vacuum(ids) \subseteq ids
           /\ \A i \in Vacuum(ids) : now - auths[i].created <= CodeLife
BY DEF Vacuum

\* What is granted while the code or the token is there is granted for the first
\* time.
LEMMA FirstGrant ==
    ASSUME ServerInv, NEW kind \in {"code", "access"}, NEW i \in DOMAIN auths, NEW at \in Nat,
           kind = "code" => i \in codes, kind = "access" => i \in accessTokens,
           at - auths[i].created <= CodeLife,
           grants' = Granted(kind, i, auths[i].client, at)
    PROVE  /\ grants' \subseteq Grant
           /\ \A g \in grants' : \/ g \in grants
                                 \/ /\ g.kind = kind /\ g.id = i /\ g.nth = 0
                                    /\ g.client = auths[i].client /\ ~g.late
<1>1. {g \in grants : g.kind = kind /\ g.id = i} = {}
  BY DEF ServerInv, Spent
<1>2. Cardinality({g \in grants : g.kind = kind /\ g.id = i}) = 0
  BY <1>1, FS_EmptySet
<1>3. auths[i] \in Auth /\ i \in Auths
  BY CodeLifeAssumption DEF ServerInv, ServerTypeOK, Auths
<1>4. (at - auths[i].created > CodeLife) = FALSE
  BY <1>3, CodeLifeAssumption DEF Auth
<1> DEFINE new == [kind |-> kind, id |-> i, client |-> auths[i].client,
                   late |-> FALSE, nth |-> 0]
<1>5. grants' = grants \union {new}
  BY <1>2, <1>4 DEF Granted
<1>6. new \in Grant
  BY <1>3 DEF Grant, Auth
<1>7. /\ new.kind = kind /\ new.id = i /\ new.nth = 0 /\ new.client = auths[i].client
      /\ ~new.late
  OBVIOUS
<1> HIDE DEF new
<1> QED
  BY <1>5, <1>6, <1>7 DEF ServerInv, ServerTypeOK

\* ServeAuthorization: the new authorization is the next one.
LEMMA AuthorizationPreserves ==
    ASSUME ServerInv, NEW c \in Clients, NEW u \in Users, NEW n \in Nat, now' = now,
           ServeAuthorization(c, u, n)
    PROVE  /\ ServerEffect
           /\ Len(auths) + 1 \in DOMAIN auths' /\ Len(auths) + 1 \in Auths
           /\ auths'[Len(auths) + 1].client = c /\ auths'[Len(auths) + 1].user = u
           /\ auths'[Len(auths) + 1].nonce = n
<1> DEFINE new == [client |-> c, user |-> u, nonce |-> n, created |-> now]
<1>1. new \in Auth
  BY DEF Auth, ServerInv
<1>2. /\ auths \in Seq(Auth) /\ Len(auths) < MaxAuths /\ auths' = Append(auths, new)
      /\ codes' = Vacuum(codes) \union {Len(auths) + 1}
      /\ accessTokens' = Vacuum(accessTokens) \union {Len(auths) + 1}
      /\ UNCHANGED <<reqs, grants>>
  BY DEF ServeAuthorization, ServerInv, ServerTypeOK
<1> HIDE DEF new
<1>3. /\ auths' \in Seq(Auth) /\ Len(auths') = Len(auths) + 1 /\ Len(auths') <= MaxAuths
      /\ auths'[Len(auths) + 1] = new
      /\ \A i \in DOMAIN auths : i \in DOMAIN auths' /\ auths'[i] = auths[i]
      /\ Len(auths) + 1 \in DOMAIN auths' /\ Len(auths) + 1 \notin DOMAIN auths
  BY <1>1, <1>2, CodeLifeAssumption
<1>4. Len(auths) + 1 \in Auths
  BY <1>2, CodeLifeAssumption DEF Auths
<1>5. Vacuum(codes) \subseteq codes /\ Vacuum(accessTokens) \subseteq accessTokens
  BY VacuumRemoves
<1>6. ServerTypeOK'
  BY <1>2, <1>3, <1>5 DEF ServerTypeOK, ServerInv
<1>7. Spent'
  BY <1>2, <1>3, <1>5 DEF ServerInv, Spent
<1>8. InTime'
  BY <1>2, <1>3, <1>5 DEF ServerInv, InTime
<1> QED
  BY <1>2, <1>3, <1>4, <1>6, <1>7, <1>8 DEF ServerInv, ServerEffect, new

\* A code is taken, by the right client or not, from the codes that are left.
LEMMA ExchangePreserves ==
    ASSUME ServerInv, now' = now, UNCHANGED auths,
           NEW i \in DOMAIN auths, NEW c \in Clients, NEW at \in Nat,
           NEW cs, cs \subseteq codes, codes' = TakeCode(cs, i),
           accessTokens' \subseteq accessTokens, reqs' \subseteq reqs,
           i \in cs => at - auths[i].created <= CodeLife,
           grants' = TokenGrants(cs, i, c, at)
    PROVE  ServerEffect
<1>1. codes' \subseteq codes /\ i \notin codes'
  BY DEF TakeCode
<1>2. /\ grants' \subseteq Grant
      /\ \A g \in grants' : \/ g \in grants
                            \/ /\ g.kind = "code" /\ g.id = i /\ g.nth = 0
                               /\ g.client = auths[i].client /\ ~g.late
  <2>1. CASE TokenAnswered(cs, i, c)
    <3>1. i \in codes /\ c = auths[i].client /\ at - auths[i].created <= CodeLife
      BY <2>1 DEF TokenAnswered
    <3>2. grants' = Granted("code", i, auths[i].client, at)
      BY <2>1, <3>1 DEF TokenGrants
    <3> QED
      BY <3>1, <3>2, FirstGrant
  <2>2. CASE ~TokenAnswered(cs, i, c)
    BY <2>2 DEF TokenGrants, ServerInv, ServerTypeOK
  <2> QED
    BY <2>1, <2>2
<1>3. ServerTypeOK'
  BY <1>1, <1>2 DEF ServerInv, ServerTypeOK
<1>4. Spent'
  BY <1>1, <1>2 DEF ServerInv, Spent
<1>5. InTime'
  BY <1>1 DEF ServerInv, InTime
<1>6. grants \subseteq grants'
  BY DEF TokenGrants, Granted
<1> QED
  BY <1>3, <1>4, <1>5, <1>6 DEF ServerInv, ServerEffect

\* ServeToken at once: whoever is given the token was granted it.
LEMMA TokenPreserves ==
    ASSUME ServerInv, now' = now, NEW i \in DOMAIN auths, NEW c \in Clients, ServeToken(i, c)
    PROVE  /\ ServerEffect
           /\ TokenAnswered(Vacuum(codes), i, c) =>
                 \E g \in grants' : g.kind = "code" /\ g.id = i /\ g.client = c
<1>1. ServerEffect
  BY VacuumRemoves, ExchangePreserves DEF ServeToken, ServerInv
<1>2. ASSUME TokenAnswered(Vacuum(codes), i, c)
      PROVE  \E g \in grants' : g.kind = "code" /\ g.id = i /\ g.client = c
  <2> DEFINE g == [kind |-> "code", id |-> i, client |-> c,
                   late |-> now - auths[i].created > CodeLife,
                   nth |-> Cardinality({k \in grants : k.kind = "code" /\ k.id = i})]
  <2>1. grants' = Granted("code", i, c, now)
    BY <1>2 DEF ServeToken, TokenGrants
  <2>2. g \in grants'
    BY <2>1 DEF Granted
  <2>3. g.kind = "code" /\ g.id = i /\ g.client = c
    OBVIOUS
  <2> QED
    BY <2>2, <2>3
<1> QED
  BY <1>1, <1>2

\* ServeToken after its form was read: others may have changed the codes since.
LEMMA FinishTokenPreserves ==
    ASSUME ServerInv, now' = now, NEW r \in reqs, FinishToken(r)
    PROVE  ServerEffect
<1>1. /\ r.id \in DOMAIN auths /\ r.client \in Clients /\ r.at \in Nat
      /\ r.id \in codes => r.at - auths[r.id].created <= CodeLife
  BY DEF ServerInv, ServerTypeOK, InTime
<1>2. /\ UNCHANGED auths /\ codes' = TakeCode(codes, r.id) /\ accessTokens' \subseteq accessTokens
      /\ reqs' \subseteq reqs /\ grants' = TokenGrants(codes, r.id, r.client, r.at)
  BY DEF FinishToken
<1> QED
  BY <1>1, <1>2, ExchangePreserves

\* ServeToken up to ParseForm.
LEMMA StartTokenPreserves ==
    ASSUME ServerInv, now' = now, NEW i \in DOMAIN auths, NEW c \in Clients, StartToken(i, c)
    PROVE  ServerEffect
<1> DEFINE new == [id |-> i, client |-> c, at |-> now]
<1>1. /\ reqs' = reqs \union {new} /\ codes' = Vacuum(codes)
      /\ accessTokens' = Vacuum(accessTokens) /\ UNCHANGED <<auths, grants>>
  BY DEF StartToken
<1>2. new \in [id : Auths, client : Clients, at : Nat]
  BY CodeLifeAssumption DEF ServerInv, ServerTypeOK, Auths
<1>3. ServerTypeOK'
  BY <1>1, <1>2, VacuumRemoves DEF ServerInv, ServerTypeOK
<1>4. Spent'
  BY <1>1, VacuumRemoves DEF ServerInv, Spent
<1>5. InTime'
  BY <1>1, VacuumRemoves DEF ServerInv, InTime
<1> QED
  BY <1>1, <1>3, <1>4, <1>5 DEF ServerInv, ServerEffect

\* ServeUserInfo.
LEMMA UserInfoPreserves ==
    ASSUME ServerInv, now' = now, NEW i \in DOMAIN auths, ServeUserInfo(i)
    PROVE  ServerEffect
<1>1. /\ codes' = Vacuum(codes) /\ accessTokens' = Vacuum(accessTokens) \ {i}
      /\ UNCHANGED <<auths, reqs>>
  BY DEF ServeUserInfo
<1>2. /\ grants' \subseteq Grant
      /\ \A g \in grants' : \/ g \in grants
                            \/ /\ g.kind = "access" /\ g.id = i /\ g.nth = 0
                               /\ g.client = auths[i].client /\ ~g.late
  <2>1. CASE i \in Vacuum(accessTokens)
    <3>1. i \in accessTokens /\ now - auths[i].created <= CodeLife
      BY <2>1, VacuumRemoves
    <3>2. grants' = Granted("access", i, auths[i].client, now)
      BY <2>1 DEF ServeUserInfo
    <3> QED
      BY <3>1, <3>2, FirstGrant DEF ServerInv
  <2>2. CASE i \notin Vacuum(accessTokens)
    BY <2>2 DEF ServeUserInfo, ServerInv, ServerTypeOK
  <2> QED
    BY <2>1, <2>2
<1>3. ServerTypeOK'
  BY <1>1, <1>2, VacuumRemoves DEF ServerInv, ServerTypeOK
<1>4. Spent'
  BY <1>1, <1>2, VacuumRemoves DEF ServerInv, Spent
<1>5. InTime'
  BY <1>1, VacuumRemoves DEF ServerInv, InTime
<1>6. grants \subseteq grants'
  BY DEF ServeUserInfo, Granted
<1> QED
  BY <1>1, <1>3, <1>4, <1>5, <1>6 DEF ServerInv, ServerEffect

\* A new server knows no codes.
LEMMA NewServerPreserves ==
    ASSUME ServerInv, now' = now, NewServer
    PROVE  ServerEffect
BY DEF NewServer, ServerInv, ServerTypeOK, Spent, InTime, ServerEffect

\* A step that leaves the server alone, but for the clock.
LEMMA UnchangedServer ==
    ASSUME ServerInv, now' \in Nat, UNCHANGED serverVars
    PROVE  ServerEffect
BY DEF serverVars, ServerInv, ServerTypeOK, Spent, InTime, ServerEffect

-----------------------------------------------------------------------------
\* The types of began.
Begin == [browser : Browsers, host : Hosts, url : Hosts, config : 0..MaxLogins]

\* A login is for a page of the host it was begun on.
Started ==
    /\ began \in Seq(Begin)
    /\ Len(began) <= MaxLogins /\ configs \in 0..MaxLogins /\ now \in 0..MaxTime
    /\ \A n \in DOMAIN began : began[n].url = began[n].host

\* The types of p.states.
State == [created : Nat, host : Hosts, seen : BOOLEAN]

\* The state of a login has the host of its page.
States ==
    /\ DOMAIN states \subseteq DOMAIN began
    /\ \A n \in DOMAIN states : states[n] \in State /\ states[n].host = began[n].url

\* The types of sessions.
Session == [sid : Logins, browser : Browsers, user : Users, host : Hosts,
            at : Nat, nth : Nat, provider : {"oidc", "saml"},
            state : Logins, code : Auths \union {None}]

\* This program's client was granted the token for code i.
Given(i) == \E g \in grants : g.kind = "code" /\ g.id = i /\ g.client = This

\* Session s is of a login; one of the OpenID Connect client is for a state of its
\* browser and a code that was granted, and has the user of that code.
Justified(s) ==
    /\ s.sid \in DOMAIN began
    /\ s.provider = "oidc" =>
          /\ s.state \in DOMAIN began /\ began[s.state].browser = s.browser
          /\ s.code \in DOMAIN auths /\ Given(s.code) /\ auths[s.code].user = s.user
          /\ s.sid \in {s.state, auths[s.code].nonce}

\* The login of a session has no state left.
Sessions ==
    /\ sessions \subseteq Session
    /\ \A s \in sessions : s.sid \notin DOMAIN states /\ s.nth = 0 /\ Justified(s)

\* The types of the cookies of a browser.
Cookies == [nonce : Logins \union {None}, auth : AuthToken \union {None},
            id : [Hosts -> IDToken \union {None}]]

\* An auth token is for the page of its login and was made for a session.
AuthOfSession(a) ==
    /\ a.sid \in DOMAIN began /\ a.host = began[a.sid].url /\ a.provider = Kind(a.sid)
    /\ \E s \in sessions : s.sid = a.sid /\ s.user = a.user /\ s.host = a.host /\ s.at = a.iat

\* An ID token was made for a session and expires with it.
IDOfSession(i) ==
    \E s \in sessions : s.sid = i.sid /\ s.user = i.user /\ i.exp = s.at + SessionLife

\* The cookies c of browser b: the nonce is of a login of its own, the tokens are
\* of sessions.
Owned(b, c) ==
    /\ c.nonce # None => c.nonce \in DOMAIN began /\ began[c.nonce].browser = b
    /\ c.auth # None => AuthOfSession(c.auth)
    /\ \A h \in Hosts : c.id[h] # None => IDOfSession(c.id[h])

\* The cookies of all browsers.
Jars == jar \in [Browsers -> Cookies] /\ \A b \in Browsers : Owned(b, jar[b])

\* The answers of the SAML provider.
Answered == assertions \subseteq [nonce : Logins, user : Users, until : Nat]

\* The types of handler, while a request is being served.
Callback == [pc : {"token", "userinfo", "claims"}, browser : Browsers, nonce : Logins,
             code : Auths, sid : Logins \union {None}]

\* The callback x is of the browser that began the login of its state; past the token
\* endpoint its code was granted, and its claims are of one of the two logins.
Serves(x) ==
    /\ x.nonce \in DOMAIN began /\ began[x.nonce].browser = x.browser
    /\ Kind(x.nonce) = "oidc"
    /\ x.code \in DOMAIN auths
    /\ x.pc # "token" => Given(x.code)
    /\ x.pc = "claims" => /\ x.sid \in {x.nonce, auths[x.code].nonce}
                          /\ x.sid \in DOMAIN began /\ Kind(x.sid) = "oidc"

\* The callbacks under way.
Serving ==
    /\ DOMAIN handler = Handlers
    /\ handler = [h \in Handlers |-> handler[h]]
    /\ \A h \in Handlers : handler[h] = Idle \/ (handler[h] \in Callback /\ Serves(handler[h]))

\* The invariant of the logins.
LoginInv == Started /\ States /\ Sessions /\ Jars /\ Answered /\ Serving

\* The codes of this program's client are for its logins.
Issued ==
    \A i \in DOMAIN auths : auths[i].client = This =>
        LET n == auths[i].nonce IN n \in DOMAIN began /\ n \in Logins /\ Kind(n) = "oidc"

\* The state of login n was seen by a callback, or is gone.
Used(n) == n \notin DOMAIN states \/ states[n].seen

\* A callback that goes on has used its state, and nobody else has: no other callback
\* and no session.
Once ==
    /\ \A h \in Handlers : handler[h] # Idle => Used(handler[h].nonce)
    /\ \A h, k \in Handlers :
          h # k /\ handler[h] # Idle /\ handler[k] # Idle => handler[h].nonce # handler[k].nonce
    /\ \A s \in sessions : s.provider = "oidc" =>
          /\ Used(s.state)
          /\ \A h \in Handlers : handler[h] # Idle => handler[h].nonce # s.state
          /\ \A t \in sessions : t.provider = "oidc" /\ t.state = s.state => t = s

\* Logins, authorizations, grants and sessions are only added.
Grow ==
    /\ \A n \in DOMAIN began : n \in DOMAIN began' /\ began'[n] = began[n]
    /\ \A i \in DOMAIN auths : i \in DOMAIN auths' /\ auths'[i] = auths[i]
    /\ sessions \subseteq sessions' /\ grants \subseteq grants'

\* A login keeps its kind.
LEMMA KindStays == ASSUME Grow, NEW n \in DOMAIN began PROVE Kind(n)' = Kind(n)
BY DEF Grow, Kind

\* Cookies stay those of their browser.
LEMMA OwnedStays ==
    ASSUME Grow, NEW b, NEW c, Owned(b, c) PROVE Owned(b, c)'
BY KindStays DEF Grow, Owned, AuthOfSession, IDOfSession

\* So do all cookies, when none is changed.
LEMMA JarsStay == ASSUME Grow, Jars, jar' = jar PROVE Jars'
BY OwnedStays DEF Jars

\* The cookies of one browser change.
LEMMA JarChanges ==
    ASSUME Grow, Jars, NEW b \in Browsers, NEW c \in Cookies, Owned(b, c)',
           jar' = [jar EXCEPT ![b] = c]
    PROVE  Jars'
<1>1. jar' \in [Browsers -> Cookies]
  BY DEF Jars
<1>2. ASSUME NEW d \in Browsers PROVE Owned(d, jar[d])'
  BY OwnedStays DEF Jars
<1> QED
  BY <1>1, <1>2 DEF Jars

\* Answers stay true.
LEMMA AnsweredStays == ASSUME Answered, assertions' = assertions PROVE Answered'
BY DEF Answered

\* A callback stays that of its login.
LEMMA ServesStays == ASSUME Grow, NEW x, Serves(x) PROVE Serves(x)'
<1>1. Given(x.code) => Given(x.code)'
  BY DEF Grow, Given
<1>2. /\ x.nonce \in DOMAIN began' /\ began'[x.nonce].browser = x.browser
      /\ Kind(x.nonce)' = "oidc"
      /\ x.code \in DOMAIN auths' /\ auths'[x.code] = auths[x.code]
  BY KindStays DEF Grow, Serves
<1>3. x.pc = "claims" => x.sid \in DOMAIN began' /\ Kind(x.sid)' = "oidc"
  BY KindStays DEF Grow, Serves
<1> QED
  BY <1>1, <1>2, <1>3 DEF Serves

\* So do all callbacks, when none moves.
LEMMA ServingStays == ASSUME Grow, Serving, handler' = handler PROVE Serving'
BY ServesStays DEF Serving

\* One callback moves on.
LEMMA HandlerMoves ==
    ASSUME Grow, Serving, NEW h \in Handlers, NEW x,
           x = Idle \/ (x \in Callback /\ Serves(x)'), handler' = [handler EXCEPT ![h] = x]
    PROVE  Serving'
<1>1. DOMAIN handler' = Handlers /\ handler' = [k \in Handlers |-> handler'[k]]
  BY DEF Serving
<1>2. ASSUME NEW k \in Handlers
      PROVE  handler'[k] = Idle \/ (handler'[k] \in Callback /\ Serves(handler[k])')
  BY ServesStays DEF Serving
<1> QED
  BY <1>1, <1>2 DEF Serving

\* Sessions stay true, and their logins get no state back: a state that is added is
\* of a login that is new.
LEMMA SessionsStay ==
    ASSUME Grow, Sessions, sessions' = sessions,
           \A n \in DOMAIN states' : n \in DOMAIN states \/ n \notin DOMAIN began
    PROVE  Sessions'
<1>1. ASSUME NEW s \in sessions PROVE Justified(s)'
  <2>1. Justified(s)
    BY DEF Sessions
  <2>2. Given(s.code) => Given(s.code)'
    BY DEF Grow, Given
  <2> QED
    BY <2>1, <2>2 DEF Grow, Justified
<1>2. ASSUME NEW s \in sessions PROVE s.sid \notin DOMAIN states'
  BY DEF Sessions, Justified
<1> QED
  BY <1>1, <1>2 DEF Sessions

\* States stay true when some are dropped or marked.
LEMMA StatesShrink ==
    ASSUME Grow, States, \A n \in DOMAIN states' : /\ n \in DOMAIN states
                                                   /\ states'[n] \in State
                                                   /\ states'[n].host = states[n].host
    PROVE  States'
BY DEF Grow, States

\* A step that changes cookies and nothing else of the logins.
LEMMA OnlyJar ==
    ASSUME LoginInv, Grow, Jars',
           UNCHANGED <<now, began, states, assertions, handler, sessions, configs>>
    PROVE  LoginInv'
<1>1. Started'
  BY DEF LoginInv, Started
<1>2. States' /\ Sessions'
  BY SessionsStay, StatesShrink DEF LoginInv, States
<1> QED
  BY <1>1, <1>2, AnsweredStays, ServingStays DEF LoginInv

\* checkCookies sets an ID token: it is of the session of the auth token.
LEMMA RefreshPreserves ==
    ASSUME LoginInv, NEW b \in Browsers, NEW h \in Hosts, NEW bearer \in BOOLEAN,
           RefreshIDToken(b, h, bearer)
    PROVE  LoginInv'
<1> DEFINE a == jar[b].auth
           i == [user |-> a.user, sid |-> a.sid, exp |-> a.iat + SessionLife]
           c == [jar[b] EXCEPT !.id[h] = i]
<1>1. jar \in [Browsers -> Cookies] /\ Owned(b, jar[b])
  BY DEF LoginInv, Jars
<1>2. a # None
  BY DEF RefreshIDToken, MustSetIDToken, AuthTokenOK
<1>3. a \in AuthToken /\ AuthOfSession(a)
  BY <1>1, <1>2 DEF Cookies, Owned
<1>4. i \in IDToken /\ i.user = a.user /\ i.sid = a.sid /\ i.exp = a.iat + SessionLife
  BY <1>3, LoginAssumption DEF AuthToken, IDToken
<1>5. IDOfSession(i)
  BY <1>3, <1>4 DEF AuthOfSession, IDOfSession
<1> HIDE DEF i
<1>6. jar' = [jar EXCEPT ![b] = c]
  BY <1>1 DEF RefreshIDToken, SetIDTokenCookie, i
<1>7. /\ c \in Cookies /\ c.nonce = jar[b].nonce /\ c.auth = jar[b].auth
      /\ \A k \in Hosts : c.id[k] = IF k = h THEN i ELSE jar[b].id[k]
  BY <1>1, <1>4 DEF Cookies
<1> HIDE DEF c
<1>8. Owned(b, c)
  BY <1>1, <1>5, <1>7 DEF Owned
<1>9. Grow /\ UNCHANGED <<now, began, states, assertions, handler, sessions, configs>>
  BY DEF RefreshIDToken, Grow, serverVars
<1>10. Jars'
  BY <1>6, <1>7, <1>8, <1>9, JarChanges, OwnedStays DEF LoginInv
<1> QED
  BY <1>9, <1>10, OnlyJar

\* What serveLogout leaves of the cookies is still of the browser.
LEMMA ClearedIsOwned ==
    ASSUME LoginInv, NEW b \in Browsers, NEW h \in Hosts
    PROVE  ClearCookies(b, h) \in Cookies /\ Owned(b, ClearCookies(b, h))
<1> DEFINE c == ClearCookies(b, h)
<1>1. jar[b] \in Cookies /\ Owned(b, jar[b])
  BY DEF LoginInv, Jars
<1>2. /\ c \in Cookies /\ c.nonce = jar[b].nonce /\ c.auth = None
      /\ \A k \in Hosts : c.id[k] = IF k = h THEN None ELSE jar[b].id[k]
  BY <1>1 DEF Cookies, ClearCookies
<1> QED
  BY <1>1, <1>2 DEF Owned

\* So is what Nonce leaves.
LEMMA NoNonceIsOwned ==
    ASSUME LoginInv, NEW b \in Browsers
    PROVE  NoNonce(b) \in Cookies /\ Owned(b, NoNonce(b))
<1> DEFINE c == NoNonce(b)
<1>1. jar[b] \in Cookies /\ Owned(b, jar[b])
  BY DEF LoginInv, Jars
<1>2. c \in Cookies /\ c.nonce = None /\ c.auth = jar[b].auth /\ c.id = jar[b].id
  BY <1>1 DEF Cookies, NoNonce
<1> QED
  BY <1>1, <1>2 DEF Owned

\* serveLogout.
LEMMA LogoutPreserves ==
    ASSUME LoginInv, NEW b \in Browsers, NEW h \in Hosts, ServeLogout(b, h)
    PROVE  LoginInv'
<1>1. Grow /\ UNCHANGED <<now, began, states, assertions, handler, sessions, configs>>
  BY DEF ServeLogout, Grow, serverVars
<1>2. jar' = [jar EXCEPT ![b] = ClearCookies(b, h)]
  BY DEF ServeLogout
<1>3. Jars'
  BY <1>1, <1>2, ClearedIsOwned, OwnedStays, JarChanges DEF LoginInv
<1> QED
  BY <1>1, <1>3, OnlyJar

\* The number of logins and of new configurations stays within its bound.
LEMMA OneMoreLogin ==
    ASSUME ServerInv, LoginInv, LoginsLeft
    PROVE  Len(began) + 1 \in Logins /\ configs + 1 \in 0..MaxLogins
<1>1. IsFiniteSet(OtherAuths)
  <2>1. IsFiniteSet(1..Len(auths))
    BY FS_Interval DEF ServerInv, ServerTypeOK
  <2>2. OtherAuths \subseteq 1..Len(auths)
    BY DEF OtherAuths, ServerInv, ServerTypeOK
  <2> QED
    BY <2>1, <2>2, FS_Subset
<1>2. Cardinality(OtherAuths) \in Nat
  BY <1>1, FS_CardinalityType
<1> QED
  BY <1>2, LoginAssumption DEF LoginsLeft, LoginInv, Started, Logins

\* serveLogin and serveLogout with a token: the URL token is of this browser and
\* this host, so that the login is for a page of this host.
LEMMA NewLoginPreserves ==
    ASSUME ServerInv, LoginInv, NEW b \in Browsers, NEW h \in Hosts, NEW tok, URLTokenOK(tok, b, h),
           NEW cookies \in Cookies, Owned(b, cookies),
           RequestLogin(b, cookies, h, tok.url) \/ SAMLRequestLogin(b, cookies, h, tok.url),
           UNCHANGED <<now, serverVars, assertions, handler, sessions, configs>>
    PROVE  LoginInv'
<1> DEFINE new == [browser |-> b, host |-> h, url |-> h, config |-> configs]
           st == [created |-> now, host |-> h, seen |-> FALSE]
<1>1. tok.url = h
  <2>1. PICK d \in Browsers, k \in Hosts : tok = URLToken(d, k)
    BY DEF URLTokenOK, URLTokens
  <2> QED
    BY <2>1 DEF URLTokenOK, URLToken, SessionID
<1>2. NewState(b, h, h)
  BY <1>1 DEF RequestLogin, SAMLRequestLogin
<1>3. PICK n \in Logins : n = Len(began) + 1
  BY <1>2, OneMoreLogin DEF NewState
<1>4. /\ began' = Append(began, new)
      /\ states' = [i \in DOMAIN states \union {n} |-> IF i = n THEN st ELSE states[i]]
  BY <1>2, <1>3 DEF NewState
<1>5. /\ new \in Begin
      /\ new.url = h /\ new.host = h /\ new.browser = b
      /\ st \in State /\ st.host = h
  BY DEF Begin, State, LoginInv, Started
<1> HIDE DEF new, st
<1>6. /\ began \in Seq(Begin)
      /\ n \in DOMAIN began' /\ n \notin DOMAIN began /\ began'[n] = new
      /\ \A i \in DOMAIN began : i \in DOMAIN began' /\ began'[i] = began[i]
      /\ \A i \in DOMAIN began' : i = n \/ i \in DOMAIN began
      /\ began' \in Seq(Begin)
      /\ Len(began') = n
  BY <1>3, <1>4, <1>5 DEF LoginInv, Started
<1>7. Grow
  BY <1>6 DEF Grow, serverVars
<1>8. Started'
  BY <1>3, <1>5, <1>6, LoginAssumption DEF LoginInv, Started, Logins
<1>9. States'
  BY <1>4, <1>5, <1>6 DEF LoginInv, States
<1>10. Sessions'
  BY <1>4, <1>6, <1>7, SessionsStay DEF LoginInv
<1>11. Jars'
  <2>1. PICK c \in {cookies, SetNonce(cookies, n)} : jar' = [jar EXCEPT ![b] = c]
    BY <1>1, <1>3 DEF RequestLogin, SAMLRequestLogin
  <2>2. Owned(b, cookies)'
    BY <1>7, OwnedStays
  <2>3. SetNonce(cookies, n) \in Cookies /\ Owned(b, SetNonce(cookies, n))'
    <3>1. PICK d \in Cookies : /\ d = SetNonce(cookies, n)
                               /\ d.nonce = n /\ d.auth = cookies.auth /\ d.id = cookies.id
      <4> DEFINE e == SetNonce(cookies, n)
      <4>1. e \in Cookies /\ e.nonce = n /\ e.auth = cookies.auth /\ e.id = cookies.id
        BY DEF SetNonce, Cookies
      <4> QED
        BY <4>1, Zenon
    <3>2. Owned(b, d)'
      BY <1>5, <1>6, <2>2, <3>1 DEF Owned
    <3> QED
      BY <3>1, <3>2
  <2> QED
    BY <1>7, <2>1, <2>2, <2>3, JarChanges DEF LoginInv
<1> QED
  BY <1>7, <1>8, <1>9, <1>10, <1>11, AnsweredStays, ServingStays DEF LoginInv

\* A step of the server that the logins do not see.
LEMMA SameLogin ==
    ASSUME LoginInv, UNCHANGED <<now, loginVars>>, ServerEffect
    PROVE  LoginInv'
<1>1. Grow
  BY DEF ServerEffect, Grow, loginVars
<1>2. Jars'
  BY <1>1, JarsStay DEF LoginInv, loginVars
<1> QED
  BY <1>1, <1>2, OnlyJar DEF loginVars

\* Time passes.
LEMMA TickPreserves ==
    ASSUME ServerInv, LoginInv, Tick
    PROVE  ServerInv' /\ LoginInv'
<1>1. now' \in 0..MaxTime /\ now' \in Nat /\ UNCHANGED <<serverVars, loginVars>>
  BY LoginAssumption DEF Tick, LoginInv, Started
<1>2. ServerEffect
  BY <1>1, UnchangedServer
<1>3. Grow
  BY <1>1 DEF Grow, serverVars, loginVars
<1>4. Started'
  BY <1>1 DEF LoginInv, Started, loginVars
<1>5. States' /\ Sessions'
  BY <1>1, <1>3, SessionsStay, StatesShrink DEF LoginInv, States, loginVars
<1> QED
  BY <1>1, <1>2, <1>3, <1>4, <1>5, JarsStay, AnsweredStays, ServingStays
  DEF LoginInv, loginVars, ServerEffect

\* A step of the SAML provider, which adds an assertion and changes nothing else of the logins.
LEMMA OnlyAnswers ==
    ASSUME LoginInv, Grow, Answered',
           UNCHANGED <<now, began, states, jar, handler, sessions, configs>>
    PROVE  LoginInv'
<1>1. Started'
  BY DEF LoginInv, Started
<1>2. States' /\ Sessions'
  BY SessionsStay, StatesShrink DEF LoginInv, States
<1> QED
  BY <1>1, <1>2, JarsStay, ServingStays DEF LoginInv

\* The OpenID Connect server answers a login.
LEMMA AuthorizePreserves ==
    ASSUME ServerInv, LoginInv, NEW n \in Logins, NEW u \in Users, Authorize(n, u)
    PROVE  ServerInv' /\ LoginInv'
<1>1. This \in Clients /\ n \in Nat
  BY LoginAssumption DEF Logins
<1>2. ServerEffect
  BY <1>1, AuthorizationPreserves DEF Authorize
<1> QED
  BY <1>2, SameLogin DEF Authorize, ServerEffect

\* The SAML provider answers a login.
LEMMA AssertPreserves ==
    ASSUME ServerInv, LoginInv, NEW n \in Logins, NEW u \in Users, SAMLAssert(n, u)
    PROVE  ServerInv' /\ LoginInv'
<1>1. /\ assertions' = assertions \union {[nonce |-> n, user |-> u, until |-> now + CodeLife]}
      /\ UNCHANGED <<now, serverVars, began, states, jar, handler, sessions, configs>>
  BY DEF SAMLAssert
<1>2. ServerEffect /\ Grow
  BY <1>1, UnchangedServer DEF ServerInv, ServerEffect, Grow, serverVars
<1>3. now + CodeLife \in Nat
  BY CodeLifeAssumption DEF ServerInv
<1>4. Answered'
  BY <1>1, <1>3 DEF LoginInv, Answered
<1> QED
  BY <1>1, <1>2, <1>4, OnlyAnswers DEF ServerEffect

\* Whatever another client of the server does.
LEMMA OthersPreserve ==
    ASSUME ServerInv, LoginInv,
           \/ OtherAuthorize
           \/ \E i \in Auths : OtherStartToken(i) \/ OtherUserInfo(i)
           \/ \E r \in reqs : OtherToken(r)
    PROVE  ServerInv' /\ LoginInv'
<1>1. UNCHANGED <<now, loginVars>>
  BY DEF OtherAuthorize, OtherStartToken, OtherUserInfo, OtherToken
<1>2. OtherClient \in Clients /\ (CHOOSE u \in Users : TRUE) \in Users /\ 0 \in Nat
  BY LoginAssumption
<1>3. CASE OtherAuthorize
  BY <1>1, <1>2, <1>3, AuthorizationPreserves, SameLogin DEF OtherAuthorize, ServerEffect
<1>4. ASSUME NEW i \in Auths, OtherStartToken(i) PROVE ServerInv' /\ LoginInv'
  BY <1>1, <1>2, <1>4, StartTokenPreserves, SameLogin DEF OtherStartToken, ServerEffect
<1>5. ASSUME NEW i \in Auths, OtherUserInfo(i) PROVE ServerInv' /\ LoginInv'
  BY <1>1, <1>5, UserInfoPreserves, SameLogin DEF OtherUserInfo, ServerEffect
<1>6. ASSUME NEW r \in reqs, OtherToken(r) PROVE ServerInv' /\ LoginInv'
  BY <1>1, <1>6, FinishTokenPreserves, SameLogin DEF OtherToken, ServerEffect
<1> QED
  BY <1>3, <1>4, <1>5, <1>6

\* A new configuration: the codes are gone.
LEMMA ReconfigurePreserves ==
    ASSUME ServerInv, LoginInv, Reconfigure
    PROVE  ServerInv' /\ LoginInv'
<1>1. /\ LoginsLeft /\ configs' = configs + 1 /\ NewServer
      /\ UNCHANGED <<now, began, states, jar, assertions, handler, sessions>>
  BY DEF Reconfigure
<1>2. ServerEffect /\ Grow
  BY <1>1, NewServerPreserves DEF ServerEffect, Grow
<1>3. Started'
  BY <1>1, OneMoreLogin DEF LoginInv, Started
<1>4. States' /\ Sessions'
  BY <1>1, <1>2, StatesShrink, SessionsStay DEF LoginInv, States
<1> QED
  BY <1>1, <1>2, <1>3, <1>4, JarsStay, AnsweredStays, ServingStays DEF LoginInv, ServerEffect

\* What is left after dropping expired states are states.
LEMMA UnexpiredStates ==
    ASSUME NEW kind
    PROVE  /\ DOMAIN Unexpired(kind) \subseteq DOMAIN states
           /\ \A n \in DOMAIN Unexpired(kind) : Unexpired(kind)[n] = states[n]
BY DEF Unexpired, Restrict

\* The first critical section of HandleCallback: it marks a state, and removes others.
LEMMA StateIsChecked ==
    ASSUME LoginInv, NEW m, CheckState(m), Grow, UNCHANGED <<began, sessions>>
    PROVE  States' /\ Sessions'
<1> DEFINE st == Unexpired("oidc")
<1>1. states' = [n \in DOMAIN st |->
          IF n = m /\ Known("oidc", m) THEN [st[n] EXCEPT !.seen = TRUE] ELSE st[n]]
  BY DEF CheckState
<1>2. ASSUME NEW n \in DOMAIN states'
      PROVE  n \in DOMAIN states /\ states'[n] \in State /\ states'[n].host = states[n].host
  <2>1. n \in DOMAIN states
    BY <1>1, <1>2, UnexpiredStates
  <2>2. states'[n] = states[n] \/ states'[n] = [states[n] EXCEPT !.seen = TRUE]
    BY <1>1, <1>2, UnexpiredStates
  <2>3. states[n] \in State
    BY <2>1 DEF LoginInv, States
  <2> QED
    BY <2>1, <2>2, <2>3 DEF State
<1> QED
  BY <1>2, StatesShrink, SessionsStay DEF LoginInv

\* A callback that is refused changes a state and a cookie at most.
LEMMA RefuseCallbackPreserves ==
    ASSUME ServerInv, LoginInv, NEW b \in Browsers, NEW m \in DOMAIN began, RefuseCallback(b, m)
    PROVE  ServerInv' /\ LoginInv'
<1>1. /\ CheckState(m) /\ handler' = handler
      /\ UNCHANGED <<now, serverVars, began, assertions, sessions, configs>>
      /\ jar' = jar \/ jar' = [jar EXCEPT ![b] = NoNonce(b)]
  BY DEF RefuseCallback
<1>2. ServerEffect /\ Grow
  BY <1>1, UnchangedServer DEF ServerInv, ServerEffect, Grow, serverVars
<1>3. Started'
  BY <1>1 DEF LoginInv, Started
<1>4. States' /\ Sessions'
  BY <1>1, <1>2, StateIsChecked
<1>5. Answered'
  BY <1>1, <1>2, AnsweredStays DEF LoginInv
<1>6. Jars'
  BY <1>1, <1>2, JarsStay, NoNonceIsOwned, OwnedStays, JarChanges DEF LoginInv
<1> QED
  BY <1>1, <1>2, <1>3, <1>4, <1>5, <1>6, ServingStays DEF LoginInv, ServerEffect

\* A callback goes on only with the nonce in the cookie of the browser.
LEMMA StartCallbackPreserves ==
    ASSUME ServerInv, LoginInv, NEW h \in Handlers, NEW b \in Browsers, NEW m \in DOMAIN began,
           NEW i \in DOMAIN auths, StartCallback(h, b, m, i)
    PROVE  ServerInv' /\ LoginInv'
<1> DEFINE x == [pc |-> "token", browser |-> b, nonce |-> m, code |-> i, sid |-> None]
<1>1. /\ CheckState(m) /\ ~InvalidState(b, m)
      /\ jar' = jar /\ handler' = [handler EXCEPT ![h] = x]
      /\ UNCHANGED <<now, serverVars, began, assertions, sessions, configs>>
  BY DEF StartCallback
<1>2. ServerEffect /\ Grow
  BY <1>1, UnchangedServer DEF ServerInv, ServerEffect, Grow, serverVars
<1>3. Started'
  BY <1>1 DEF LoginInv, Started
<1>4. States' /\ Sessions'
  BY <1>1, <1>2, StateIsChecked
<1>5. Answered'
  BY <1>1, <1>2, AnsweredStays DEF LoginInv
<1>6. m \in Logins /\ i \in Auths
  BY CodeLifeAssumption, LoginAssumption
  DEF LoginInv, Started, Logins, ServerInv, ServerTypeOK, Auths
<1>7. jar[b].nonce = m /\ m # None /\ Kind(m) = "oidc"
  BY <1>1, <1>6, NoneAssumption DEF InvalidState, Known, Logins
<1>8. began[m].browser = b
  BY <1>7 DEF LoginInv, Jars, Owned
<1>9. x \in Callback
  BY <1>6 DEF Callback
<1>10. Serves(x)
  BY <1>7, <1>8 DEF Serves
<1>11. Serving'
  BY <1>1, <1>2, <1>9, <1>10, ServesStays, HandlerMoves DEF LoginInv
<1>12. Jars'
  BY <1>1, <1>2, JarsStay DEF LoginInv
<1> QED
  BY <1>2, <1>3, <1>4, <1>5, <1>11, <1>12 DEF LoginInv, ServerEffect

\* A callback under way has the facts of its login.
LEMMA CallbackIsServed ==
    ASSUME LoginInv, NEW h \in Handlers, handler[h].pc # "idle"
    PROVE  handler[h] \in Callback /\ Serves(handler[h])
BY DEF LoginInv, Serving, Idle

\* A callback that ends with an error clears the nonce.
LEMMA EndPreserves ==
    ASSUME LoginInv, Grow, NEW h \in Handlers, handler[h].pc # "idle", EndCallback(h)
    PROVE  Jars' /\ Serving'
<1>1. handler[h].browser \in Browsers
  BY CallbackIsServed DEF Callback
<1>2. Serving'
  BY HandlerMoves DEF EndCallback, LoginInv
<1>3. Jars'
  BY <1>1, NoNonceIsOwned, OwnedStays, JarChanges DEF EndCallback, LoginInv
<1> QED
  BY <1>2, <1>3

\* A step between the two critical sections: no state, answer or session changes.
LEMMA OnlyCallback ==
    ASSUME LoginInv, Grow, Jars', Serving',
           UNCHANGED <<now, began, states, assertions, sessions, configs>>
    PROVE  LoginInv'
<1>1. Started'
  BY DEF LoginInv, Started
<1>2. States' /\ Sessions'
  BY SessionsStay, StatesShrink DEF LoginInv, States
<1> QED
  BY <1>1, <1>2, AnsweredStays DEF LoginInv

\* The calls to the server between the two critical sections, answered or failed.
LEMMA CallsPreserve ==
    ASSUME ServerInv, LoginInv, Issued, NEW h \in Handlers,
           \/ \E withID \in BOOLEAN : ReceiveToken(h, withID)
           \/ ReceiveUserInfo(h)
           \/ CallFails(h)
    PROVE  ServerInv' /\ LoginInv'
<1>1. /\ handler[h].pc # "idle"
      /\ UNCHANGED <<now, began, states, assertions, sessions, configs>>
  BY DEF ReceiveToken, ReceiveUserInfo, CallFails
<1>2. handler[h] \in Callback /\ Serves(handler[h])
  BY <1>1, CallbackIsServed
<1>3. This \in Clients /\ handler[h].code \in DOMAIN auths
  BY <1>2, LoginAssumption DEF Serves
<1>11. PICK i \in DOMAIN auths : i = handler[h].code
  BY <1>3
<1>4. ServerEffect
  BY <1>1, <1>3, TokenPreserves, UserInfoPreserves, UnchangedServer
  DEF ReceiveToken, ReceiveUserInfo, CallFails, ServerInv
<1>5. Grow
  BY <1>1, <1>4 DEF ServerEffect, Grow
<1>6. CASE EndCallback(h)
  BY <1>1, <1>4, <1>5, <1>6, EndPreserves, OnlyCallback DEF ServerEffect
<1>7. ASSUME NEW pc \in {"claims", "userinfo"}, NEW sid \in Logins \union {None}, jar' = jar,
             Given(i)',
             pc = "claims" => /\ sid \in {handler[h].nonce, auths[i].nonce}
                              /\ sid \in DOMAIN began /\ Kind(sid) = "oidc",
             handler' = [handler EXCEPT ![h].pc = pc, ![h].sid = sid]
      PROVE  ServerInv' /\ LoginInv'
  <2>0. PICK x : x = [handler[h] EXCEPT !.pc = pc, !.sid = sid]
    OBVIOUS
  <2>1. /\ x \in Callback /\ x.pc = pc /\ x.sid = sid /\ x.browser = handler[h].browser
        /\ x.nonce = handler[h].nonce /\ x.code = handler[h].code
    BY <1>2, <2>0 DEF Callback
  <2>2. handler' = [handler EXCEPT ![h] = x]
    BY <1>7, <2>0 DEF LoginInv, Serving
  <2>3. Serves(x)'
    <3>1. Serves(handler[h]) /\ Serves([handler[h] EXCEPT !.pc = "token"])
      BY <1>2 DEF Serves, Callback
    <3>2. PICK y : y = [handler[h] EXCEPT !.pc = "token"] /\ Serves(y)
      BY <3>1
    <3>3. Serves(y)'
      BY <1>5, <3>2, ServesStays
    <3>4. y.nonce = x.nonce /\ y.browser = x.browser /\ y.code = x.code
      BY <1>2, <2>1, <3>2 DEF Callback
    <3>5. auths'[i] = auths[i] /\ x.code = i
      BY <1>5, <1>11, <2>1 DEF Grow
    <3>6. CASE pc = "userinfo"
      BY <1>7, <2>1, <3>3, <3>4, <3>5, <3>6 DEF Serves
    <3>7. CASE pc = "claims"
      <4>1. sid \in {x.nonce, auths'[i].nonce} /\ sid \in DOMAIN began /\ Kind(sid) = "oidc"
        BY <1>7, <2>1, <3>5, <3>7
      <4>2. sid \in DOMAIN began' /\ Kind(sid)' = "oidc"
        BY <1>5, <4>1, KindStays DEF Grow
      <4> QED
        BY <1>7, <2>1, <3>3, <3>4, <3>5, <4>1, <4>2 DEF Serves
    <3> QED
      BY <3>6, <3>7
  <2>4. Serving'
    BY <1>5, <2>1, <2>2, <2>3, HandlerMoves DEF LoginInv
  <2>5. Jars'
    BY <1>5, <1>7, JarsStay DEF LoginInv
  <2> QED
    BY <1>1, <1>4, <1>5, <2>4, <2>5, OnlyCallback DEF ServerEffect
<1>8. ASSUME NEW withID \in BOOLEAN, ReceiveToken(h, withID) PROVE ServerInv' /\ LoginInv'
  <2>1. handler[h].nonce \in Logins
    BY <1>2 DEF Callback
  <2>2. CASE TokenAnswered(Vacuum(codes), handler[h].code, This)
    <3>4. Given(i)'
      BY <1>1, <1>3, <1>8, <1>11, <2>2, TokenPreserves DEF ReceiveToken, Given
    <3>5. LET n == auths[handler[h].code].nonce IN n \in DOMAIN began /\ n \in Logins /\ Kind(n) = "oidc"
      BY <1>3, <2>2 DEF TokenAnswered, Issued
    <3>1. /\ handler' = [handler EXCEPT
                  ![h].pc = IF withID THEN "claims" ELSE "userinfo",
                  ![h].sid = IF withID THEN auths[handler[h].code].nonce ELSE None]
          /\ UNCHANGED jar
      BY <1>8, <2>2 DEF ReceiveToken
    <3>2. CASE withID
      BY <1>7, <1>11, <3>1, <3>2, <3>4, <3>5
    <3>3. CASE ~withID
      BY <1>7, <3>1, <3>3, <3>4
    <3> QED
      BY <3>2, <3>3
  <2>3. CASE ~TokenAnswered(Vacuum(codes), handler[h].code, This)
    BY <1>6, <1>8, <2>3 DEF ReceiveToken
  <2> QED
    BY <2>2, <2>3
<1>9. CASE ReceiveUserInfo(h)
  <2>1. handler[h].nonce \in Logins /\ handler[h].nonce \in DOMAIN began /\ Kind(handler[h].nonce) = "oidc"
    BY <1>2 DEF Callback, Serves
  <2>2. CASE handler[h].code \in Vacuum(accessTokens)
    <3>1. Given(i)
      BY <1>2, <1>9, <1>11 DEF Serves, ReceiveUserInfo
    <3>2. Given(i)'
      BY <1>5, <3>1 DEF Given, Grow
    <3> QED
      BY <1>7, <1>9, <2>1, <2>2, <3>2 DEF ReceiveUserInfo
  <2>3. CASE handler[h].code \notin Vacuum(accessTokens)
    BY <1>6, <1>9, <2>3 DEF ReceiveUserInfo
  <2> QED
    BY <2>2, <2>3
<1>10. CASE CallFails(h)
  BY <1>6, <1>10 DEF CallFails
<1> QED
  BY <1>8, <1>9, <1>10

\* SetAuthTokenCookie for a login that still has its state, which the same step
\* removes: the session is the first of that login.
LEMMA NewSessionPreserves ==
    ASSUME ServerInv, LoginInv, NEW b \in Browsers, NEW cookies \in Cookies, Owned(b, cookies),
           NEW u \in Users, NEW n \in DOMAIN states, NEW kind, kind = Kind(n),
           NEW m \in Logins, NEW i \in Auths \union {None},
           kind = "oidc" => /\ m \in DOMAIN began /\ b = began[m].browser
                            /\ i \in DOMAIN auths /\ Given(i) /\ auths[i].user = u
                            /\ n \in {m, auths[i].nonce},
           SetAuthTokenCookie(b, cookies, u, n, states[n].host, kind, m, i),
           DOMAIN states' \subseteq DOMAIN states \ {n},
           \A k \in DOMAIN states' : states'[k] = states[k],
           UNCHANGED <<now, serverVars, began, assertions, configs>>
    PROVE  Grow /\ Started' /\ States' /\ Sessions' /\ Jars' /\ Answered'
<1> DEFINE host == states[n].host
           nth == Cardinality({s \in sessions : s.sid = n})
<1>1. nth = 0
  <2>1. {s \in sessions : s.sid = n} = {}
    BY DEF LoginInv, Sessions
  <2> QED
    BY <2>1, FS_EmptySet
<1>2. /\ n \in DOMAIN began /\ n \in Logins /\ host \in Hosts /\ host = began[n].url
      /\ now \in Nat /\ kind \in {"oidc", "saml"}
  BY LoginAssumption DEF LoginInv, States, State, Started, Logins, Kind
<1>3. PICK s \in Session :
        /\ s = [sid |-> n, browser |-> b, user |-> u, host |-> host, at |-> now,
                provider |-> kind, nth |-> 0, state |-> m, code |-> i]
        /\ s.sid = n /\ s.browser = b /\ s.user = u /\ s.host = host /\ s.at = now
        /\ s.provider = kind /\ s.nth = 0 /\ s.state = m /\ s.code = i
  <2> DEFINE e == [sid |-> n, browser |-> b, user |-> u, host |-> host, at |-> now,
                   provider |-> kind, nth |-> 0, state |-> m, code |-> i]
  <2>1. e \in Session /\ e.sid = n /\ e.browser = b /\ e.user = u /\ e.host = host /\ e.at = now
        /\ e.provider = kind /\ e.nth = 0 /\ e.state = m /\ e.code = i
    BY <1>2 DEF Session
  <2> QED
    BY <2>1, Zenon
<1>4. sessions' = sessions \union {s}
  BY <1>1, <1>3 DEF SetAuthTokenCookie
<1>5. Grow
  BY <1>4 DEF Grow, serverVars
<1>6. Started' /\ Answered'
  BY <1>5, AnsweredStays DEF LoginInv, Started
<1>7. States'
  BY DEF LoginInv, States
<1>8. Sessions'
  <2>1. Justified(s)'
    BY <1>2, <1>3 DEF Justified, Given, serverVars
  <2>2. ASSUME NEW t \in sessions PROVE Justified(t)' /\ t.sid \notin DOMAIN states' /\ t.nth = 0
    BY DEF LoginInv, Sessions, Justified, Given, serverVars
  <2> QED
    BY <1>3, <1>4, <2>1, <2>2 DEF LoginInv, Sessions
<1>9. PICK a \in AuthToken :
        /\ a = [user |-> u, sid |-> n, host |-> host, iat |-> now, provider |-> kind]
        /\ a.user = u /\ a.sid = n /\ a.host = host /\ a.iat = now /\ a.provider = kind
  <2> DEFINE e == [user |-> u, sid |-> n, host |-> host, iat |-> now, provider |-> kind]
  <2>1. e \in AuthToken /\ e.user = u /\ e.sid = n /\ e.host = host /\ e.iat = now
        /\ e.provider = kind
    BY <1>2 DEF AuthToken
  <2> QED
    BY <2>1, Zenon
<1>10. PICK c \in Cookies : /\ c = [cookies EXCEPT !.auth = a]
                            /\ c.nonce = cookies.nonce /\ c.auth = a /\ c.id = cookies.id
  <2> DEFINE e == [cookies EXCEPT !.auth = a]
  <2>1. e \in Cookies /\ e.nonce = cookies.nonce /\ e.auth = a /\ e.id = cookies.id
    BY DEF Cookies
  <2> QED
    BY <2>1, Zenon
<1>11. jar' = [jar EXCEPT ![b] = c]
  BY <1>9, <1>10 DEF SetAuthTokenCookie
<1>12. AuthOfSession(a)'
  BY <1>2, <1>3, <1>4, <1>5, <1>9, KindStays DEF AuthOfSession
<1>13. Owned(b, c)'
  <2>1. Owned(b, cookies)'
    BY <1>5, OwnedStays
  <2> QED
    BY <1>10, <1>12, <2>1 DEF Owned
<1>14. Jars'
  BY <1>5, <1>11, <1>13, JarChanges DEF LoginInv
<1> QED
  BY <1>5, <1>6, <1>7, <1>8, <1>14

\* The second critical section of HandleCallback.
LEMMA FinishPreserves ==
    ASSUME ServerInv, LoginInv, NEW h \in Handlers, NEW verified \in BOOLEAN,
           FinishCallback(h, verified)
    PROVE  ServerInv' /\ LoginInv'
<1>1. PICK x : x = handler[h] /\ x.pc = "claims"
  BY DEF FinishCallback
<1>2. x \in Callback /\ Serves(x)
  BY <1>1, CallbackIsServed
<1>3. PICK b \in Browsers, n \in DOMAIN began, m \in Logins, i \in DOMAIN auths :
          b = x.browser /\ n = x.sid /\ m = x.nonce /\ i = x.code
  BY <1>1, <1>2 DEF Callback, Serves
<1>4. /\ m \in DOMAIN began /\ began[m].browser = b /\ Kind(n) = "oidc" /\ i \in Auths
      /\ Given(i) /\ n \in {m, auths[i].nonce} /\ auths[i].user \in Users
  <2>1. auths[i] \in Auth
    BY DEF ServerInv, ServerTypeOK
  <2> QED
    BY <1>1, <1>2, <1>3, <2>1 DEF Callback, Serves, Auth
<1> DEFINE found == n \in DOMAIN states /\ began[n].config = began[m].config
<1>5. /\ states' = Restrict(states, IF found THEN DOMAIN states \ {n} ELSE DOMAIN states)
      /\ UNCHANGED <<now, serverVars, began, assertions, configs>>
      /\ found /\ verified =>
            /\ SetAuthTokenCookie(b, NoNonce(b), auths[i].user, n, states[n].host, "oidc", m, i)
            /\ handler' = [handler EXCEPT ![h] = Idle]
      /\ ~(found /\ verified) => EndCallback(h) /\ UNCHANGED sessions
  BY <1>1, <1>3 DEF FinishCallback, HostOf
<1>6. ServerEffect
  BY <1>5, UnchangedServer DEF ServerInv
<1>7. /\ DOMAIN states' \subseteq DOMAIN states
      /\ found => DOMAIN states' \subseteq DOMAIN states \ {n}
      /\ \A k \in DOMAIN states' : states'[k] = states[k]
  BY <1>5 DEF Restrict
<1>8. CASE found /\ verified
  <2>1. PICK c \in Cookies : c = NoNonce(b) /\ Owned(b, c)
    BY NoNonceIsOwned
  <2>2. PICK u \in Users : u = auths[i].user
    BY <1>4
  <2>3. SetAuthTokenCookie(b, c, u, n, states[n].host, "oidc", m, i)
    BY <1>5, <1>8, <2>1, <2>2
  <2>4. n \in DOMAIN states /\ "oidc" = Kind(n) /\ DOMAIN states' \subseteq DOMAIN states \ {n}
    BY <1>4, <1>7, <1>8
  <2>5. Grow /\ Started' /\ States' /\ Sessions' /\ Jars' /\ Answered'
    BY <1>4, <1>5, <1>7, <2>1, <2>2, <2>3, <2>4, NewSessionPreserves
  <2>6. Serving'
    BY <1>5, <1>8, <2>5, HandlerMoves DEF LoginInv
  <2> QED
    BY <1>6, <2>5, <2>6 DEF LoginInv, ServerEffect
<1>9. CASE ~(found /\ verified)
  <2>1. EndCallback(h) /\ UNCHANGED sessions
    BY <1>5, <1>9
  <2>2. Grow
    BY <1>5, <2>1 DEF Grow, serverVars
  <2>3. Jars' /\ Serving'
    BY <1>1, <2>1, <2>2, EndPreserves
  <2>4. Started'
    BY <1>5 DEF LoginInv, Started
  <2>5. States' /\ Sessions'
    BY <1>7, <2>1, <2>2, SessionsStay, StatesShrink DEF LoginInv, States
  <2> QED
    BY <1>5, <1>6, <2>2, <2>3, <2>4, <2>5, AnsweredStays DEF LoginInv, ServerEffect
<1> QED
  BY <1>8, <1>9

\* HandleCallback of the SAML client.
LEMMA SAMLCallbackPreserves ==
    ASSUME ServerInv, LoginInv, NEW b \in Browsers, NEW a \in assertions, SAMLCallback(b, a)
    PROVE  ServerInv' /\ LoginInv'
<1> DEFINE st == Unexpired("saml")
<1>1. PICK n \in Logins, u \in Users : n = a.nonce /\ u = a.user
  BY DEF LoginInv, Answered
<1>2. /\ states' = Restrict(st, IF Known("saml", n) THEN DOMAIN st \ {n} ELSE DOMAIN st)
      /\ UNCHANGED <<now, serverVars, began, assertions, handler, configs>>
  BY <1>1 DEF SAMLCallback, TakeState
<1>3. ServerEffect
  BY <1>2, UnchangedServer DEF ServerInv
<1>4. /\ DOMAIN states' \subseteq DOMAIN states
      /\ Known("saml", n) => DOMAIN states' \subseteq DOMAIN states \ {n}
      /\ \A m \in DOMAIN states' : states'[m] = states[m]
  BY <1>2, UnexpiredStates DEF Restrict
<1>5. CASE Known("saml", n) /\ now <= a.until
  <2>1. SetAuthTokenCookie(b, jar[b], u, n, states[n].host, "saml", n, None)
    BY <1>1, <1>5 DEF SAMLCallback
  <2>2. PICK c \in Cookies : c = jar[b] /\ Owned(b, c)
    BY DEF LoginInv, Jars
  <2>3. SetAuthTokenCookie(b, c, u, n, states[n].host, "saml", n, None)
    BY <2>1, <2>2
  <2>4. n \in DOMAIN states /\ "saml" = Kind(n) /\ DOMAIN states' \subseteq DOMAIN states \ {n}
    BY <1>4, <1>5, UnexpiredStates DEF Known
  <2> HIDE DEF st
  <2>5. Grow /\ Started' /\ States' /\ Sessions' /\ Jars' /\ Answered'
    BY <1>2, <1>4, <2>2, <2>3, <2>4, NewSessionPreserves
  <2> QED
    BY <1>2, <1>3, <2>5, ServingStays DEF LoginInv, ServerEffect
<1>6. CASE ~(Known("saml", n) /\ now <= a.until)
  <2>1. UNCHANGED <<jar, sessions>>
    BY <1>1, <1>6 DEF SAMLCallback
  <2>2. Grow
    BY <1>2, <2>1 DEF Grow, serverVars
  <2>3. Started'
    BY <1>2 DEF LoginInv, Started
  <2>4. States' /\ Sessions'
    BY <1>4, <2>1, <2>2, SessionsStay, StatesShrink DEF LoginInv, States
  <2> QED
    BY <1>2, <1>3, <2>1, <2>2, <2>3, <2>4, AnsweredStays, JarsStay, ServingStays
    DEF LoginInv, ServerEffect
<1> QED
  BY <1>5, <1>6

-----------------------------------------------------------------------------
\* The codes of this program's client stay those of its logins, when none is made.
LEMMA IssuedStays ==
    ASSUME Issued, auths' = auths,
           \A n \in DOMAIN began : n \in DOMAIN began' /\ began'[n] = began[n]
    PROVE  Issued'
BY DEF Issued, Kind

\* A code is made for a login, or for another client.
LEMMA AuthorizationIssues ==
    ASSUME ServerInv, LoginInv, Issued, NEW c, NEW u, NEW n, ServeAuthorization(c, u, n),
           c = This => n \in DOMAIN began /\ n \in Logins /\ Kind(n) = "oidc",
           UNCHANGED <<now, loginVars>>
    PROVE  Issued'
<1> DEFINE new == [client |-> c, user |-> u, nonce |-> n, created |-> now]
<1>1. auths' = Append(auths, new) /\ auths \in Seq(Auth) /\ began' = began
  BY DEF ServeAuthorization, ServerInv, ServerTypeOK, loginVars
<1>2. new.client = c /\ new.nonce = n
  OBVIOUS
<1> HIDE DEF new
<1>3. ASSUME NEW i \in DOMAIN auths'
      PROVE  (i \in DOMAIN auths /\ auths'[i] = auths[i]) \/ auths'[i] = new
  BY <1>1
<1> QED
  BY <1>1, <1>2, <1>3 DEF Issued, Kind

\* Every step keeps it so.
LEMMA IssuedPreserves == ASSUME ServerInv, LoginInv, Issued, [Next]_vars PROVE Issued'
<1>1. ASSUME auths' = auths, began' = began PROVE Issued'
  BY <1>1, IssuedStays
<1>2. CASE Tick \/ Reconfigure \/ UNCHANGED vars
  BY <1>1, <1>2 DEF Tick, Reconfigure, NewServer, vars, serverVars, loginVars
<1>3. ASSUME NEW b \in Browsers, NEW h \in Hosts, NEW bearer \in BOOLEAN,
             RefreshIDToken(b, h, bearer) \/ ServeLogout(b, h)
      PROVE  Issued'
  BY <1>1, <1>3 DEF RefreshIDToken, ServeLogout, serverVars
<1>4. ASSUME NEW b \in Browsers, NEW h \in Hosts, NEW tok \in URLTokens,
             ServeLogin(b, h, tok) \/ ServeLogoutAgain(b, h, tok)
      PROVE  Issued'
  <2>1. auths' = auths /\ \E e : began' = Append(began, e)
    BY <1>4 DEF ServeLogin, ServeLogoutAgain, RequestLogin, SAMLRequestLogin, NewState, serverVars
  <2>2. \A n \in DOMAIN began : n \in DOMAIN began' /\ began'[n] = began[n]
    BY <2>1 DEF LoginInv, Started
  <2> QED
    BY <2>1, <2>2, IssuedStays
<1>5. ASSUME NEW u \in Users, NEW n \in Logins, Authorize(n, u) PROVE Issued'
  BY <1>5, AuthorizationIssues DEF Authorize
<1>6. ASSUME NEW u \in Users, NEW n \in Logins, SAMLAssert(n, u) PROVE Issued'
  BY <1>1, <1>6 DEF SAMLAssert, serverVars
<1>7. CASE OtherAuthorize
  BY <1>7, AuthorizationIssues, LoginAssumption DEF OtherAuthorize
<1>8. ASSUME NEW i \in Auths, OtherStartToken(i) \/ OtherUserInfo(i) PROVE Issued'
  BY <1>1, <1>8 DEF OtherStartToken, OtherUserInfo, StartToken, ServeUserInfo, loginVars
<1>9. ASSUME NEW r \in reqs, OtherToken(r) PROVE Issued'
  BY <1>1, <1>9 DEF OtherToken, FinishToken, loginVars
<1>10. ASSUME NEW b \in Browsers, NEW n \in DOMAIN began,
              \/ RefuseCallback(b, n)
              \/ \E h \in Handlers, i \in DOMAIN auths : StartCallback(h, b, n, i)
       PROVE  Issued'
  BY <1>1, <1>10 DEF RefuseCallback, StartCallback, serverVars
<1>11. ASSUME NEW b \in Browsers, NEW a \in assertions, SAMLCallback(b, a) PROVE Issued'
  BY <1>1, <1>11 DEF SAMLCallback, serverVars
<1>12. ASSUME NEW h \in Handlers,
              \/ \E withID \in BOOLEAN : ReceiveToken(h, withID)
              \/ ReceiveUserInfo(h) \/ CallFails(h)
              \/ \E verified \in BOOLEAN : FinishCallback(h, verified)
       PROVE  Issued'
  BY <1>1, <1>12 DEF ReceiveToken, ReceiveUserInfo, CallFails, FinishCallback, ServeToken,
     ServeUserInfo, serverVars
<1> QED
  BY <1>2, <1>3, <1>4, <1>5, <1>6, <1>7, <1>8, <1>9, <1>10, <1>11, <1>12 DEF Next

-----------------------------------------------------------------------------
\* A step that starts no callback and makes no session of the OpenID Connect client.
LEMMA OnceStays ==
    ASSUME LoginInv, Once,
           \A n \in DOMAIN began : Used(n) => Used(n)',
           \A h \in Handlers : \/ handler'[h] = Idle
                               \/ handler[h] # Idle /\ handler'[h].nonce = handler[h].nonce,
           \A s \in sessions' : s \in sessions \/ s.provider = "saml"
    PROVE  Once'
<1>1. \A h \in Handlers : handler[h] # Idle => handler[h].nonce \in DOMAIN began
  BY DEF LoginInv, Serving, Serves
<1>2. \A s \in sessions : s.provider = "oidc" => s.state \in DOMAIN began
  BY DEF LoginInv, Sessions, Justified
<1>3. ASSUME NEW h \in Handlers, handler'[h] # Idle PROVE Used(handler[h].nonce)'
  <2>1. PICK n \in DOMAIN began : n = handler[h].nonce /\ Used(n)
    BY <1>1, <1>3 DEF Once
  <2>2. Used(n)' /\ handler'[h].nonce = n
    BY <1>3, <2>1
  <2> QED
    BY <2>2 DEF Used
<1>4. \A h, k \in Handlers :
          h # k /\ handler'[h] # Idle /\ handler'[k] # Idle => handler'[h].nonce # handler'[k].nonce
  BY DEF Once
<1>5. ASSUME NEW s \in sessions', s.provider = "oidc"
      PROVE  /\ Used(s.state)'
             /\ \A h \in Handlers : handler'[h] # Idle => handler'[h].nonce # s.state
             /\ \A t \in sessions' : t.provider = "oidc" /\ t.state = s.state => t = s
  <2>1. s \in sessions /\ s.state \in DOMAIN began
    BY <1>2, <1>5
  <2> QED
    BY <1>5, <2>1 DEF Once
<1> QED
  BY <1>3, <1>4, <1>5 DEF Once

\* The states stay, or the states of some logins do.
LEMMA UsedStays ==
    ASSUME \A n \in DOMAIN states' : n \in DOMAIN states /\ states'[n].seen = states[n].seen,
           NEW n, Used(n)
    PROVE  Used(n)'
BY DEF Used

\* The first critical section of HandleCallback leaves the state that it is given used.
LEMMA CheckedIsUsed ==
    ASSUME LoginInv, NEW m, CheckState(m),
           NEW n \in DOMAIN states'
    PROVE  /\ n \in DOMAIN states
           /\ states'[n].seen = states[n].seen \/ states'[n].seen
           /\ n = m /\ Known("oidc", m) => states'[n].seen
<1> DEFINE st == Unexpired("oidc")
<1>1. states' = [k \in DOMAIN st |->
          IF k = m /\ Known("oidc", m) THEN [st[k] EXCEPT !.seen = TRUE] ELSE st[k]]
  BY DEF CheckState
<1>2. n \in DOMAIN states /\ st[n] = states[n] /\ states[n] \in State
  BY <1>1, UnexpiredStates DEF LoginInv, States
<1> QED
  BY <1>1, <1>2 DEF State

\* A callback starts with a state that nobody has used.
LEMMA StartsOnce ==
    ASSUME LoginInv, Once, NEW h \in Handlers, NEW b \in Browsers, NEW m \in DOMAIN began,
           NEW i \in DOMAIN auths, StartCallback(h, b, m, i)
    PROVE  Once'
<1> DEFINE x == [pc |-> "token", browser |-> b, nonce |-> m, code |-> i, sid |-> None]
<1>1. /\ CheckState(m) /\ ~InvalidState(b, m)
      /\ sessions' = sessions /\ handler[h] = Idle
      /\ handler' = [handler EXCEPT ![h] = x]
  BY DEF StartCallback
<1>2. \A n \in DOMAIN began : Used(n) => Used(n)'
  BY <1>1, CheckedIsUsed DEF Used
<1>3. Known("oidc", m) /\ ~Used(m) /\ Used(m)'
  <2>1. Known("oidc", m) /\ ~states[m].seen /\ m \in DOMAIN states
    BY <1>1 DEF InvalidState, Known
  <2> QED
    BY <1>1, <2>1, CheckedIsUsed DEF Used
<1>4. x.nonce = m
  OBVIOUS
<1> HIDE DEF x
<1>5. handler'[h] = x /\ \A k \in Handlers \ {h} : handler'[k] = handler[k]
  BY <1>1 DEF LoginInv, Serving
<1>6. \A k \in Handlers : handler[k] # Idle => handler[k].nonce # m /\ handler[k].nonce \in DOMAIN began
  BY <1>3 DEF Once, LoginInv, Serving, Serves
<1>7. \A s \in sessions : s.provider = "oidc" => s.state # m /\ s.state \in DOMAIN began
  BY <1>3 DEF Once, LoginInv, Sessions, Justified
<1>8. ASSUME NEW k \in Handlers, handler'[k] # Idle PROVE Used(handler[k].nonce)'
  <2>1. PICK n \in DOMAIN began : n = handler'[k].nonce
    BY <1>4, <1>5, <1>6, <1>8
  <2>2. Used(n)'
    BY <1>2, <1>3, <1>4, <1>5, <1>6, <1>8, <2>1 DEF Once
  <2> QED
    BY <2>1, <2>2 DEF Used
<1>9. \A k, l \in Handlers :
          k # l /\ handler'[k] # Idle /\ handler'[l] # Idle => handler'[k].nonce # handler'[l].nonce
  BY <1>4, <1>5, <1>6 DEF Once
<1>10. ASSUME NEW s \in sessions, s.provider = "oidc"
       PROVE  /\ Used(s.state)'
              /\ \A k \in Handlers : handler'[k] # Idle => handler'[k].nonce # s.state
  BY <1>2, <1>4, <1>5, <1>7, <1>10 DEF Once
<1>11. \A s, t \in sessions :
           s.provider = "oidc" /\ t.provider = "oidc" /\ t.state = s.state => t = s
  BY DEF Once
<1> QED
  BY <1>1, <1>8, <1>9, <1>10, <1>11 DEF Once

\* A callback that is refused uses up a state at most.
LEMMA RefusedOnce ==
    ASSUME LoginInv, Once, NEW b \in Browsers, NEW m \in DOMAIN began, RefuseCallback(b, m)
    PROVE  Once'
<1>1. CheckState(m) /\ handler' = handler /\ sessions' = sessions
  BY DEF RefuseCallback
<1>2. \A n \in DOMAIN began : Used(n) => Used(n)'
  BY <1>1, CheckedIsUsed DEF Used
<1> QED
  BY <1>1, <1>2, OnceStays

\* A callback ends: its state goes to the session that it makes, if it makes one.
LEMMA FinishesOnce ==
    ASSUME LoginInv, Once, NEW h \in Handlers, NEW verified \in BOOLEAN, FinishCallback(h, verified)
    PROVE  Once'
<1>1. PICK m : m = handler[h].nonce
  OBVIOUS
<1>2. handler[h] # Idle /\ handler' = [handler EXCEPT ![h] = Idle]
  BY DEF FinishCallback, EndCallback, Idle
<1>3. \A n \in DOMAIN states' : n \in DOMAIN states /\ states'[n].seen = states[n].seen
  BY DEF FinishCallback, Restrict
<1>4. \A k \in Handlers : handler'[k] = IF k = h THEN Idle ELSE handler[k]
  BY <1>2 DEF LoginInv, Serving
<1>5. CASE sessions' = sessions
  BY <1>2, <1>3, <1>4, <1>5, UsedStays, OnceStays
<1>6. ASSUME NEW s, sessions' = sessions \union {s}, s.state = m PROVE Once'
  <2>1. Used(m) /\ \A k \in Handlers \ {h} : handler[k] # Idle => handler[k].nonce # m
    BY <1>1, <1>2 DEF Once
  <2>2. \A t \in sessions : t.provider = "oidc" => t.state # m
    BY <1>1, <1>2 DEF Once
  <2>3. ASSUME NEW k \in Handlers, handler'[k] # Idle PROVE Used(handler[k].nonce)'
    <3>1. PICK n : n = handler[k].nonce
      OBVIOUS
    <3>2. Used(n) /\ handler'[k].nonce = n
      BY <1>4, <2>3, <3>1 DEF Once
    <3>3. Used(n)'
      BY <1>3, <3>2, UsedStays
    <3> QED
      BY <3>2, <3>3 DEF Used
  <2>4. \A k, l \in Handlers :
            k # l /\ handler'[k] # Idle /\ handler'[l] # Idle => handler'[k].nonce # handler'[l].nonce
    BY <1>4 DEF Once
  <2>5. ASSUME NEW t \in sessions', t.provider = "oidc"
        PROVE  /\ Used(t.state)'
               /\ \A k \in Handlers : handler'[k] # Idle => handler'[k].nonce # t.state
    BY <1>3, <1>4, <1>6, <2>1, <2>5, UsedStays DEF Once
  <2>6. \A t, v \in sessions' :
            t.provider = "oidc" /\ v.provider = "oidc" /\ v.state = t.state => v = t
    BY <1>6, <2>2 DEF Once
  <2> QED
    BY <2>3, <2>4, <2>5, <2>6 DEF Once
<1>7. ASSUME NEW b, NEW cookies, NEW u, NEW n, NEW host, NEW code,
             SetAuthTokenCookie(b, cookies, u, n, host, "oidc", m, code)
      PROVE  Once'
  <2> DEFINE s == [sid |-> n, browser |-> b, user |-> u, host |-> host, at |-> now,
                   provider |-> "oidc", nth |-> Cardinality({t \in sessions : t.sid = n}),
                   state |-> m, code |-> code]
  <2>1. sessions' = sessions \union {s} /\ s.state = m
    BY <1>7 DEF SetAuthTokenCookie
  <2> HIDE DEF s
  <2> QED
    BY <1>6, <2>1
<1> QED
  BY <1>1, <1>5, <1>7 DEF FinishCallback

\* Every step keeps states single-use.
LEMMA OncePreserves == ASSUME LoginInv, Once, [Next]_vars PROVE Once'
<1>1. ASSUME states' = states, handler' = handler, sessions' = sessions PROVE Once'
  BY <1>1, OnceStays DEF Used
<1>2. CASE Tick \/ Reconfigure \/ UNCHANGED vars
  BY <1>1, <1>2 DEF Tick, Reconfigure, vars, loginVars
<1>3. ASSUME NEW b \in Browsers, NEW h \in Hosts, NEW bearer \in BOOLEAN,
             RefreshIDToken(b, h, bearer) \/ ServeLogout(b, h)
      PROVE  Once'
  BY <1>1, <1>3 DEF RefreshIDToken, ServeLogout
<1>4. ASSUME NEW b \in Browsers, NEW h \in Hosts, NEW tok \in URLTokens,
             ServeLogin(b, h, tok) \/ ServeLogoutAgain(b, h, tok)
      PROVE  Once'
  <2>1. /\ \E url : NewState(b, h, url)
        /\ handler' = handler /\ sessions' = sessions
    BY <1>4 DEF ServeLogin, ServeLogoutAgain, RequestLogin, SAMLRequestLogin
  <2>2. PICK e : states' = [i \in DOMAIN states \union {Len(began) + 1} |->
                              IF i = Len(began) + 1 THEN e ELSE states[i]]
    BY <2>1 DEF NewState
  <2>3. \A n \in DOMAIN began : n # Len(began) + 1
    BY DEF LoginInv, Started
  <2>4. \A n \in DOMAIN began : Used(n) => Used(n)'
    BY <2>2, <2>3 DEF Used
  <2> QED
    BY <2>1, <2>4, OnceStays
<1>5. ASSUME NEW u \in Users, NEW n \in Logins, Authorize(n, u) \/ SAMLAssert(n, u) PROVE Once'
  BY <1>1, <1>5 DEF Authorize, SAMLAssert, loginVars
<1>6. ASSUME \/ OtherAuthorize
             \/ \E i \in Auths : OtherStartToken(i) \/ OtherUserInfo(i)
             \/ \E r \in reqs : OtherToken(r)
      PROVE  Once'
  BY <1>1, <1>6 DEF OtherAuthorize, OtherStartToken, OtherUserInfo, OtherToken, loginVars
<1>7. ASSUME NEW b \in Browsers, NEW a \in assertions, SAMLCallback(b, a) PROVE Once'
  <2>1. \A n \in DOMAIN states' : n \in DOMAIN states /\ states'[n].seen = states[n].seen
    BY <1>7, UnexpiredStates DEF SAMLCallback, TakeState, Restrict
  <2>2. handler' = handler /\ \A s \in sessions' : s \in sessions \/ s.provider = "saml"
    <3>1. /\ handler' = handler
          /\ \/ SetAuthTokenCookie(b, jar[b], a.user, a.nonce, states[a.nonce].host, "saml", a.nonce, None)
             \/ UNCHANGED <<jar, sessions>>
      BY <1>7 DEF SAMLCallback
    <3>2. ASSUME NEW u, NEW n, NEW host,
                 SetAuthTokenCookie(b, jar[b], u, n, host, "saml", n, None)
          PROVE  \A s \in sessions' : s \in sessions \/ s.provider = "saml"
      <4>1. PICK e : /\ e.provider = "saml"
                     /\ sessions' = sessions \union {e}
        BY <3>2 DEF SetAuthTokenCookie
      <4> QED
        BY <4>1
    <3> QED
      BY <3>1, <3>2
  <2> QED
    BY <2>1, <2>2, UsedStays, OnceStays
<1>8. ASSUME NEW h \in Handlers,
             \/ \E withID \in BOOLEAN : ReceiveToken(h, withID)
             \/ ReceiveUserInfo(h) \/ CallFails(h)
      PROVE  Once'
  <2>1. states' = states /\ sessions' = sessions /\ handler[h].pc # "idle"
    BY <1>8 DEF ReceiveToken, ReceiveUserInfo, CallFails
  <2>2. handler[h] # Idle /\ handler[h] \in Callback
    BY <2>1 DEF LoginInv, Serving, Idle
  <2> DEFINE Moves == \E x : /\ handler' = [handler EXCEPT ![h] = x]
                            /\ (x = Idle \/ x.nonce = handler[h].nonce)
  <2>3. Moves
    <3>1. ASSUME NEW pc, NEW sid, handler' = [handler EXCEPT ![h].pc = pc, ![h].sid = sid] PROVE Moves
      <4> DEFINE y == [handler[h] EXCEPT !.pc = pc, !.sid = sid]
      <4>1. handler' = [handler EXCEPT ![h] = y]
        BY <3>1 DEF LoginInv, Serving
      <4>2. y.nonce = handler[h].nonce
        BY <2>2 DEF Callback
      <4> HIDE DEF y
      <4> QED
        BY <4>1, <4>2
    <3>2. CASE EndCallback(h)
      BY <3>2 DEF EndCallback
    <3>3. ASSUME NEW withID \in BOOLEAN, ReceiveToken(h, withID) PROVE Moves
      BY <3>1, <3>2, <3>3 DEF ReceiveToken
    <3>4. CASE ReceiveUserInfo(h)
      BY <3>1, <3>2, <3>4 DEF ReceiveUserInfo
    <3>5. CASE CallFails(h)
      BY <3>2, <3>5 DEF CallFails
    <3> QED
      BY <1>8, <3>3, <3>4, <3>5
  <2>4. PICK x : /\ handler' = [handler EXCEPT ![h] = x]
                 /\ x = Idle \/ x.nonce = handler[h].nonce
    BY <2>3
  <2>5. \A k \in Handlers : \/ handler'[k] = Idle
                            \/ handler[k] # Idle /\ handler'[k].nonce = handler[k].nonce
    BY <2>2, <2>4 DEF LoginInv, Serving
  <2> QED
    BY <2>1, <2>5, OnceStays DEF Used
<1> QED
  BY <1>2, <1>3, <1>4, <1>5, <1>6, <1>7, <1>8, RefusedOnce, StartsOnce, FinishesOnce DEF Next

-----------------------------------------------------------------------------
\* The inductive invariant.
IndInv == ServerInv /\ LoginInv /\ Issued /\ Once

\* The invariant holds at first.
LEMMA InitEstablishes == Init => IndInv
<1> SUFFICES ASSUME Init PROVE IndInv
  OBVIOUS
<1> USE DEF Init, ServerInit
<1>1. ServerInv
  BY CodeLifeAssumption DEF ServerInv, ServerTypeOK, Spent, InTime
<1>2. Started /\ States /\ Sessions /\ Answered
  BY LoginAssumption DEF Started, States, Sessions, Answered
<1>3. Jars
  <2> DEFINE c == [nonce |-> None, auth |-> None, id |-> [h \in Hosts |-> None]]
  <2>1. /\ c \in Cookies /\ c.nonce = None /\ c.auth = None
        /\ \A h \in Hosts : c.id[h] = None
    BY DEF Cookies
  <2> HIDE DEF c
  <2>2. jar = [b \in Browsers |-> c]
    BY DEF c
  <2> QED
    BY <2>1, <2>2 DEF Jars, Owned
<1>4. Serving
  BY DEF Serving
<1>5. Issued /\ Once
  BY <1>4 DEF Issued, Once
<1> QED
  BY <1>1, <1>2, <1>3, <1>4, <1>5 DEF IndInv, LoginInv

\* Every step keeps the invariant.
LEMMA NextPreserves == ASSUME IndInv, [Next]_vars PROVE IndInv'
<1> SUFFICES ServerInv' /\ LoginInv'
  BY IssuedPreserves, OncePreserves DEF IndInv
<1> USE DEF IndInv
<1>1. ASSUME NEW b \in Browsers, NEW h \in Hosts, NEW bearer \in BOOLEAN,
             RefreshIDToken(b, h, bearer)
      PROVE  ServerInv' /\ LoginInv'
  BY <1>1, RefreshPreserves, UnchangedServer DEF RefreshIDToken, ServerInv, ServerEffect
<1>2. ASSUME NEW b \in Browsers, NEW h \in Hosts, ServeLogout(b, h)
      PROVE  ServerInv' /\ LoginInv'
  BY <1>2, LogoutPreserves, UnchangedServer DEF ServeLogout, ServerInv, ServerEffect
<1>3. ASSUME NEW b \in Browsers, NEW h \in Hosts, NEW tok \in URLTokens,
             ServeLogin(b, h, tok) \/ ServeLogoutAgain(b, h, tok)
      PROVE  ServerInv' /\ LoginInv'
  <2>1. UNCHANGED <<now, serverVars, assertions, handler, sessions, configs>> /\ URLTokenOK(tok, b, h)
    BY <1>3 DEF ServeLogin, ServeLogoutAgain
  <2>2. jar[b] \in Cookies /\ Owned(b, jar[b])
    BY DEF LoginInv, Jars
  <2>3. LoginInv'
    BY <1>3, <2>1, <2>2, ClearedIsOwned, NewLoginPreserves DEF ServeLogin, ServeLogoutAgain
  <2> QED
    BY <2>1, <2>3, UnchangedServer DEF ServerInv, ServerEffect
<1>4. CASE UNCHANGED vars
  <2>1. UNCHANGED <<now, loginVars>> /\ ServerEffect
    BY <1>4, UnchangedServer DEF vars, ServerInv
  <2> QED
    BY <2>1, SameLogin DEF ServerEffect
<1> QED
  BY <1>1, <1>2, <1>3, <1>4, TickPreserves, ReconfigurePreserves, AuthorizePreserves,
     AssertPreserves, OthersPreserve, RefuseCallbackPreserves, StartCallbackPreserves,
     SAMLCallbackPreserves, CallsPreserve, FinishPreserves DEF Next

\* The inductive invariant holds throughout, whatever the interleaving of browsers,
\* callbacks, other clients and new configurations.
THEOREM Inductive == Spec => []IndInv
BY InitEstablishes, NextPreserves, PTL DEF Spec

\* Type correctness of the logins and of the OpenID Connect server.
THEOREM TypeCorrect == Spec => []TypeOK
<1>1. IndInv => TypeOK
  <2> SUFFICES ASSUME IndInv PROVE TypeOK
    OBVIOUS
  <2>1. \A h \in Handlers : handler[h] = Idle \/ handler[h] \in Callback
    BY DEF IndInv, LoginInv, Serving
  <2> QED
    BY <2>1 DEF IndInv, ServerInv, LoginInv, Started, States, State, Sessions, Session,
       Jars, Cookies, Answered, Begin, Callback, TypeOK
<1> QED
  BY <1>1, Inductive, PTL

\* Codes and access tokens work once, for their client and in requests that begin
\* in time, also when requests to the token endpoint overlap.
THEOREM SingleUse == Spec => []TokensAreSingleUse
<1>1. IndInv => TokensAreSingleUse
  BY DEF IndInv, ServerInv, Spent, TokensAreSingleUse
<1> QED
  BY <1>1, Inductive, PTL

\* A login makes at most one session, also when its answer is sent to the callback
\* many times at once.
THEOREM OneSession == Spec => []OneSessionPerLogin
<1>1. IndInv => OneSessionPerLogin
  BY DEF IndInv, LoginInv, Sessions, OneSessionPerLogin
<1> QED
  BY <1>1, Inductive, PTL

\* A session of the OpenID Connect client takes a login that the browser began, which is
\* good for no other session, and a code that this program's client was granted, whose
\* user it is for; also when other logins, logouts and callbacks are served between the
\* two critical sections, and when state and code are of different logins.
THEOREM StateAndCode == Spec => []SessionHasStateAndCode
<1>1. IndInv => SessionHasStateAndCode
  <2> SUFFICES ASSUME IndInv, NEW s \in sessions, s.provider = "oidc"
               PROVE  /\ began[s.state].browser = s.browser
                      /\ \A t \in sessions : t.provider = "oidc" /\ t.state = s.state => t = s
                      /\ Given(s.code) /\ s.user = auths[s.code].user
                      /\ s.sid \in {s.state, auths[s.code].nonce}
                      /\ began[s.sid].url = began[s.sid].host
    BY DEF SessionHasStateAndCode, Given
  <2>1. Justified(s)
    BY DEF IndInv, LoginInv, Sessions
  <2>2. \A t \in sessions : t.provider = "oidc" /\ t.state = s.state => t = s
    BY DEF IndInv, Once
  <2> QED
    BY <2>1, <2>2 DEF Justified, IndInv, LoginInv, Started
<1> QED
  BY <1>1, Inductive, PTL

\* A browser that has just logged in is not asked to log in again by the host that
\* it logged in for.
THEOREM Honoured == Spec => []LoginIsHonoured
<1>1. IndInv => LoginIsHonoured
  <2> SUFFICES ASSUME IndInv, NEW b \in Browsers, jar[b].auth # None, jar[b].auth.iat = now
               PROVE  Outcome(b, began[jar[b].auth.sid].url, FALSE) # "asked to log in"
    BY DEF LoginIsHonoured
  <2> DEFINE a == jar[b].auth
             h == began[a.sid].url
             c == Claims(b, h, FALSE)
  <2>1. a \in AuthToken /\ AuthOfSession(a)
    BY DEF IndInv, LoginInv, Jars, Cookies, Owned
  <2>2. /\ h \in Hosts /\ a.host = h /\ a.provider = Provider[h]
        /\ a.user \in Users /\ a.sid \in Logins /\ now \in Nat
    BY <2>1 DEF AuthOfSession, IndInv, LoginInv, Started, Kind, AuthToken
  <2>3. AuthTokenOK(b, h) /\ ~BearerOK(b, h, FALSE)
    BY <2>2, LoginAssumption DEF AuthTokenOK, BearerOK
  <2>4. c = [user |-> a.user, sid |-> a.sid, host |-> a.host, iat |-> a.iat]
    BY <2>3 DEF Claims
  <2> HIDE DEF c, h, a
  <2>5. c \in Claim /\ c.host = h /\ c.iat = now
    BY <2>2, <2>4 DEF Claim, a
  <2>6. ~MustLogIn(c, h)
    BY <2>2, <2>5, NoneAssumption, LoginAssumption DEF MustLogIn
  <2> QED
    BY <2>6 DEF Outcome, c, h, a
<1> QED
  BY <1>1, Inductive, PTL

\* A request is forwarded only for a user of the ACL, by a session that has not
\* ended, and where ForceReAuth is set by a recent login for that host.
THEOREM Authorised == Spec => []ForwardIsAuthorised
<1>1. IndInv => ForwardIsAuthorised
  <2> SUFFICES ASSUME IndInv, NEW b \in Browsers, NEW h \in Hosts, NEW bearer \in BOOLEAN,
                      Outcome(b, h, bearer) = "forwarded"
               PROVE  LET c == Claims(b, h, bearer) IN
                      /\ c.user \in ACL[h]
                      /\ \E s \in sessions :
                            /\ s.sid = c.sid /\ s.user = c.user /\ now < s.at + SessionLife
                            /\ ForceReAuth[h] # 0 => s.host = h /\ now - s.at <= ForceReAuth[h]
    BY DEF ForwardIsAuthorised
  <2> DEFINE c == Claims(b, h, bearer)
             a == jar[b].auth
             i == jar[b].id[h]
  <2>1. ~MustSetIDToken(b, h, bearer) /\ ~MustLogIn(c, h) /\ c.user \in ACL[h]
    BY DEF Outcome
  <2>2. c # None /\ (ForceReAuth[h] # 0 => c.host = h /\ ~(now - c.iat > ForceReAuth[h]))
    BY <2>1 DEF MustLogIn
  <2>3. jar[b] \in Cookies /\ Owned(b, jar[b])
    BY DEF IndInv, LoginInv, Jars
  <2>4. now \in Nat /\ SessionLife \in Nat /\ ForceReAuth[h] \in Nat
    BY LoginAssumption DEF IndInv, ServerInv
  <2>5. CASE BearerOK(b, h, bearer)
    <3>1. c = [user |-> i.user, sid |-> i.sid, host |-> None, iat |-> 0]
      BY <2>5 DEF Claims
    <3>2. i # None /\ now < i.exp
      BY <2>5 DEF BearerOK, IDTokenUnexpired
    <3>3. PICK s \in sessions : s.sid = i.sid /\ s.user = i.user /\ i.exp = s.at + SessionLife
      BY <2>3, <3>2 DEF Owned, IDOfSession
    <3>4. ForceReAuth[h] = 0
      BY <2>2, <3>1, NoneAssumption
    <3> QED
      BY <2>1, <3>1, <3>2, <3>3, <3>4
  <2>6. CASE ~BearerOK(b, h, bearer)
    <3>1. AuthTokenOK(b, h) /\ c = [user |-> a.user, sid |-> a.sid, host |-> a.host, iat |-> a.iat]
      BY <2>2, <2>6 DEF Claims
    <3>2. a # None /\ now < a.iat + SessionLife
      BY <3>1 DEF AuthTokenOK
    <3>3. PICK s \in sessions : s.sid = a.sid /\ s.user = a.user /\ s.host = a.host /\ s.at = a.iat
      BY <2>3, <3>2 DEF Owned, AuthOfSession
    <3>4. s.at \in Nat
      BY DEF IndInv, LoginInv, Sessions, Session
    <3> HIDE DEF c, a
    <3> QED
      BY <2>1, <2>2, <2>4, <3>1, <3>2, <3>3, <3>4 DEF c
  <2> QED
    BY <2>5, <2>6
<1> QED
  BY <1>1, Inductive, PTL
=============================================================================

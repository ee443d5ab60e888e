----------------------------- MODULE OIDCServer -----------------------------
(***************************************************************************)
(* The OpenID Connect server (proxy/internal/oidc/server.go): the          *)
(* authorization codes and the access tokens that it hands out, which are  *)
(* good for one use and for CodeLife, checked by a vacuum at the start of  *)
(* every request.  An authorization is a number: it stands for its code    *)
(* and for its access token, two independent random strings.               *)
(***************************************************************************)
EXTENDS Integers, Sequences, FiniteSets, Functions

CONSTANTS Clients,    \* the clients that the server knows
          Users,      \* the users that may be logged in at the server
          CodeLife,   \* lifetime of a code and of an access token
          MaxAuths    \* bound: authorizations

ASSUME CodeLifeAssumption == CodeLife \in Nat /\ MaxAuths \in Nat

VARIABLES now,            \* the time
          auths,          \* every authorization there was: auths[i] is number i
          codes,          \* s.codes: the authorizations whose code is good
          accessTokens,   \* s.accessTokens: those whose access token is good
          reqs,           \* token requests whose form is being read, one of a client
          grants          \* the successful answers so far

serverVars == <<auths, codes, accessTokens, reqs, grants>>

Auths == 1..MaxAuths
Auth == [client : Clients, user : Users, nonce : Nat, created : Nat]
Grant == [kind : {"code", "access"}, id : Auths, nth : Nat, client : Clients, late : BOOLEAN]

ServerTypeOK ==
    /\ auths \in Seq(Auth) /\ Len(auths) <= MaxAuths
    /\ codes \subseteq DOMAIN auths
    /\ accessTokens \subseteq DOMAIN auths
    /\ reqs \subseteq [id : Auths, client : Clients, at : Nat]
    /\ grants \subseteq Grant

ServerInit ==
    auths = << >> /\ codes = {} /\ accessTokens = {} /\ reqs = {} /\ grants = {}

\* NewServer, in the place of one without requests.
NewServer == codes' = {} /\ accessTokens' = {} /\ UNCHANGED <<auths, reqs, grants>>

\* vacuum: what is left of the codes, or of the access tokens
Vacuum(ids) == {i \in ids : now - auths[i].created <= CodeLife}

Granted(kind, i, c, at) ==
    grants \union {[kind |-> kind, id |-> i, client |-> c,
                    late |-> at - auths[i].created > CodeLife,
                    nth |-> Cardinality({g \in grants : g.kind = kind /\ g.id = i})]}

\* ServeAuthorization, for a user who is logged in at the server.  The nonce is
\* the client's, or 0 when it sends none.
ServeAuthorization(c, u, n) ==
    /\ Len(auths) < MaxAuths
    /\ auths' = Append(auths, [client |-> c, user |-> u, nonce |-> n, created |-> now])
    /\ codes' = Vacuum(codes) \union {Len(auths) + 1}
    /\ accessTokens' = Vacuum(accessTokens) \union {Len(auths) + 1}
    /\ UNCHANGED <<reqs, grants>>

\* ServeToken up to ParseForm: the vacuum is done, the form is still to be read.
StartToken(i, c) ==
    /\ \A r \in reqs : r.client # c
    /\ reqs' = reqs \union {[id |-> i, client |-> c, at |-> now]}
    /\ codes' = Vacuum(codes)
    /\ accessTokens' = Vacuum(accessTokens)
    /\ UNCHANGED <<auths, grants>>

\* Client c is given its token, when the codes left are cs.
TokenAnswered(cs, i, c) == i \in cs /\ auths[i].client = c

\* A variant that keeps the code.
TakeCodeKeep(cs, i) == cs

\* The code is gone, whichever client presented it.
TakeCode(cs, i) == cs \ {i}

TokenGrants(cs, i, c, at) ==
    IF TokenAnswered(cs, i, c) THEN Granted("code", i, c, at) ELSE grants

\* The rest of ServeToken.
FinishToken(r) ==
    /\ reqs' = reqs \ {r}
    /\ codes' = TakeCode(codes, r.id)
    /\ grants' = TokenGrants(codes, r.id, r.client, r.at)
    /\ UNCHANGED <<auths, accessTokens>>

\* All of ServeToken at once, for a request that arrives with its form.
ServeToken(i, c) ==
    /\ codes' = TakeCode(Vacuum(codes), i)
    /\ accessTokens' = Vacuum(accessTokens)
    /\ grants' = TokenGrants(Vacuum(codes), i, c, now)
    /\ UNCHANGED <<auths, reqs>>

\* ServeUserInfo: whoever has the access token gets the claims, once.
ServeUserInfo(i) ==
    /\ codes' = Vacuum(codes)
    /\ accessTokens' = Vacuum(accessTokens) \ {i}
    /\ grants' = IF i \in Vacuum(accessTokens)
                 THEN Granted("access", i, auths[i].client, now) ELSE grants
    /\ UNCHANGED <<auths, reqs>>

\* An access token is known to the client once its code was exchanged.
Exchanged(i) == \E g \in grants : g.kind = "code" /\ g.id = i

\* Codes and access tokens work once, for the client they were made for and in
\* requests that begin within CodeLife, however often, concurrently and late they
\* are presented (vacuum, ServeToken and ServeUserInfo).
TokensAreSingleUse ==
    \A g \in grants :
        /\ g.nth = 0
        /\ g.client = auths[g.id].client
        /\ ~g.late
=============================================================================

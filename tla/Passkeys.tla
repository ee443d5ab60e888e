------------------------------ MODULE Passkeys ------------------------------
(***************************************************************************)
(* Passkeys (proxy/internal/passkeys): users register keys after a login   *)
(* with another identity provider, log in with them, and manage them.      *)
(*                                                                         *)
(* The users are in a file.  A manager keeps a copy, which it reads again  *)
(* only when it changes the file, and the challenges it gave out, which    *)
(* registrations and logins share.  A new configuration has a new manager, *)
(* with a copy of its own; the old one serves until the new configuration  *)
(* is published, and then ends what it began.                              *)
(***************************************************************************)
EXTENDS Integers, FiniteSets

CONSTANTS Users,           \* email addresses
          Browsers,
          Keys,            \* credentials of the users' authenticators
          ChallengeLife,   \* 5 minutes
          ManageLife,      \* how old a session may be that manages keys: 10 minutes
          RefreshInterval, \* how old the other provider's word for a user may be
          MaxChallenges,   \* bound: challenges
          MaxLogins,       \* bound: logins with the other provider
          MaxFaults,       \* bound: commits that fail, new configurations, stray answers
          MaxTime,         \* bound: time
          Leap,            \* bound: how far the clock moves in a step
          None

ASSUME PasskeyAssumption ==
    /\ ChallengeLife \in Nat /\ ManageLife \in Nat /\ RefreshInterval \in Nat
    /\ MaxChallenges \in Nat /\ MaxLogins \in Nat /\ MaxFaults \in Nat /\ MaxTime \in Nat
    /\ Leap \in Nat \ {0}

VARIABLES now,
          file,        \* the saved users
          db,          \* m.db of each manager
          challenges,  \* m.challenges of each manager
          current,     \* the manager of the published configuration
          next,        \* the manager of the configuration in the making, or None
          count,       \* challenges given out so far
          logins,      \* logins with the other provider so far
          nonce,       \* m.nonces: the one of each browser, or None
          landed,      \* browsers that were sent to the login page by it
          token,       \* the other provider's cookie of each browser
          session,     \* the passkey cookie of each browser
          req,         \* the request of each browser that is being served
          made,        \* the keys that were made: for whom, with which options
          registered,  \* keys whose registration was reported as done
          removed,     \* keys whose deletion was asked for
          deleted,     \* keys whose deletion was saved
          grants,      \* the logins
          faults

visits == <<nonce, landed>>
vars == <<visits, logins, now, file, db, challenges, current, next, count, token, session, req,
          made, registered, removed, deleted, grants, faults>>

Managers == 0..MaxFaults
Challenges == 1..MaxChallenges
Handles == Challenges       \* a new handle is made with a challenge

Claims == [email : Users, iat : Nat, key : Keys \union {None}]
User == [claims : Claims, keys : SUBSET Keys]
DB == [handles : [Handles -> User \union {None}], subjects : [Users -> Handles \union {None}]]

\* A challenge: for a registration with the claims and the handle, for a login without.
Challenge == [id : Challenges, to : Browsers, created : Nat, claims : Claims \union {None}, uid : Handles \union {None},
              stale : BOOLEAN]    \* for the properties only
\* The answer to a challenge.  A login names its user if it has no handle of one.
Request == [kind : {"AddKey", "Check"}, mgr : Managers, ch : Challenge, key : Keys,
            claims : Claims \union {None}, login : Users \union {None}, started : Nat]

\* A key that an authenticator made: for whom, and with which options.
Made == [email : Users, uid : Handles, id : Challenges, stale : BOOLEAN]

\* A login: what it was granted for, and whether the key was not deleted, the challenge had
\* not expired and the other provider's word was not too old.
Login == [id : Challenges, key : Keys, email : Users, live : BOOLEAN, timely : BOOLEAN, recent : BOOLEAN]

ASSUME NoneAssumption ==
    /\ None \notin Nat /\ None \notin Users /\ None \notin Keys /\ None \notin Claims
    /\ None \notin User /\ None \notin Challenge /\ None \notin Request /\ None \notin Made

TypeOK ==
    /\ now \in 0..MaxTime /\ faults \in 0..MaxFaults /\ count \in 0..MaxChallenges /\ logins \in 0..MaxLogins
    /\ file \in DB /\ db \in [Managers -> DB]
    /\ challenges \in [Managers -> SUBSET Challenge]
    /\ current \in Managers /\ next \in Managers \union {None}
    /\ nonce \in [Browsers -> [mgr : Managers, created : Nat] \union {None}] /\ landed \subseteq Browsers
    /\ token \in [Browsers -> Claims \union {None}]
    /\ session \in [Browsers -> Claims \union {None}]
    /\ req \in [Browsers -> Request \union {None}]
    /\ made \in [Keys -> Made \union {None}]
    /\ registered \subseteq Keys /\ removed \subseteq Keys /\ deleted \subseteq removed
    /\ grants \subseteq Login

Init ==
    /\ now = 0 /\ faults = 0 /\ count = 0 /\ logins = 0
    /\ file = [handles |-> [h \in Handles |-> None], subjects |-> [u \in Users |-> None]]
    /\ db = [m \in Managers |-> file]
    /\ challenges = [m \in Managers |-> {}]
    /\ current = 0 /\ next = None
    /\ token = [b \in Browsers |-> None]
    /\ session = token /\ req = token /\ nonce = token
    /\ landed = {}
    /\ made = [k \in Keys |-> None]
    /\ registered = {} /\ removed = {} /\ deleted = {} /\ grants = {}

-----------------------------------------------------------------------------
(* The file and the managers.                                              *)

\* OpenForUpdate reads the file into the maps of manager m.  The decoder of the storage
\* library may leave there what is not in the file.
Reloaded(m, merge) ==
    IF ~merge THEN file
    ELSE [handles |-> [h \in Handles |-> IF file.handles[h] # None THEN file.handles[h]
                                         ELSE db[m].handles[h]],
          subjects |-> [u \in Users |-> IF file.subjects[u] # None THEN file.subjects[u]
                                        ELSE db[m].subjects[u]]]

\* commit(true)
Commit(m, new, ok) ==
    /\ db' = [db EXCEPT ![m] = new]
    /\ file' = IF ok THEN new ELSE file
    /\ ~ok => faults < MaxFaults
    /\ faults' = IF ok THEN faults ELSE faults + 1

\* commit(false): what was read stays.
Rollback(m, new) == db' = [db EXCEPT ![m] = new] /\ UNCHANGED <<file, faults>>

\* NewManager: manager m begins with a copy of the file.
NewManager(m) == db' = [db EXCEPT ![m] = file]

\* Reconfigure up to the new managers.
Reconfigure ==
    /\ next = None /\ faults < MaxFaults
    /\ faults' = faults + 1
    /\ next' = current + 1
    /\ NewManager(current + 1)
    /\ UNCHANGED <<visits, logins, now, file, challenges, current, count, token, session, req, made,
                   registered, removed, deleted, grants>>

\* The rest of Reconfigure: new requests go to the new manager.
Publish ==
    /\ next # None
    /\ current' = next /\ next' = None
    /\ UNCHANGED <<visits, logins, now, file, db, challenges, count, token, session, req, made,
                   registered, removed, deleted, grants, faults>>

Vacuumed(cs) == {c \in cs : c.created + ChallengeLife >= now}

-----------------------------------------------------------------------------
(* The way to the login page.                                              *)

\* The nonce of browser b is in the map of the current manager and has not expired.
NonceOK(b) == nonce[b] # None /\ nonce[b].mgr = current /\ nonce[b].created + ChallengeLife >= now

\* RequestLogin, until the browser has seen the login page.
RequestLogin(b) ==
    /\ b \notin landed /\ ~NonceOK(b)
    /\ nonce' = [nonce EXCEPT ![b] = [mgr |-> current, created |-> now]]
    /\ UNCHANGED <<landed, logins, now, file, db, challenges, current, next, count, token, session,
                   req, made, registered, removed, deleted, grants, faults>>

\* HandleCallback with a nonce, which is used up: the browser is given a token of the URL to
\* return to, that all other requests need and that does not expire.
OpenLoginPage(b) ==
    /\ NonceOK(b)
    /\ nonce' = [nonce EXCEPT ![b] = None]
    /\ landed' = landed \union {b}
    /\ UNCHANGED <<logins, now, file, db, challenges, current, next, count, token, session, req,
                   made, registered, removed, deleted, grants, faults>>

-----------------------------------------------------------------------------
(* Options: the server gives out a challenge.                              *)

GiveOut(c) ==
    /\ count' = c.id
    /\ challenges' = [challenges EXCEPT ![current] = Vacuumed(@) \union {c}]
    /\ UNCHANGED <<visits, logins, now, file, db, current, next, token, session, req, made, registered,
                   removed, deleted, grants, faults>>

\* assertionOptions
AssertionOptions(b) ==
    /\ count < MaxChallenges /\ req[b] = None
    /\ GiveOut([id |-> count + 1, to |-> b, created |-> now, claims |-> None, uid |-> None,
                   stale |-> FALSE])

\* A variant without the new one.
HandleOfKnown(u) == db[current].subjects[u]

\* The handle that attestationOptions finds for a user, or a new one.
HandleOf(u) == IF db[current].subjects[u] # None THEN db[current].subjects[u] ELSE count + 1

\* attestationOptions, for the claims of one of the two cookies.  The options are stale
\* when the manager does not know the handle that the user has in the file.
AttestationOptions(b, claims) ==
    /\ count < MaxChallenges /\ req[b] = None
    /\ claims # None
    /\ GiveOut([id |-> count + 1, to |-> b, created |-> now, claims |-> claims, uid |-> HandleOf(claims.email),
                   stale |-> file.subjects[claims.email] \notin {None, HandleOf(claims.email)}])

\* ManageKeys asks for a session that is not old.
MayManage(claims) == claims # None /\ now <= claims.iat + ManageLife

-----------------------------------------------------------------------------
(* A browser answers a challenge.  The request runs vacuum and checks what *)
(* it was sent; the rest is done under the lock.                           *)

\* The answer to a challenge that browser b was not given, or not for this; or an
\* authenticator that remembers no handle.
Stray(b, r) == r.ch.to # b \/ r.login # None \/ (r.kind = "AddKey") # (r.ch.claims # None)

Start(b, r) ==
    /\ req' = [req EXCEPT ![b] = r]
    /\ challenges' = [challenges EXCEPT ![current] = Vacuumed(@)]
    /\ Stray(b, r) => faults < MaxFaults
    /\ faults' = IF Stray(b, r) THEN faults + 1 ELSE faults
    /\ UNCHANGED <<visits, logins, now, file, db, current, next, count, token, session, registered,
                   removed, deleted, grants>>

\* A browser may answer any challenge that a manager has, whoever it was given to and
\* for what.  (An answer to another one is refused.)
Answerable == UNION {challenges[m] : m \in Managers}

\* The authenticator makes a key with the options of challenge c; it remembers the
\* handle.  The challenge of a login has no options to make one with.
StartAddKey(b, k, c, claims) ==
    /\ req[b] = None /\ made[k] = None
    /\ claims # None
    /\ made' = IF c.claims = None THEN made
               ELSE [made EXCEPT ![k] = [email |-> c.claims.email, uid |-> c.uid, id |-> c.id,
                                         stale |-> c.stale]]
    /\ Start(b, [kind |-> "AddKey", mgr |-> current, ch |-> c, key |-> k, claims |-> claims,
                 login |-> None, started |-> now])

\* The answer has the handle that the authenticator remembers, or the name u of a user.
StartCheck(b, k, c, u) ==
    /\ req[b] = None /\ made[k] # None
    /\ Start(b, [kind |-> "Check", mgr |-> current, ch |-> c, key |-> k,
                 claims |-> token[b], login |-> u, started |-> now])
    /\ UNCHANGED made

\* The request is over.
Done(b) == req' = [req EXCEPT ![b] = None]

\* A variant that leaves the challenge there.
TakeNot(r) == UNCHANGED challenges

\* The challenge is gone, whatever happens next.
Take(r) == challenges' = [challenges EXCEPT ![r.mgr] = @ \ {r.ch}]

\* processAttestation: the challenge was given to the same claims.
ChallengeOK(r) == r.ch \in challenges[r.mgr] /\ (r.kind = "AddKey" => r.ch.claims = r.claims)

\* A user that was found has its key added, another is new.
WithKey(d, r) ==
    LET u == r.claims.email
        h == d.subjects[u]
        known == h # None /\ d.handles[h] # None
    IN  IF known THEN [d EXCEPT !.handles[h].keys = @ \union {r.key}]
        ELSE [d EXCEPT !.handles[r.ch.uid] = [claims |-> r.ch.claims, keys |-> {r.key}],
                       !.subjects[u] = r.ch.uid]

KeysOf(d, u) ==
    LET h == d.subjects[u] IN
    IF h # None /\ d.handles[h] # None THEN d.handles[h].keys ELSE {}

\* A variant that does not look for keys.
MayAddAny(d, r) == TRUE

\* Without a passkey session only a user's first key may be added.
MayAdd(d, r) == r.claims.key = None => KeysOf(d, r.claims.email) = {}

\* setAuthToken: the browser has a session of user u, by key k.
SetAuthToken(b, u, k) == session' = [session EXCEPT ![b] = [email |-> u, iat |-> now, key |-> k]]

\* processAttestation under the lock, and setAuthToken unless keys are managed.
FinishAddKey(b, merge, ok) ==
    LET r == req[b]
        d == Reloaded(r.mgr, merge)
        accepted == ChallengeOK(r) /\ MayAdd(d, r)
    IN
    /\ r # None /\ r.kind = "AddKey"
    /\ Take(r) /\ Done(b)
    /\ IF accepted
       THEN /\ Commit(r.mgr, WithKey(d, r), ok)
            /\ registered' = IF ok THEN registered \union {r.key} ELSE registered
            /\ IF ok /\ r.claims.key = None THEN SetAuthToken(b, r.claims.email, r.key)
               ELSE UNCHANGED session
       ELSE /\ ok
            /\ IF ChallengeOK(r) THEN Rollback(r.mgr, d) ELSE ~merge /\ UNCHANGED <<db, file, faults>>
            /\ UNCHANGED <<registered, session>>
    /\ UNCHANGED <<visits, logins, now, current, next, count, token, made, removed, deleted, grants>>

\* The claims of a user are refreshed if the other provider's cookie is for the same.
Refreshed(claims, tok) ==
    IF tok # None /\ tok.email = claims.email THEN tok ELSE claims

\* HandleCallback: the other provider's word is not too old.  An interval of 0 turns the
\* check off.
Recent(claims) == RefreshInterval > 0 => now <= claims.iat + RefreshInterval

\* The handle of an answer, or the one of the user that it names.
HandleIn(d, r) == IF r.login = None THEN made[r.key].uid ELSE d.subjects[r.login]

\* The login of user claims.email, by request r.
Grant(r, claims) ==
    [id |-> r.ch.id, key |-> r.key, email |-> claims.email, live |-> r.key \notin deleted,
     timely |-> r.started <= r.ch.created + ChallengeLife,
     recent |-> (RefreshInterval > 0 => now <= claims.iat + RefreshInterval)]

\* processAssertion under the lock.  It takes the challenge of a registration as well.
FinishCheck(b, merge, ok) ==
    LET r == req[b]
        d == Reloaded(r.mgr, merge)
        h == HandleIn(d, r)
        user == IF h = None THEN None ELSE d.handles[h]
        known == user # None /\ r.key \in user.keys
        claims == Refreshed(user.claims, r.claims)
    IN
    /\ r # None /\ r.kind = "Check"
    /\ Done(b)
    /\ IF ~ChallengeOK(r) THEN ok /\ ~merge /\ UNCHANGED <<challenges, db, file, faults, session, grants>>
       ELSE /\ Take(r)
            /\ IF ~known THEN ok /\ Rollback(r.mgr, d) /\ UNCHANGED <<session, grants>>
               ELSE /\ Commit(r.mgr, [d EXCEPT !.handles[h].claims = claims], ok)
                    /\ IF ok /\ Recent(claims)
                       THEN /\ SetAuthToken(b, claims.email, r.key)
                            /\ grants' = grants \union {Grant(r, claims)}
                       ELSE UNCHANGED <<session, grants>>
    /\ UNCHANGED <<visits, logins, now, current, next, count, token, made, registered, removed, deleted>>

\* deleteKey; the handler answers that it is done also when it failed.
DeleteKey(b, k, merge, ok) ==
    LET s == session[b]
        d == Reloaded(current, merge)
        h == d.subjects[s.email]
    IN
    /\ req[b] = None /\ MayManage(s) /\ k # s.key
    /\ h # None
    /\ Commit(current, [d EXCEPT !.handles[h].keys = @ \ {k}], ok)
    /\ removed' = removed \union ({k} \intersect d.handles[h].keys)
    /\ deleted' = IF ok THEN deleted \union ({k} \intersect d.handles[h].keys) ELSE deleted
    /\ UNCHANGED <<visits, logins, now, challenges, current, next, count, token, session, req, made,
                   registered, grants>>

-----------------------------------------------------------------------------

\* A login with the other provider, and the handler Switch.
ProviderLogin(b, u) ==
    /\ token[b] = None /\ req[b] = None
    /\ logins < MaxLogins /\ logins' = logins + 1
    /\ token' = [token EXCEPT ![b] = [email |-> u, iat |-> now, key |-> None]]
    /\ UNCHANGED <<visits, now, file, db, challenges, current, next, count, session, req, made,
                   registered, removed, deleted, grants, faults>>
Switch(b) ==
    /\ token[b] # None /\ req[b] = None
    /\ token' = [token EXCEPT ![b] = None]
    /\ UNCHANGED <<visits, logins, now, file, db, challenges, current, next, count, session, req, made,
                   registered, removed, deleted, grants, faults>>

Tick ==
    /\ now + Leap <= MaxTime
    /\ now' = now + Leap
    /\ UNCHANGED <<visits, logins, file, db, challenges, current, next, count, token, session, req,
                   made, registered, removed, deleted, grants, faults>>

\* HandleCallback up to the lock, and what it does with the lock.
HandleCallback(b) ==
    \/ OpenLoginPage(b)
    \/ /\ b \in landed
       /\ \/ AssertionOptions(b) \/ AttestationOptions(b, token[b])
          \/ \E k \in Keys, c \in Answerable :
                \/ \E u \in Users \union {None} : StartCheck(b, k, c, u)
                \/ StartAddKey(b, k, c, token[b])
          \/ Switch(b)
Finish(b) == \E merge, ok \in BOOLEAN : FinishAddKey(b, merge, ok) \/ FinishCheck(b, merge, ok)

ManageKeys(b) ==
    \/ MayManage(session[b]) /\ AttestationOptions(b, session[b])
    \/ \E k \in Keys :
        \/ \E c \in Answerable : MayManage(session[b]) /\ StartAddKey(b, k, c, session[b])
        \/ \E merge, ok \in BOOLEAN : DeleteKey(b, k, merge, ok)

Next ==
    \/ \E b \in Browsers :
        \/ RequestLogin(b) \/ HandleCallback(b) \/ ManageKeys(b) \/ Finish(b)
        \/ \E u \in Users : ProviderLogin(b, u)
    \/ Reconfigure \/ Publish
    \/ Tick

Spec == Init /\ [][Next]_vars

-----------------------------------------------------------------------------

\* A session is given to the user who registered the key, however the user was looked up,
\* with a key whose deletion was not saved before, and on a recent word of the other
\* provider; for a challenge that had not expired when the answer came, and that neither
\* another login nor a registration was granted for.
LoginIsSound ==
    \A g \in grants :
        /\ g.email = made[g.key].email
        /\ g.live /\ g.timely /\ g.recent
        /\ \A g2 \in grants : g2.id = g.id => g2 = g
        /\ \A k \in registered : made[k].id # g.id

\* A key whose registration was reported as done is in the file until its deletion is
\* asked for, and its owner can log in with it: it is found under the handle that the
\* authenticator remembers.  Exceptions are users who deleted keys, and options given
\* by a manager that had not heard of the user.
RegistrationIsKept ==
    \A k \in registered \ removed :
        LET u == made[k].email IN
        /\ k \in KeysOf(file, u)
        /\ (~made[k].stale /\ \A j \in removed : made[j].email # u) => file.subjects[u] = made[k].uid
=============================================================================

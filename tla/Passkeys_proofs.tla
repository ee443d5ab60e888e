-------------------------- MODULE Passkeys_proofs --------------------------
(***************************************************************************)
(* Proofs about passkeys, for any users, browsers, keys, lifetimes and     *)
(* bounds.                                                                 *)
(*                                                                         *)
(* The file, and the copies that the managers have of it, may disagree about *)
(* everything but two things, which the inductive invariant names: whom a  *)
(* handle was made for (own), from the options on, and under which handle a *)
(* key was put (home), from the first attempt to save it on.  Neither ever *)
(* changes.  Every copy is therefore Sound for the same own and home, and so *)
(* is every mix of two copies that OpenForUpdate may leave (ReloadedSound). *)
(* What the file has of a user or a handle is kept by every mix, so that a *)
(* write loses only what it means to (Later).                              *)
(***************************************************************************)
EXTENDS Passkeys, TLAPS

\* A copy d of the users, when own says whom a handle is for, home where a key is,
\* mk how it was made and rem which keys a user asked to delete: subjects and
\* handles agree, and a user without keys has deleted one.
Sound(d, own, home, mk, rem) ==
    /\ d \in DB
    /\ \A u \in Users : d.subjects[u] # None =>
          own[d.subjects[u]] = u /\ d.handles[d.subjects[u]] # None
    /\ \A h \in Handles : d.handles[h] # None =>
          /\ own[h] = d.handles[h].claims.email
          /\ d.subjects[own[h]] # None
          /\ d.handles[h].keys = {} => \E j \in rem : mk[j].email = own[h]
          /\ \A k \in d.handles[h].keys : mk[k] # None /\ mk[k].email = own[h] /\ home[k] = h

\* A challenge c given out when n were: a registration has a handle that is for its
\* user; with a passkey session the file f knows the user, under that handle unless
\* the options are stale.
Options(c, own, f, n) ==
    /\ c.id <= n
    /\ c.claims # None =>
          /\ c.uid # None /\ own[c.uid] = c.claims.email
          /\ c.claims.key # None =>
                /\ f.subjects[c.claims.email] # None
                /\ c.stale \/ c.uid = f.subjects[c.claims.email]

\* A request r that is being served, with the challenges chs of its manager: a key
\* that is being added is not under any handle yet, and a challenge that is still
\* there had not expired when the request came.
Answer(r, own, home, mk, f, n, chs) ==
    /\ Options(r.ch, own, f, n)
    /\ r.kind = "Check" => mk[r.key] # None
    /\ r.kind = "AddKey" => r.claims # None
    /\ r.kind = "AddKey" /\ r.ch.claims # None =>
          /\ mk[r.key] # None
          /\ mk[r.key].email = r.ch.claims.email /\ mk[r.key].uid = r.ch.uid
          /\ mk[r.key].id = r.ch.id /\ mk[r.key].stale = r.ch.stale
          /\ home[r.key] = None
    /\ r.ch \in chs => r.started <= r.ch.created + ChallengeLife

\* Handles are given out with challenges; a key is put under a handle after it is
\* made.
Owners(own, home) ==
    /\ \A h \in Handles : h > count => own[h] = None
    /\ \A k \in Keys : home[k] # None => made[k] # None

\* The file and all copies of it are sound.
Stored(own, home) ==
    /\ Sound(file, own, home, made, removed)
    /\ \A m \in Managers : Sound(db[m], own, home, made, removed)

\* The challenges that managers have.
Given(own) ==
    \A m \in Managers : \A c \in challenges[m] : Options(c, own, file, count)

\* Browser b is adding a key, with the options of a registration.
Adding(b) == req[b] # None /\ req[b].kind = "AddKey" /\ req[b].ch.claims # None

\* The requests that are being served.
Asked(own, home) ==
    \A b \in Browsers : req[b] # None =>
        Answer(req[b], own, home, made, file, count, challenges[req[b].mgr])

\* A key is being added by one browser at most.
OneEach == \A b1, b2 \in Browsers : Adding(b1) /\ Adding(b2) /\ req[b1].key = req[b2].key => b1 = b2

\* No two challenges have the same number.
Unique ==
    \A m1, m2 \in Managers : \A c1 \in challenges[m1], c2 \in challenges[m2] :
        c1.id = c2.id => m1 = m2 /\ c1 = c2

\* A cookie of the other provider has no key; the file knows the user of a passkey
\* session.
Sessions ==
    \A b \in Browsers :
        /\ token[b] # None => token[b].key = None
        /\ session[b] # None => file.subjects[session[b].email] # None

\* The logins: LoginIsSound.  Their challenges, and those of the registrations, are gone
\* for good.
Granted ==
    /\ LoginIsSound
    /\ \A g \in grants :
          /\ made[g.key] # None /\ g.id <= count
          /\ \A m \in Managers : \A c \in challenges[m] : c.id # g.id
    /\ \A k \in registered :
          /\ made[k] # None /\ made[k].id <= count
          /\ \A m \in Managers : \A c \in challenges[m] : c.id # made[k].id

\* What was reported: RegistrationIsKept, and a key whose deletion was saved is not
\* under its handle, which stays in the file.
Recorded(home) ==
    /\ RegistrationIsKept
    /\ \A k \in registered \union removed : home[k] # None
    /\ \A k \in deleted : /\ file.handles[home[k]] # None
                          /\ k \notin file.handles[home[k]].keys

\* Managers are made by new configurations, which faults counts.
Numbers == current <= faults /\ (next # None => next <= faults)

\* The part of the inductive invariant that own and home are for.
Ghost(own, home) ==
    Owners(own, home) /\ Stored(own, home) /\ Given(own) /\ Asked(own, home) /\ Recorded(home)

\* The inductive invariant.
IndInv ==
    /\ TypeOK /\ Numbers /\ Unique /\ OneEach /\ Sessions /\ Granted
    /\ \E own \in [Handles -> Users \union {None}], home \in [Keys -> Handles \union {None}] :
          Ghost(own, home)

\* d has all that f has, unchanged.
Extends(f, d) ==
    /\ \A u \in Users : f.subjects[u] # None => d.subjects[u] = f.subjects[u]
    /\ \A h \in Handles : f.handles[h] # None => d.handles[h] = f.handles[h]

\* d has all users and handles that f has, with the same keys but for those lost
\* and added.
Later(f, d, lost, added) ==
    /\ \A u \in Users : f.subjects[u] # None => d.subjects[u] = f.subjects[u]
    /\ \A h \in Handles : f.handles[h] # None =>
          /\ d.handles[h] # None
          /\ f.handles[h].keys \subseteq d.handles[h].keys \union lost
          /\ d.handles[h].keys \subseteq f.handles[h].keys \union added

\* A step that writes x to the copy of manager m and perhaps to the file, and
\* leaves the challenges and requests that it does not end alone.
Moved(own, home, home2, m, x) ==
    /\ \A k \in Keys : home[k] # None => home2[k] = home[k]
    /\ \A k \in Keys : home2[k] # None => made[k] # None
    /\ Sound(x, own, home2, made, removed')
    /\ \A u \in Users : file.subjects[u] # None => x.subjects[u] = file.subjects[u]
    /\ removed \subseteq removed'
    /\ db' = [db EXCEPT ![m] = x] /\ (file' = file \/ file' = x)
    /\ \A n \in Managers : challenges'[n] \subseteq challenges[n]
    /\ \A b \in Browsers : req'[b] = None \/ req'[b] = req[b]
    /\ \A b \in Browsers : req'[b] # None /\ Adding(b) => home2[req[b].key] = home[req[b].key]
    /\ UNCHANGED <<made, count>>

\* The rest of such a step: types, and a new session is for a user that the file
\* knows.
Wrote ==
    /\ removed' \subseteq Keys /\ registered' \subseteq Keys /\ deleted' \subseteq removed'
    /\ faults' \in 0..MaxFaults /\ faults <= faults'
    /\ challenges' \in [Managers -> SUBSET Challenge]
    /\ req' \in [Browsers -> Request \union {None}]
    /\ session' \in [Browsers -> Claims \union {None}]
    /\ \A b \in Browsers : session'[b] # session[b] /\ session'[b] # None =>
          file'.subjects[session'[b].email] # None
    /\ UNCHANGED <<visits, logins, now, current, next, token, made, count>>
    /\ grants' \subseteq Login

\* Challenges and requests may only go.
Shrunk ==
    /\ challenges' \in [Managers -> SUBSET Challenge]
    /\ \A n \in Managers : challenges'[n] \subseteq challenges[n]
    /\ req' \in [Browsers -> Request \union {None}]
    /\ \A b \in Browsers : req'[b] = None \/ req'[b] = req[b]

\* x is d with the key of r, under the handle h: the one that d has for the user,
\* or the one of the options.
Joined(d, x, r, h, own, home, mk, rem) ==
    /\ Sound(x, own, [home EXCEPT ![r.key] = h], mk, rem)
    /\ Later(d, x, {}, {r.key})
    /\ x.subjects[r.claims.email] = h /\ r.key \in KeysOf(x, r.claims.email)
    /\ \/ d.subjects[r.claims.email] = h /\ d.handles[h] # None
       \/ d.subjects[r.claims.email] = None /\ h = r.ch.uid

\* x is d without the key k of handle h; gone has k if it was there.
Cut(d, x, h, k, gone) ==
    /\ x = [d EXCEPT !.handles[h].keys = @ \ {k}]
    /\ gone = {k} \intersect d.handles[h].keys

\* d with other keys under handle h.
KeysSet(d, h, ks) == [d EXCEPT !.handles[h].keys = ks]
\* d with other claims under handle h.
ClaimsSet(d, h, c) == [d EXCEPT !.handles[h].claims = c]
\* d with a new user v under handle h.
UserAdded(d, h, v, u) == [d EXCEPT !.handles[h] = u, !.subjects[v] = h]

\* None is none of the values.
LEMMA NoneIs ==
    /\ \A h \in Handles : h # None /\ h \in Nat
    /\ \A u \in Users : u # None
    /\ \A k \in Keys : k # None
    /\ \A c \in Claims : c # None
    /\ \A u \in User : u # None
BY NoneAssumption, PasskeyAssumption DEF Handles, Challenges

\* The fields of a user.
LEMMA UserFields ==
    \A u \in User : /\ u.claims \in Claims /\ u.claims.email \in Users /\ u.keys \in SUBSET Keys
BY DEF User, Claims

\* What is in the maps.
LEMMA DBFields ==
    ASSUME NEW d \in DB
    PROVE  /\ \A u \in Users : d.subjects[u] # None => d.subjects[u] \in Handles
           /\ \A h \in Handles : d.handles[h] # None =>
                 /\ d.handles[h] \in User /\ d.handles[h].claims \in Claims
                 /\ d.handles[h].claims.email \in Users /\ d.handles[h].keys \in SUBSET Keys
<1>1. \A u \in Users : d.subjects[u] # None => d.subjects[u] \in Handles
  BY DEF DB
<1>2. \A h \in Handles : d.handles[h] # None => d.handles[h] \in User
  BY DEF DB
<1> QED
  BY <1>1, <1>2, UserFields

\* What changes when a user has other keys.
LEMMA SetKeys ==
    ASSUME NEW d \in DB, NEW h \in Handles, d.handles[h] # None, NEW ks \in SUBSET Keys,
           NEW x, x = KeysSet(d, h, ks)
    PROVE  /\ x \in DB /\ x.subjects = d.subjects
           /\ x.handles[h] # None /\ x.handles[h].keys = ks
           /\ x.handles[h].claims = d.handles[h].claims
           /\ \A g \in Handles \ {h} : x.handles[g] = d.handles[g]
<1>1. /\ d.handles \in [Handles -> User \union {None}]
      /\ d.subjects \in [Users -> Handles \union {None}] /\ d.handles[h] \in User
  BY DEF DB
<1>2. /\ x = [d EXCEPT !.handles = [d.handles EXCEPT ![h] = [d.handles[h] EXCEPT !.keys = ks]]]
  BY <1>1 DEF DB, KeysSet
<1> DEFINE u == [d.handles[h] EXCEPT !.keys = ks]
<1>3. u \in User /\ u.keys = ks /\ u.claims = d.handles[h].claims
  BY <1>1 DEF User
<1> HIDE DEF u
<1> DEFINE hs == [d.handles EXCEPT ![h] = u]
<1>4. /\ hs \in [Handles -> User \union {None}] /\ hs[h] = u
      /\ \A g \in Handles \ {h} : hs[g] = d.handles[g]
  BY <1>1, <1>3
<1> HIDE DEF hs
<1>5. x = [d EXCEPT !.handles = hs]
  BY <1>2 DEF hs, u
<1>6. x \in DB /\ x.handles = hs /\ x.subjects = d.subjects
  BY <1>1, <1>4, <1>5 DEF DB
<1> QED
  BY <1>3, <1>4, <1>6, NoneIs

\* What changes when a user has other claims.
LEMMA SetClaims ==
    ASSUME NEW d \in DB, NEW h \in Handles, d.handles[h] # None, NEW c \in Claims,
           NEW x, x = ClaimsSet(d, h, c)
    PROVE  /\ x \in DB /\ x.subjects = d.subjects
           /\ x.handles[h] # None /\ x.handles[h].keys = d.handles[h].keys
           /\ x.handles[h].claims = c
           /\ \A g \in Handles \ {h} : x.handles[g] = d.handles[g]
<1>1. /\ d.handles \in [Handles -> User \union {None}]
      /\ d.subjects \in [Users -> Handles \union {None}] /\ d.handles[h] \in User
  BY DEF DB
<1>2. /\ x = [d EXCEPT !.handles = [d.handles EXCEPT ![h] = [d.handles[h] EXCEPT !.claims = c]]]
  BY <1>1 DEF DB, ClaimsSet
<1> DEFINE u == [d.handles[h] EXCEPT !.claims = c]
<1>3. u \in User /\ u.claims = c /\ u.keys = d.handles[h].keys
  BY <1>1 DEF User
<1> HIDE DEF u
<1> DEFINE hs == [d.handles EXCEPT ![h] = u]
<1>4. /\ hs \in [Handles -> User \union {None}] /\ hs[h] = u
      /\ \A g \in Handles \ {h} : hs[g] = d.handles[g]
  BY <1>1, <1>3
<1> HIDE DEF hs
<1>5. x = [d EXCEPT !.handles = hs]
  BY <1>2 DEF hs, u
<1>6. x \in DB /\ x.handles = hs /\ x.subjects = d.subjects
  BY <1>1, <1>4, <1>5 DEF DB
<1> QED
  BY <1>3, <1>4, <1>6, NoneIs

\* What changes when a user is added.
LEMMA AddUser ==
    ASSUME NEW d \in DB, NEW h \in Handles, NEW v \in Users, NEW u \in User,
           NEW x, x = UserAdded(d, h, v, u)
    PROVE  /\ x \in DB /\ x.handles[h] = u /\ x.subjects[v] = h
           /\ \A g \in Handles \ {h} : x.handles[g] = d.handles[g]
           /\ \A w \in Users \ {v} : x.subjects[w] = d.subjects[w]
<1>1. /\ d.handles \in [Handles -> User \union {None}]
      /\ d.subjects \in [Users -> Handles \union {None}]
  BY DEF DB
<1> DEFINE hs == [d.handles EXCEPT ![h] = u]
           ss == [d.subjects EXCEPT ![v] = h]
<1>2. /\ hs \in [Handles -> User \union {None}] /\ hs[h] = u
      /\ \A g \in Handles \ {h} : hs[g] = d.handles[g]
  BY <1>1
<1>3. /\ ss \in [Users -> Handles \union {None}] /\ ss[v] = h
      /\ \A w \in Users \ {v} : ss[w] = d.subjects[w]
  BY <1>1
<1>4. x = [d EXCEPT !.handles = hs, !.subjects = ss]
  BY <1>1 DEF DB, UserAdded
<1> HIDE DEF hs, ss
<1>5. x \in DB /\ x.handles = hs /\ x.subjects = ss
  BY <1>1, <1>2, <1>3, <1>4 DEF DB
<1> QED
  BY <1>2, <1>3, <1>5

\* What a sound copy says, with the types.
LEMMA SoundParts ==
    ASSUME NEW d, NEW own, NEW home, NEW mk, NEW rem, Sound(d, own, home, mk, rem)
    PROVE  /\ d \in DB
           /\ \A u \in Users : d.subjects[u] # None =>
                 /\ d.subjects[u] \in Handles /\ own[d.subjects[u]] = u
                 /\ d.handles[d.subjects[u]] # None
           /\ \A h \in Handles : d.handles[h] # None =>
                 /\ own[h] = d.handles[h].claims.email /\ own[h] \in Users
                 /\ d.subjects[own[h]] # None /\ d.handles[h].keys \in SUBSET Keys
                 /\ d.handles[h].keys = {} => \E j \in rem : mk[j].email = own[h]
                 /\ \A k \in d.handles[h].keys : mk[k] # None /\ mk[k].email = own[h] /\ home[k] = h
<1>1. d \in DB
  BY DEF Sound
<1> QED
  BY <1>1, DBFields DEF Sound

\* A copy stays sound when handles are given out, keys are made or put under a
\* handle, and deletions are asked for.
LEMMA SoundGrows ==
    ASSUME NEW d, NEW own, NEW home, NEW mk, NEW rem, Sound(d, own, home, mk, rem),
           NEW own2, NEW home2, NEW mk2, NEW rem2,
           \A h \in Handles : own[h] # None => own2[h] = own[h],
           \A k \in Keys : home[k] # None => home2[k] = home[k],
           \A k \in Keys : mk[k] # None => mk2[k] = mk[k],
           rem \subseteq Keys, \A k \in rem : mk[k] # None, rem \subseteq rem2
    PROVE  Sound(d, own2, home2, mk2, rem2)
<1>1. /\ d \in DB
      /\ \A u \in Users : d.subjects[u] # None =>
            /\ d.subjects[u] \in Handles /\ own[d.subjects[u]] = u
            /\ d.handles[d.subjects[u]] # None
      /\ \A h \in Handles : d.handles[h] # None =>
            /\ own[h] = d.handles[h].claims.email /\ own[h] \in Users
            /\ d.subjects[own[h]] # None /\ d.handles[h].keys \in SUBSET Keys
            /\ d.handles[h].keys = {} => \E j \in rem : mk[j].email = own[h]
            /\ \A k \in d.handles[h].keys : mk[k] # None /\ mk[k].email = own[h] /\ home[k] = h
  BY SoundParts
<1>2. \A u \in Users : d.subjects[u] # None =>
            own2[d.subjects[u]] = u /\ d.handles[d.subjects[u]] # None
  BY <1>1, NoneIs
<1>3. ASSUME NEW h \in Handles, d.handles[h] # None
      PROVE  /\ own2[h] = d.handles[h].claims.email
             /\ d.subjects[own2[h]] # None
             /\ d.handles[h].keys = {} => \E j \in rem2 : mk2[j].email = own2[h]
             /\ \A k \in d.handles[h].keys :
                   mk2[k] # None /\ mk2[k].email = own2[h] /\ home2[k] = h
  <2>1. own2[h] = own[h]
    BY <1>1, <1>3, NoneIs
  <2>2. ASSUME d.handles[h].keys = {} PROVE \E j \in rem2 : mk2[j].email = own2[h]
    <3>1. PICK j \in rem : mk[j].email = own[h]
      BY <1>1, <1>3, <2>2
    <3>2. j \in Keys /\ j \in rem2 /\ mk2[j] = mk[j]
      OBVIOUS
    <3> QED
      BY <2>1, <3>1, <3>2
  <2>3. ASSUME NEW k \in d.handles[h].keys
        PROVE  mk2[k] # None /\ mk2[k].email = own2[h] /\ home2[k] = h
    <3>1. k \in Keys /\ mk[k] # None /\ mk[k].email = own[h] /\ home[k] = h
      BY <1>1, <1>3
    <3> QED
      BY <2>1, <3>1, NoneIs
  <2> QED
    BY <1>1, <1>3, <2>1, <2>2, <2>3
<1> QED
  BY <1>1, <1>2, <1>3 DEF Sound

\* What OpenForUpdate reads is sound and has all that the file has, whether or not
\* the decoder leaves what was in the maps.
LEMMA ReloadedSound ==
    ASSUME NEW m \in Managers, NEW merge \in BOOLEAN, NEW own, NEW home, NEW mk, NEW rem,
           Sound(file, own, home, mk, rem), Sound(db[m], own, home, mk, rem),
           NEW d, d = Reloaded(m, merge)
    PROVE  Sound(d, own, home, mk, rem) /\ Extends(file, d)
<1>1. CASE ~merge
  <2>1. d = file
    BY <1>1 DEF Reloaded
  <2> QED
    BY <2>1 DEF Extends
<1>2. CASE merge
  <2>1. PICK e : e = db[m]
    OBVIOUS
  <2>2. d = [handles |-> [h \in Handles |-> IF file.handles[h] # None THEN file.handles[h]
                                            ELSE e.handles[h]],
             subjects |-> [u \in Users |-> IF file.subjects[u] # None THEN file.subjects[u]
                                           ELSE e.subjects[u]]]
    BY <1>2, <2>1 DEF Reloaded
  <2>3. \A h \in Handles : d.handles[h] = IF file.handles[h] # None THEN file.handles[h]
                                          ELSE e.handles[h]
    BY <2>2
  <2>4. \A u \in Users : d.subjects[u] = IF file.subjects[u] # None THEN file.subjects[u]
                                         ELSE e.subjects[u]
    BY <2>2
  <2>5. file \in DB /\ e \in DB
    BY <2>1 DEF Sound
  <2>6. d \in DB
    <3>1. d.handles \in [Handles -> User \union {None}]
      BY <2>2, <2>3, <2>5 DEF DB
    <3>2. d.subjects \in [Users -> Handles \union {None}]
      BY <2>2, <2>4, <2>5 DEF DB
    <3> QED
      BY <2>2, <3>1, <3>2 DEF DB
  <2>7. Extends(file, d)
    BY <2>3, <2>4 DEF Extends
  <2>8. ASSUME NEW u \in Users, d.subjects[u] # None
        PROVE  own[d.subjects[u]] = u /\ d.handles[d.subjects[u]] # None
    <3>1. CASE file.subjects[u] # None
      BY <2>3, <2>4, <3>1, SoundParts
    <3>2. CASE file.subjects[u] = None
      <4>1. d.subjects[u] = e.subjects[u] /\ e.subjects[u] # None
        BY <2>4, <2>8, <3>2
      <4>2. e.subjects[u] \in Handles /\ own[e.subjects[u]] = u /\ e.handles[e.subjects[u]] # None
        BY <2>1, <4>1, SoundParts
      <4> QED
        BY <2>3, <4>1, <4>2
    <3> QED
      BY <3>1, <3>2
  <2>9. ASSUME NEW h \in Handles, d.handles[h] # None
        PROVE  /\ own[h] = d.handles[h].claims.email
               /\ d.subjects[own[h]] # None
               /\ d.handles[h].keys = {} => \E j \in rem : mk[j].email = own[h]
               /\ \A k \in d.handles[h].keys : mk[k] # None /\ mk[k].email = own[h] /\ home[k] = h
    <3>1. CASE file.handles[h] # None
      <4>1. d.handles[h] = file.handles[h]
        BY <2>3, <3>1
      <4>2. /\ own[h] = file.handles[h].claims.email /\ own[h] \in Users
            /\ file.subjects[own[h]] # None
            /\ file.handles[h].keys = {} => \E j \in rem : mk[j].email = own[h]
            /\ \A k \in file.handles[h].keys :
                  mk[k] # None /\ mk[k].email = own[h] /\ home[k] = h
        BY <3>1, SoundParts
      <4> QED
        BY <2>4, <4>1, <4>2
    <3>2. CASE file.handles[h] = None
      <4>1. d.handles[h] = e.handles[h] /\ e.handles[h] # None
        BY <2>3, <2>9, <3>2
      <4>2. /\ own[h] = e.handles[h].claims.email /\ own[h] \in Users
            /\ e.subjects[own[h]] # None
            /\ e.handles[h].keys = {} => \E j \in rem : mk[j].email = own[h]
            /\ \A k \in e.handles[h].keys :
                  mk[k] # None /\ mk[k].email = own[h] /\ home[k] = h
        BY <2>1, <4>1, SoundParts
      <4> QED
        BY <2>4, <4>1, <4>2
    <3> QED
      BY <3>1, <3>2
  <2> QED
    BY <2>6, <2>7, <2>8, <2>9 DEF Sound
<1> QED
  BY <1>1, <1>2

\* Options stay as they are when handles and challenges are given out and the file
\* gets users.
LEMMA OptionsMono ==
    ASSUME NEW c \in Challenge, NEW own, NEW own2, NEW f, NEW f2, NEW n \in Nat, NEW n2 \in Nat,
           Options(c, own, f, n), n <= n2,
           \A h \in Handles : own[h] # None => own2[h] = own[h],
           \A u \in Users : f.subjects[u] # None => f2.subjects[u] = f.subjects[u]
    PROVE  Options(c, own2, f2, n2)
<1>1. c.id \in Nat /\ c.id <= n
  BY PasskeyAssumption DEF Options, Challenge, Challenges
<1>2. c.id <= n2
  BY <1>1
<1>3. ASSUME c.claims # None
      PROVE  /\ c.uid # None /\ own2[c.uid] = c.claims.email
             /\ c.claims.key # None =>
                   /\ f2.subjects[c.claims.email] # None
                   /\ c.stale \/ c.uid = f2.subjects[c.claims.email]
  <2>1. c.claims.email \in Users /\ c.uid # None /\ c.uid \in Handles
    BY <1>3 DEF Challenge, Claims, Options
  <2>2. own[c.uid] = c.claims.email
    BY <1>3 DEF Options
  <2>3. own2[c.uid] = c.claims.email
    BY <2>1, <2>2, NoneIs
  <2> QED
    BY <1>3, <2>1, <2>3 DEF Options
<1> QED
  BY <1>2, <1>3 DEF Options

\* So do requests, when keys are made too and challenges go.
LEMMA AnswerMono ==
    ASSUME NEW r \in Request, NEW own, NEW own2, NEW home, NEW home2, NEW mk, NEW mk2, NEW f, NEW f2,
           NEW n \in Nat, NEW n2 \in Nat, NEW chs, NEW chs2,
           Answer(r, own, home, mk, f, n, chs), n <= n2,
           \A h \in Handles : own[h] # None => own2[h] = own[h],
           \A u \in Users : f.subjects[u] # None => f2.subjects[u] = f.subjects[u],
           \A k \in Keys : mk[k] # None => mk2[k] = mk[k],
           r.kind = "AddKey" /\ r.ch.claims # None => home2[r.key] = home[r.key],
           r.ch \in chs2 => r.ch \in chs
    PROVE  Answer(r, own2, home2, mk2, f2, n2, chs2)
<1>1. r.ch \in Challenge /\ r.key \in Keys
  BY DEF Request
<1>2. Options(r.ch, own2, f2, n2)
  <2>1. PICK c \in Challenge : c = r.ch
    BY <1>1
  <2>2. Options(c, own, f, n)
    BY <2>1 DEF Answer
  <2>3. Options(c, own2, f2, n2)
    BY <2>2, OptionsMono
  <2> QED
    BY <2>1, <2>3
<1>3. mk[r.key] # None => mk2[r.key] = mk[r.key]
  BY <1>1
<1> QED
  BY <1>2, <1>3 DEF Answer

\* What was reported stays true when nothing that it is about changes.
LEMMA RecordedSame ==
    ASSUME NEW home, Recorded(home), UNCHANGED <<file, made, registered, removed, deleted>>
    PROVE  Recorded(home)'
<1>1. RegistrationIsKept'
  BY DEF Recorded, RegistrationIsKept, KeysOf
<1> QED
  BY <1>1 DEF Recorded

\* Steps that change neither users nor challenges nor requests.
LEMMA Same ==
    ASSUME IndInv, TypeOK', Numbers', Sessions',
           UNCHANGED <<file, db, challenges, count, req, made, registered, removed, deleted,
                       grants>>
    PROVE  IndInv'
<1>1. PICK own \in [Handles -> Users \union {None}], home \in [Keys -> Handles \union {None}] :
          Ghost(own, home)
  BY DEF IndInv
<1>2. Ghost(own, home)'
  <2>1. Owners(own, home)'
    BY <1>1 DEF Ghost, Owners
  <2>2. Stored(own, home)'
    BY <1>1 DEF Ghost, Stored
  <2>3. Given(own)'
    BY <1>1 DEF Ghost, Given
  <2>4. Asked(own, home)'
    BY <1>1 DEF Ghost, Asked
  <2>5. Recorded(home)'
    BY <1>1, RecordedSame DEF Ghost
  <2> QED
    BY <2>1, <2>2, <2>3, <2>4, <2>5 DEF Ghost
<1>3. Unique' /\ OneEach' /\ Granted'
  BY DEF IndInv, Unique, OneEach, Adding, Granted, LoginIsSound
<1> QED
  BY <1>2, <1>3 DEF IndInv

\* The initial states.
LEMMA InitHolds == Init => IndInv
<1> SUFFICES ASSUME Init PROVE IndInv
  OBVIOUS
<1> DEFINE own == [h \in Handles |-> None]
           home == [k \in Keys |-> None]
<1>1. /\ file \in DB /\ \A m \in Managers : db[m] = file
      /\ \A u \in Users : file.subjects[u] = None
      /\ \A h \in Handles : file.handles[h] = None
  BY DEF Init, DB
<1>2. TypeOK
  <2>1. db \in [Managers -> DB] /\ challenges \in [Managers -> SUBSET Challenge]
    BY <1>1 DEF Init
  <2>2. 0 \in Managers /\ now \in 0..MaxTime /\ faults \in 0..MaxFaults /\ count \in 0..MaxChallenges
        /\ logins \in 0..MaxLogins
    BY PasskeyAssumption DEF Init, Managers
  <2> QED
    BY <1>1, <2>1, <2>2 DEF Init, TypeOK
<1>3. Numbers /\ Unique /\ OneEach /\ Sessions /\ Granted
  BY DEF Init, Numbers, Unique, OneEach, Adding, Sessions, Granted, LoginIsSound
<1>4. Sound(file, own, home, made, removed)
  BY <1>1 DEF Sound
<1>5. Ghost(own, home)
  BY <1>1, <1>4 DEF Init, Ghost, Owners, Stored, Given, Asked, Recorded, RegistrationIsKept
<1> QED
  BY <1>2, <1>3, <1>5 DEF IndInv

\* RequestLogin, OpenLoginPage, Switch, ProviderLogin, Publish and Tick.
LEMMA Plain ==
    ASSUME IndInv,
           \/ \E b \in Browsers : \/ RequestLogin(b) \/ OpenLoginPage(b) \/ Switch(b)
                                  \/ \E u \in Users : ProviderLogin(b, u)
           \/ Publish \/ Tick
    PROVE  IndInv'
<1>0. TypeOK /\ Numbers /\ Sessions
  BY DEF IndInv
<1>1. UNCHANGED <<file, db, challenges, count, req, made, registered, removed, deleted, grants,
                  session, faults>>
  BY DEF RequestLogin, OpenLoginPage, Switch, ProviderLogin, Publish, Tick
<1>2. /\ now' \in 0..MaxTime /\ logins' \in 0..MaxLogins
  BY <1>0, PasskeyAssumption DEF TypeOK, RequestLogin, OpenLoginPage, Switch, ProviderLogin, Publish, Tick
<1>3. current' \in Managers /\ next' \in Managers \union {None} /\ Numbers'
  BY <1>0, <1>1 DEF TypeOK, Numbers, RequestLogin, OpenLoginPage, Switch, ProviderLogin, Publish, Tick
<1>4. now \in Nat
  BY <1>0, PasskeyAssumption DEF TypeOK
<1>5. nonce' \in [Browsers -> [mgr : Managers, created : Nat] \union {None}] /\ landed' \subseteq Browsers
  <2>1. ASSUME NEW b \in Browsers, RequestLogin(b)
        PROVE  nonce' \in [Browsers -> [mgr : Managers, created : Nat] \union {None}]
    <3>1. PICK c : c = [mgr |-> current, created |-> now]
      OBVIOUS
    <3>2. c \in [mgr : Managers, created : Nat]
      BY <1>0, <1>4, <3>1 DEF TypeOK
    <3>3. nonce' = [nonce EXCEPT ![b] = c]
      BY <2>1, <3>1 DEF RequestLogin
    <3> QED
      BY <1>0, <3>2, <3>3 DEF TypeOK
  <2>2. ASSUME NEW b \in Browsers, OpenLoginPage(b)
        PROVE  nonce' \in [Browsers -> [mgr : Managers, created : Nat] \union {None}]
    BY <1>0, <2>2 DEF OpenLoginPage, TypeOK
  <2>3. ASSUME nonce' = nonce
        PROVE  nonce' \in [Browsers -> [mgr : Managers, created : Nat] \union {None}]
    BY <1>0, <2>3 DEF TypeOK
  <2>4. landed' \subseteq Browsers
    BY <1>0 DEF TypeOK, RequestLogin, OpenLoginPage, Switch, ProviderLogin, Publish, Tick, visits
  <2> QED
    BY <2>1, <2>2, <2>3, <2>4 DEF Switch, ProviderLogin, Publish, Tick, visits
<1>6. /\ token' \in [Browsers -> Claims \union {None}]
      /\ \A b \in Browsers : token'[b] # None => token'[b].key = None
  <2>1. ASSUME NEW b \in Browsers, NEW u \in Users, ProviderLogin(b, u)
        PROVE  /\ token' \in [Browsers -> Claims \union {None}]
               /\ \A bb \in Browsers : token'[bb] # None => token'[bb].key = None
    <3>1. PICK c : c = [email |-> u, iat |-> now, key |-> None]
      OBVIOUS
    <3>2. c \in Claims /\ c.key = None
      BY <1>4, <3>1 DEF Claims
    <3>3. token' = [token EXCEPT ![b] = c]
      BY <2>1, <3>1 DEF ProviderLogin
    <3> QED
      BY <1>0, <3>2, <3>3 DEF TypeOK, Sessions
  <2>2. ASSUME NEW b \in Browsers, Switch(b)
        PROVE  /\ token' \in [Browsers -> Claims \union {None}]
               /\ \A bb \in Browsers : token'[bb] # None => token'[bb].key = None
    BY <1>0, <2>2 DEF Switch, TypeOK, Sessions
  <2>3. ASSUME token' = token
        PROVE  /\ token' \in [Browsers -> Claims \union {None}]
               /\ \A bb \in Browsers : token'[bb] # None => token'[bb].key = None
    BY <1>0, <2>3 DEF TypeOK, Sessions
  <2> QED
    BY <2>1, <2>2, <2>3 DEF RequestLogin, OpenLoginPage, Publish, Tick
<1>7. TypeOK'
  BY <1>0, <1>1, <1>2, <1>3, <1>5, <1>6 DEF TypeOK
<1>8. Sessions'
  BY <1>0, <1>1, <1>6 DEF Sessions
<1> QED
  BY <1>1, <1>3, <1>7, <1>8, Same

\* Types of what the steps look at.
LEMMA Ids ==
    ASSUME TypeOK
    PROVE  /\ now \in Nat /\ count \in Nat /\ MaxChallenges \in Nat
           /\ \A c \in Challenge : c.id \in Nat /\ c.id \in Challenges /\ c # None /\ c.created \in Nat
           /\ \A m \in Managers : \A c \in challenges[m] : c \in Challenge
           /\ \A b \in Browsers : req[b] # None => req[b] \in Request
           /\ \A r \in Request : /\ r.ch \in Challenge /\ r.key \in Keys /\ r.mgr \in Managers
                                 /\ r # None /\ r.started \in Nat
           /\ \A g \in grants : g \in Login /\ g.id \in Nat /\ g.key \in Keys
           /\ \A k \in Keys : made[k] # None => made[k] \in Made /\ made[k].id \in Nat
<1>1. now \in Nat /\ count \in Nat /\ MaxChallenges \in Nat
  BY PasskeyAssumption DEF TypeOK
<1>2. \A c \in Challenge : c.id \in Nat /\ c.id \in Challenges /\ c # None /\ c.created \in Nat
  BY NoneAssumption, PasskeyAssumption DEF Challenge, Challenges
<1>3. \A m \in Managers : \A c \in challenges[m] : c \in Challenge
  BY DEF TypeOK
<1>4. \A b \in Browsers : req[b] # None => req[b] \in Request
  BY DEF TypeOK
<1>5. \A r \in Request : /\ r.ch \in Challenge /\ r.key \in Keys /\ r.mgr \in Managers
                         /\ r # None /\ r.started \in Nat
  BY NoneAssumption DEF Request
<1>6. \A g \in grants : g \in Login /\ g.id \in Nat /\ g.key \in Keys
  BY PasskeyAssumption DEF TypeOK, Login, Challenges
<1>7. \A k \in Keys : made[k] # None => made[k] \in Made /\ made[k].id \in Nat
  BY PasskeyAssumption DEF TypeOK, Made, Challenges
<1> QED
  BY <1>1, <1>2, <1>3, <1>4, <1>5, <1>6, <1>7

\* NewManager copies the file.
LEMMA ReconfigureStep == IndInv /\ Reconfigure => IndInv'
<1> SUFFICES ASSUME IndInv, Reconfigure PROVE IndInv'
  OBVIOUS
<1>1. PICK own \in [Handles -> Users \union {None}], home \in [Keys -> Handles \union {None}] :
          Ghost(own, home)
  BY DEF IndInv
<1>2. TypeOK /\ Numbers
  BY DEF IndInv
<1>3. /\ UNCHANGED <<visits, logins, now, file, challenges, current, count, token, session, req, made,
                     registered, removed, deleted, grants>>
      /\ faults < MaxFaults /\ faults' = faults + 1 /\ next' = current + 1
      /\ db' = [db EXCEPT ![current + 1] = file]
  BY DEF Reconfigure, NewManager
<1>4. /\ current + 1 \in Managers /\ faults' \in 0..MaxFaults /\ Numbers'
  BY <1>2, <1>3, PasskeyAssumption DEF TypeOK, Numbers, Managers
<1>5. \A m \in Managers : db'[m] = db[m] \/ db'[m] = file
  BY <1>2, <1>3 DEF TypeOK
<1>6. db' \in [Managers -> DB]
  BY <1>2, <1>3 DEF TypeOK
<1>7. TypeOK'
  BY <1>2, <1>3, <1>4, <1>6 DEF TypeOK, visits
<1>8. Ghost(own, home)'
  <2>1. Owners(own, home)'
    BY <1>1, <1>3 DEF Ghost, Owners
  <2>2. Stored(own, home)'
    <3>1. Sound(file, own, home, made, removed)
          /\ \A m \in Managers : Sound(db[m], own, home, made, removed)
      BY <1>1 DEF Ghost, Stored
    <3>2. \A m \in Managers : Sound(db'[m], own, home, made, removed)
      BY <1>5, <3>1
    <3> QED
      BY <1>3, <3>1, <3>2 DEF Stored
  <2>3. Given(own)'
    BY <1>1, <1>3 DEF Ghost, Given
  <2>4. Asked(own, home)'
    BY <1>1, <1>3 DEF Ghost, Asked
  <2>5. Recorded(home)'
    BY <1>1, <1>3, RecordedSame DEF Ghost
  <2> QED
    BY <2>1, <2>2, <2>3, <2>4, <2>5 DEF Ghost
<1>9. Unique' /\ OneEach' /\ Granted' /\ Sessions'
  BY <1>3 DEF IndInv, Unique, OneEach, Adding, Granted, LoginIsSound, Sessions
<1> QED
  BY <1>4, <1>7, <1>8, <1>9 DEF IndInv

\* A registered key, and one to delete, was made.
LEMMA MadeIs ==
    ASSUME NEW own, NEW home, Ghost(own, home), TypeOK
    PROVE  \A k \in registered \union removed : k \in Keys /\ home[k] # None /\ made[k] # None
BY DEF Ghost, Recorded, Owners, TypeOK

\* A new challenge has a new number; handles may be given out with it.
LEMMA GiveOutStep ==
    ASSUME IndInv, NEW c \in Challenge, GiveOut(c), c.id = count + 1,
           NEW own \in [Handles -> Users \union {None}], NEW home \in [Keys -> Handles \union {None}],
           Ghost(own, home),
           NEW own2 \in [Handles -> Users \union {None}],
           \A h \in Handles : own[h] # None => own2[h] = own[h],
           \A h \in Handles : h > count + 1 => own2[h] = None,
           Options(c, own2, file, count + 1)
    PROVE  IndInv'
<1>1. TypeOK /\ Numbers /\ Unique /\ Sessions /\ Granted /\ OneEach
  BY DEF IndInv
<1>2. /\ UNCHANGED <<visits, logins, now, file, db, current, next, token, session, req, made, registered,
                     removed, deleted, grants, faults>>
      /\ count' = count + 1
      /\ challenges' = [challenges EXCEPT ![current] = Vacuumed(@) \union {c}]
  BY DEF GiveOut
<1>3. current \in Managers /\ c.id \in Challenges /\ count \in Nat /\ count + 1 \in 0..MaxChallenges
      /\ count + 1 \in Nat /\ count <= count + 1
  BY <1>1, Ids DEF TypeOK, Challenges
<1>4. \A m \in Managers : \A x \in challenges'[m] : (m = current /\ x = c) \/ x \in challenges[m]
  BY <1>1, <1>2 DEF TypeOK, Vacuumed
<1>5. \A m \in Managers : challenges'[m] \subseteq Challenge
  BY <1>1, <1>4, Ids
<1>6. challenges' \in [Managers -> SUBSET Challenge]
  BY <1>1, <1>2, <1>5 DEF TypeOK
<1>9. TypeOK'
  BY <1>1, <1>2, <1>3, <1>6 DEF TypeOK, visits
<1>10. \A m \in Managers : \A x \in challenges[m] : Options(x, own, file, count) /\ x.id <= count
  BY DEF Ghost, Given, Options
<1>11. Unique'
  <2> SUFFICES ASSUME NEW m1 \in Managers, NEW m2 \in Managers,
                      NEW c1 \in challenges'[m1], NEW c2 \in challenges'[m2], c1.id = c2.id
               PROVE  m1 = m2 /\ c1 = c2
    BY DEF Unique
  <2>1. CASE c1 \in challenges[m1] /\ c2 \in challenges[m2]
    BY <1>1, <2>1 DEF Unique
  <2>2. CASE c1 \in challenges[m1] /\ m2 = current /\ c2 = c
    <3>1. c1.id <= count /\ c1.id = count + 1
      BY <1>10, <2>2
    <3> QED
      BY <3>1, <1>3
  <2>3. CASE c2 \in challenges[m2] /\ m1 = current /\ c1 = c
    <3>1. c2.id <= count /\ c2.id = count + 1
      BY <1>10, <2>3
    <3> QED
      BY <3>1, <1>3
  <2> QED
    BY <1>4, <2>1, <2>2, <2>3
<1>12. Granted'
  <2>1. LoginIsSound'
    BY <1>1, <1>2 DEF Granted, LoginIsSound
  <2>2. ASSUME NEW n \in Nat, n <= count, \A m \in Managers : \A x \in challenges[m] : x.id # n
        PROVE  n <= count + 1 /\ \A m \in Managers : \A x \in challenges'[m] : x.id # n
    <3>1. n <= count + 1 /\ n # count + 1
      BY <1>3, <2>2
    <3> QED
      BY <1>4, <2>2, <3>1
  <2>3. ASSUME NEW g \in grants
        PROVE  /\ made[g.key] # None /\ g.id <= count + 1
               /\ \A m \in Managers : \A x \in challenges'[m] : x.id # g.id
    <3>1. PICK n \in Nat : n = g.id
      BY <1>1, Ids
    <3> QED
      BY <1>1, <2>2, <3>1 DEF Granted
  <2>4. ASSUME NEW k \in registered
        PROVE  /\ made[k] # None /\ made[k].id <= count + 1
               /\ \A m \in Managers : \A x \in challenges'[m] : x.id # made[k].id
    <3>1. PICK n \in Nat : n = made[k].id
      BY <1>1, Ids DEF Granted, TypeOK
    <3> QED
      BY <1>1, <2>2, <3>1 DEF Granted
  <2> QED
    BY <1>2, <2>1, <2>3, <2>4 DEF Granted
<1>13. Numbers' /\ OneEach' /\ Sessions'
  BY <1>1, <1>2 DEF Numbers, OneEach, Adding, Sessions
<1>14. Ghost(own2, home)'
  <2>1. Owners(own2, home)'
    BY <1>2 DEF Ghost, Owners
  <2>2. Stored(own2, home)'
    <3>1. removed \subseteq Keys /\ \A k \in removed : made[k] # None
      BY <1>1, MadeIs DEF TypeOK
    <3>2. /\ Sound(file, own2, home, made, removed)
      BY <3>1, SoundGrows DEF Ghost, Stored
    <3>3. ASSUME NEW m \in Managers PROVE Sound(db[m], own2, home, made, removed)
      <4>1. PICK d : d = db[m]
        OBVIOUS
      <4>2. Sound(d, own, home, made, removed)
        BY <4>1 DEF Ghost, Stored
      <4>3. Sound(d, own2, home, made, removed)
        BY <3>1, <4>2, SoundGrows
      <4> QED
        BY <4>1, <4>3
    <3> QED
      BY <1>2, <3>2, <3>3 DEF Stored
  <2>3. Given(own2)'
    <3>1. ASSUME NEW x \in Challenge, Options(x, own, file, count)
          PROVE  Options(x, own2, file, count + 1)
      BY <1>3, <3>1, OptionsMono
    <3>2. ASSUME NEW m \in Managers, NEW x \in challenges'[m]
          PROVE  Options(x, own2, file, count + 1)
      BY <1>1, <1>4, <1>10, <3>1, Ids
    <3> QED
      BY <1>2, <3>2 DEF Given
  <2>4. Asked(own2, home)'
    <3>1. ASSUME NEW x \in Browsers, req[x] # None
          PROVE  Answer(req[x], own2, home, made, file, count + 1, challenges'[req[x].mgr])
      <4>1. PICK r : r = req[x]
        OBVIOUS
      <4>2. r \in Request /\ r.mgr \in Managers /\ r.ch.id \in Nat
        BY <1>1, <3>1, <4>1, Ids
      <4>3. Answer(r, own, home, made, file, count, challenges[r.mgr])
        BY <3>1, <4>1 DEF Ghost, Asked
      <4>4. r.ch.id <= count
        BY <4>3 DEF Answer, Options
      <4>5. r.ch.id # count + 1
        BY <1>3, <4>2, <4>4
      <4>6. r.ch \in challenges'[r.mgr] => r.ch \in challenges[r.mgr]
        BY <1>4, <4>2, <4>5
      <4>7. PICK cs, cs2 : cs = challenges[r.mgr] /\ cs2 = challenges'[r.mgr]
        OBVIOUS
      <4>8. PICK n \in Nat, n2 \in Nat : n = count /\ n2 = count + 1 /\ n <= n2
        BY <1>3
      <4>9. Answer(r, own, home, made, file, n, cs) /\ (r.ch \in cs2 => r.ch \in cs)
        BY <4>3, <4>6, <4>7, <4>8
      <4>10. Answer(r, own2, home, made, file, n2, cs2)
        BY <4>2, <4>8, <4>9, AnswerMono
      <4> QED
        BY <4>1, <4>7, <4>8, <4>10
    <3> QED
      BY <1>2, <3>1 DEF Asked
  <2>5. Recorded(home)'
    BY <1>2, RecordedSame DEF Ghost
  <2> QED
    BY <2>1, <2>2, <2>3, <2>4, <2>5 DEF Ghost
<1> QED
  BY <1>9, <1>11, <1>12, <1>13, <1>14 DEF IndInv

\* assertionOptions gives out no handle.
LEMMA AssertionOptionsStep ==
    ASSUME IndInv, NEW b \in Browsers, AssertionOptions(b)
    PROVE  IndInv'
<1>1. PICK own \in [Handles -> Users \union {None}], home \in [Keys -> Handles \union {None}] :
          Ghost(own, home)
  BY DEF IndInv
<1>2. PICK c : c = [id |-> count + 1, to |-> b, created |-> now, claims |-> None, uid |-> None, stale |-> FALSE]
  OBVIOUS
<1>3. GiveOut(c) /\ count < MaxChallenges
  BY <1>2 DEF AssertionOptions
<1>4. count \in Nat /\ now \in Nat /\ MaxChallenges \in Nat
  BY Ids DEF IndInv
<1>5. count + 1 \in Challenges
  BY <1>3, <1>4 DEF Challenges
<1>6. c \in Challenge /\ c.id = count + 1 /\ c.claims = None
  BY <1>2, <1>4, <1>5 DEF Challenge
<1>7. Options(c, own, file, count + 1)
  BY <1>4, <1>6 DEF Options
<1>8. \A h \in Handles : h > count + 1 => own[h] = None
  BY <1>1, <1>4, NoneIs DEF Ghost, Owners
<1> QED
  BY <1>1, <1>3, <1>6, <1>7, <1>8, GiveOutStep

\* attestationOptions finds a handle that is for the user, or gives out a new one.
LEMMA AttestationOptionsStep ==
    ASSUME IndInv, NEW b \in Browsers, NEW claims \in Claims, AttestationOptions(b, claims),
           claims.key # None => file.subjects[claims.email] # None
    PROVE  IndInv'
<1>1. PICK own \in [Handles -> Users \union {None}], home \in [Keys -> Handles \union {None}] :
          Ghost(own, home)
  BY DEF IndInv
<1>2. PICK uid : uid = HandleOf(claims.email)
  OBVIOUS
<1>3. PICK stale : stale = (file.subjects[claims.email] \notin {None, uid})
  OBVIOUS
<1>4. PICK c : c = [id |-> count + 1, to |-> b, created |-> now, claims |-> claims, uid |-> uid, stale |-> stale]
  OBVIOUS
<1>5. GiveOut(c) /\ count < MaxChallenges
  BY <1>2, <1>3, <1>4 DEF AttestationOptions
<1>6. count \in Nat /\ now \in Nat /\ MaxChallenges \in Nat /\ current \in Managers
      /\ claims.email \in Users /\ stale \in BOOLEAN
  BY <1>3, Ids DEF IndInv, TypeOK, Claims
<1>7. count + 1 \in Challenges /\ count + 1 \in Handles
  BY <1>5, <1>6 DEF Challenges, Handles
<1>8. \A h \in Handles : h > count => own[h] = None
  BY <1>1 DEF Ghost, Owners
<1>9. \A h \in Handles : h > count + 1 => own[h] = None
  BY <1>6, <1>8, NoneIs
<1>10. own[count + 1] = None
  BY <1>6, <1>7, <1>8
<1>11. PICK own2 : own2 = IF uid = count + 1 THEN [own EXCEPT ![uid] = claims.email] ELSE own
  OBVIOUS
<1>12. uid \in Handles /\ (uid = count + 1 \/ own[uid] = claims.email)
  <2>1. PICK d : d = db[current]
    OBVIOUS
  <2>2. Sound(d, own, home, made, removed)
    BY <1>1, <1>6, <2>1 DEF Ghost, Stored
  <2>3. CASE d.subjects[claims.email] # None
    <3>1. uid = d.subjects[claims.email]
      BY <1>2, <2>1, <2>3 DEF HandleOf
    <3> QED
      BY <1>6, <2>2, <2>3, <3>1, SoundParts
  <2>4. CASE d.subjects[claims.email] = None
    BY <1>2, <1>7, <2>1, <2>4 DEF HandleOf
  <2> QED
    BY <2>3, <2>4
<1>13. own2 \in [Handles -> Users \union {None}]
  BY <1>6, <1>11, <1>12
<1>14. own2[uid] = claims.email
  BY <1>11, <1>12
<1>15. \A h \in Handles : own[h] # None => own2[h] = own[h]
  BY <1>10, <1>11
<1>16. \A h \in Handles : h > count + 1 => own2[h] = None
  <2>1. \A h \in Handles : h > count + 1 => h # count + 1
    BY <1>6, NoneIs
  <2> QED
    BY <1>9, <1>11, <2>1
<1>17. /\ c \in Challenge
       /\ c.id = count + 1 /\ c.claims = claims /\ c.uid = uid /\ c.stale = stale
  BY <1>4, <1>6, <1>7, <1>12 DEF Challenge
<1>18. claims.key # None => /\ file.subjects[claims.email] # None
                            /\ stale \/ uid = file.subjects[claims.email]
  BY <1>3
<1>19. Options(c, own2, file, count + 1)
  BY <1>6, <1>12, <1>14, <1>17, <1>18, NoneIs DEF Options
<1> QED
  BY <1>1, <1>5, <1>13, <1>15, <1>16, <1>17, <1>19, GiveOutStep

\* A request begins: its challenge, if still there after vacuum, has not expired.
LEMMA StartStep ==
    ASSUME IndInv, NEW b \in Browsers, NEW r \in Request, Start(b, r), r.mgr = current,
           NEW own \in [Handles -> Users \union {None}], NEW home \in [Keys -> Handles \union {None}],
           Ghost(own, home),
           made' \in [Keys -> Made \union {None}],
           \A k \in Keys : made[k] # None => made'[k] = made[k],
           r.kind = "AddKey" => made[r.key] = None,
           Answer(r, own, home, made', file, count, Vacuumed(challenges[current]))
    PROVE  IndInv'
<1>1. TypeOK /\ Numbers /\ Unique /\ Sessions /\ Granted /\ OneEach
  BY DEF IndInv
<1>2. /\ req' = [req EXCEPT ![b] = r]
      /\ challenges' = [challenges EXCEPT ![current] = Vacuumed(@)]
      /\ UNCHANGED <<visits, logins, now, file, db, current, next, count, token, session, registered,
                     removed, deleted, grants>>
      /\ faults' \in 0..MaxFaults /\ faults <= faults'
  BY <1>1, PasskeyAssumption DEF Start, TypeOK
<1>3. /\ \A m \in Managers : challenges'[m] \subseteq challenges[m]
      /\ challenges'[current] = Vacuumed(challenges[current]) /\ current \in Managers
  BY <1>1, <1>2 DEF TypeOK, Vacuumed
<1>4. challenges' \in [Managers -> SUBSET Challenge]
  <2>1. \A m \in Managers : challenges[m] \subseteq Challenge
    BY <1>1 DEF TypeOK
  <2> QED
    BY <1>1, <1>2, <1>3, <2>1 DEF TypeOK
<1>5. req' \in [Browsers -> Request \union {None}]
  BY <1>1, <1>2 DEF TypeOK
<1>6. req'[b] = r /\ \A x \in Browsers : x # b => req'[x] = req[x]
  BY <1>1, <1>2 DEF TypeOK
<1>7. TypeOK'
  BY <1>1, <1>2, <1>4, <1>5 DEF TypeOK, visits
<1>8. Unique'
  BY <1>1, <1>3 DEF Unique
<1>9. \A x \in Browsers : Adding(x) => req[x].key \in Keys /\ made[req[x].key] # None
  BY <1>1, Ids DEF Ghost, Asked, Answer, Adding
<1>10. OneEach'
  <2> SUFFICES ASSUME NEW b1 \in Browsers, NEW b2 \in Browsers, Adding(b1)', Adding(b2)',
                      req'[b1].key = req'[b2].key
               PROVE  b1 = b2
    BY DEF OneEach
  <2>1. CASE b1 # b /\ b2 # b
    BY <1>1, <1>6, <2>1 DEF OneEach, Adding
  <2>2. CASE b1 = b /\ b2 # b
    <3>1. Adding(b2) /\ req[b2].key = r.key /\ r.kind = "AddKey"
      BY <1>6, <2>2 DEF Adding
    <3> QED
      BY <1>9, <3>1
  <2>3. CASE b2 = b /\ b1 # b
    <3>1. Adding(b1) /\ req[b1].key = r.key /\ r.kind = "AddKey"
      BY <1>6, <2>3 DEF Adding
    <3> QED
      BY <1>9, <3>1
  <2> QED
    BY <2>1, <2>2, <2>3
<1>11. Granted'
  <2>1. /\ \A g \in grants : g.key \in Keys /\ made'[g.key] = made[g.key]
        /\ \A k \in registered : made'[k] = made[k]
    BY <1>1, Ids DEF Granted, TypeOK
  <2>2. LoginIsSound'
    BY <1>1, <1>2, <2>1 DEF Granted, LoginIsSound
  <2> QED
    BY <1>1, <1>2, <1>3, <2>1, <2>2 DEF Granted
<1>12. Numbers' /\ Sessions'
  <2>1. \A m \in Managers : m <= faults => m <= faults'
    BY <1>1, <1>2, PasskeyAssumption DEF TypeOK, Managers
  <2>2. Numbers'
    BY <1>1, <1>2, <2>1 DEF Numbers, TypeOK
  <2> QED
    BY <1>1, <1>2, <2>2 DEF Sessions
<1>13. Ghost(own, home)'
  <2>0. /\ \A k \in registered \union removed : k \in Keys /\ home[k] # None /\ made[k] # None
        /\ removed \subseteq Keys /\ \A k \in removed : made[k] # None
    BY <1>1, MadeIs DEF TypeOK
  <2>1. Owners(own, home)'
    BY <1>2, NoneIs, NoneAssumption DEF Ghost, Owners
  <2>2. Stored(own, home)'
    <3>1. PICK mk, mk2 : mk = made /\ mk2 = made'
      OBVIOUS
    <3>2. ASSUME NEW d, Sound(d, own, home, mk, removed) PROVE Sound(d, own, home, mk2, removed)
      BY <2>0, <3>1, <3>2, SoundGrows
    <3>3. Sound(file, own, home, mk2, removed)
          /\ \A m \in Managers : Sound(db[m], own, home, mk2, removed)
      BY <3>1, <3>2 DEF Ghost, Stored
    <3> QED
      BY <1>2, <3>1, <3>3 DEF Stored
  <2>3. Given(own)'
    <3>1. \A m \in Managers : \A c \in challenges'[m] : Options(c, own, file, count)
      BY <1>3 DEF Ghost, Given
    <3> QED
      BY <1>2, <3>1 DEF Given
  <2>4. Asked(own, home)'
    <3>1. ASSUME NEW x \in Browsers, req'[x] # None
          PROVE  Answer(req'[x], own, home, made', file, count, challenges'[req'[x].mgr])
      <4>1. CASE x = b
        BY <1>3, <1>6, <4>1
      <4>2. CASE x # b
        <5>1. PICK q : q = req[x]
          OBVIOUS
        <5>2. q \in Request /\ q.mgr \in Managers /\ q = req'[x]
          BY <1>1, <1>6, <3>1, <4>2, <5>1, Ids
        <5>3. PICK cs, cs2, mk, mk2 : /\ cs = challenges[q.mgr] /\ cs2 = challenges'[q.mgr]
                                      /\ mk = made /\ mk2 = made'
          OBVIOUS
        <5>4. Answer(q, own, home, mk, file, count, cs)
          BY <3>1, <4>2, <5>1, <5>2, <5>3 DEF Ghost, Asked
        <5>5. \A k \in Keys : mk[k] # None => mk2[k] = mk[k]
          BY <5>3
        <5>6. (mk[q.key] # None => mk2[q.key] = mk[q.key]) /\ (q.ch \in cs2 => q.ch \in cs)
          BY <1>1, <1>3, <5>2, <5>3, <5>4, <5>5, Ids DEF Answer
        <5>7. Answer(q, own, home, mk2, file, count, cs2)
          BY <5>4, <5>6 DEF Answer
        <5> QED
          BY <5>2, <5>3, <5>7
      <4> QED
        BY <4>1, <4>2
    <3> QED
      BY <1>2, <3>1 DEF Asked
  <2>5. Recorded(home)'
    <3>1. \A k \in registered \union removed : made'[k] = made[k]
      BY <2>0
    <3>2. RegistrationIsKept'
      BY <1>2, <3>1 DEF Ghost, Recorded, RegistrationIsKept, KeysOf
    <3> QED
      BY <1>2, <3>2 DEF Ghost, Recorded
  <2> QED
    BY <2>1, <2>2, <2>3, <2>4, <2>5 DEF Ghost
<1> QED
  BY <1>7, <1>8, <1>10, <1>11, <1>12, <1>13 DEF IndInv

\* A login begins.
LEMMA StartCheckStep ==
    ASSUME IndInv, NEW b \in Browsers, NEW k \in Keys, NEW c \in Answerable,
           NEW u \in Users \union {None}, StartCheck(b, k, c, u)
    PROVE  IndInv'
<1>1. PICK own \in [Handles -> Users \union {None}], home \in [Keys -> Handles \union {None}] :
          Ghost(own, home)
  BY DEF IndInv
<1>2. TypeOK
  BY DEF IndInv
<1>4. PICK r : r = [kind |-> "Check", mgr |-> current, ch |-> c, key |-> k,
                    claims |-> token[b], login |-> u, started |-> now]
  OBVIOUS
<1>5. /\ Start(b, r) /\ made[k] # None /\ made' = made
  BY <1>4 DEF StartCheck
<1>6. c \in Challenge /\ Options(c, own, file, count) /\ now \in Nat /\ current \in Managers
      /\ token[b] \in Claims \union {None}
  BY <1>1, <1>2, Ids DEF Answerable, Ghost, Given, TypeOK
<1>7. r \in Request /\ r.kind = "Check" /\ r.ch = c /\ r.key = k /\ r.started = now /\ r.mgr = current
  BY <1>4, <1>6 DEF Request
<1>8. c \in Vacuumed(challenges[current]) => now <= c.created + ChallengeLife
  BY <1>6, <1>2, Ids, PasskeyAssumption DEF Vacuumed
<1>9. Answer(r, own, home, made', file, count, Vacuumed(challenges[current]))
  BY <1>5, <1>6, <1>7, <1>8 DEF Answer
<1> QED
  BY <1>1, <1>2, <1>5, <1>7, <1>9, StartStep DEF TypeOK

\* A registration begins: the key is new.
LEMMA StartAddKeyStep ==
    ASSUME IndInv, NEW b \in Browsers, NEW k \in Keys, NEW c \in Answerable, NEW claims \in Claims,
           StartAddKey(b, k, c, claims)
    PROVE  IndInv'
<1>1. PICK own \in [Handles -> Users \union {None}], home \in [Keys -> Handles \union {None}] :
          Ghost(own, home)
  BY DEF IndInv
<1>2. TypeOK
  BY DEF IndInv
<1>4. PICK r : r = [kind |-> "AddKey", mgr |-> current, ch |-> c, key |-> k,
                    claims |-> claims, login |-> None, started |-> now]
  OBVIOUS
<1>5. PICK e : e = [email |-> c.claims.email, uid |-> c.uid, id |-> c.id, stale |-> c.stale]
  OBVIOUS
<1>6. /\ Start(b, r) /\ made[k] = None
      /\ made' = IF c.claims = None THEN made ELSE [made EXCEPT ![k] = e]
  BY <1>4, <1>5 DEF StartAddKey
<1>7. c \in Challenge /\ Options(c, own, file, count) /\ now \in Nat /\ current \in Managers
  BY <1>1, <1>2, Ids DEF Answerable, Ghost, Given, TypeOK
<1>8. r \in Request /\ r.kind = "AddKey" /\ r.ch = c /\ r.key = k /\ r.started = now /\ r.mgr = current
      /\ r.claims = claims
  BY <1>4, <1>7 DEF Request
<1>9. c.claims # None => c.uid \in Handles /\ c.id \in Challenges /\ c.claims.email \in Users /\ c.stale \in BOOLEAN
  BY <1>7 DEF Options, Challenge, Claims
<1>10. c.claims # None => /\ e \in Made /\ e # None /\ e.email = c.claims.email /\ e.uid = c.uid
                          /\ e.id = c.id /\ e.stale = c.stale
  BY <1>5, <1>9, NoneAssumption DEF Made
<1>11. /\ made' \in [Keys -> Made \union {None}] /\ (c.claims # None => made'[k] = e)
       /\ \A j \in Keys : made[j] # None => made'[j] = made[j]
  BY <1>2, <1>6, <1>10 DEF TypeOK
<1>13. home[k] = None
  BY <1>1, <1>6 DEF Ghost, Owners
<1>14. c \in Vacuumed(challenges[current]) => now <= c.created + ChallengeLife
  BY <1>7, <1>2, Ids, PasskeyAssumption DEF Vacuumed
<1>15. Answer(r, own, home, made', file, count, Vacuumed(challenges[current]))
  BY <1>6, <1>7, <1>8, <1>10, <1>11, <1>13, <1>14, NoneIs DEF Answer
<1> QED
  BY <1>1, <1>2, <1>6, <1>8, <1>11, <1>15, StartStep

\* A key that a user has is there later, if it is not lost.
LEMMA KeysLater ==
    ASSUME NEW f, NEW x, NEW lost, NEW added, Later(f, x, lost, added), f \in DB,
           NEW u \in Users, NEW k \in KeysOf(f, u), k \notin lost
    PROVE  k \in KeysOf(x, u) /\ f.subjects[u] # None /\ x.subjects[u] = f.subjects[u]
<1>1. /\ f.subjects[u] # None /\ f.subjects[u] \in Handles /\ f.handles[f.subjects[u]] # None
      /\ k \in f.handles[f.subjects[u]].keys
  BY DEF KeysOf, DB
<1>2. x.subjects[u] = f.subjects[u]
  BY <1>1 DEF Later
<1>3. /\ x.handles[f.subjects[u]] # None
      /\ k \in x.handles[f.subjects[u]].keys
  BY <1>1 DEF Later
<1> QED
  BY <1>1, <1>2, <1>3 DEF KeysOf

\* What a write does to the copy that was read, it does to the file.
LEMMA LaterOf ==
    ASSUME NEW f, NEW d, NEW x, NEW lost, NEW added, f \in DB, Extends(f, d), Later(d, x, lost, added)
    PROVE  Later(f, x, lost, added)
<1>1. \A h \in Handles : f.handles[h] # None => d.handles[h] # None /\ d.handles[h] = f.handles[h]
  BY DEF Extends
<1>2. \A u \in Users : f.subjects[u] # None => d.subjects[u] # None /\ d.subjects[u] = f.subjects[u]
  BY DEF Extends
<1> QED
  BY <1>1, <1>2 DEF Later

\* A write that loses only keys to delete, and adds only new ones, keeps what was
\* reported.
LEMMA RecordedLater ==
    ASSUME TypeOK, NEW own, NEW home \in [Keys -> Handles \union {None}], Ghost(own, home),
           NEW x, NEW lost, NEW added, Later(file, x, lost, added),
           file' = file \/ file' = x, made' = made,
           NEW home2, \A k \in Keys : home[k] # None => home2[k] = home[k],
           removed \subseteq removed', lost \subseteq removed', \A k \in added : home[k] = None
    PROVE  /\ \A k \in registered \ removed' :
                 /\ k \in KeysOf(file', made[k].email)
                 /\ (~made[k].stale /\ \A j \in removed' : made[j].email # made[k].email)
                       => file'.subjects[made[k].email] = made[k].uid
           /\ \A k \in deleted : /\ file'.handles[home2[k]] # None
                                 /\ k \notin file'.handles[home2[k]].keys
<1>1. file \in DB /\ registered \subseteq Keys /\ deleted \subseteq removed
  BY DEF TypeOK
<1>2. \A k \in registered \union removed :
          k \in Keys /\ home[k] # None /\ made[k] # None /\ made[k].email \in Users
  BY MadeIs DEF TypeOK, Made
<1>3. ASSUME NEW k \in registered \ removed'
      PROVE  /\ k \in KeysOf(file', made[k].email)
             /\ (~made[k].stale /\ \A j \in removed' : made[j].email # made[k].email)
                   => file'.subjects[made[k].email] = made[k].uid
  <2>1. PICK u \in Users : u = made[k].email
    BY <1>2
  <2>2. /\ k \in KeysOf(file, u)
        /\ (~made[k].stale /\ \A j \in removed' : made[j].email # u) => file.subjects[u] = made[k].uid
    BY <2>1 DEF Ghost, Recorded, RegistrationIsKept
  <2>3. k \in KeysOf(x, u) /\ x.subjects[u] = file.subjects[u]
    BY <1>1, <2>2, KeysLater
  <2> QED
    BY <2>1, <2>2, <2>3
<1>4. ASSUME NEW k \in deleted
      PROVE  /\ file'.handles[home2[k]] # None
             /\ k \notin file'.handles[home2[k]].keys
  <2>1. k \in Keys /\ home[k] # None /\ home2[k] = home[k] /\ home[k] \in Handles
    BY <1>1, <1>2
  <2>2. file.handles[home[k]] # None /\ k \notin file.handles[home[k]].keys
    BY DEF Ghost, Recorded
  <2>3. x.handles[home[k]] # None /\ k \notin x.handles[home[k]].keys
    BY <2>1, <2>2 DEF Later
  <2> QED
    BY <2>1, <2>2, <2>3
<1> QED
  BY <1>3, <1>4

\* A write keeps own and home.
LEMMA WriteGhost ==
    ASSUME TypeOK, NEW own \in [Handles -> Users \union {None}],
           NEW home \in [Keys -> Handles \union {None}], Ghost(own, home),
           NEW home2 \in [Keys -> Handles \union {None}],
           NEW m \in Managers, NEW x, Moved(own, home, home2, m, x), Recorded(home2)'
    PROVE  Ghost(own, home2)'
<1>0. /\ \A k \in Keys : home[k] # None => home2[k] = home[k]
      /\ \A k \in Keys : home2[k] # None => made[k] # None
      /\ Sound(x, own, home2, made, removed')
      /\ \A u \in Users : file.subjects[u] # None => x.subjects[u] = file.subjects[u]
      /\ removed \subseteq removed'
      /\ db' = [db EXCEPT ![m] = x] /\ (file' = file \/ file' = x)
      /\ \A n \in Managers : challenges'[n] \subseteq challenges[n]
      /\ \A b \in Browsers : req'[b] = None \/ req'[b] = req[b]
      /\ \A b \in Browsers : req'[b] # None /\ Adding(b) => home2[req[b].key] = home[req[b].key]
      /\ UNCHANGED <<made, count>>
  BY DEF Moved
<1>1. removed \subseteq Keys /\ \A k \in removed : made[k] # None
  BY MadeIs DEF TypeOK
<1>2. Owners(own, home2)'
  BY <1>0 DEF Ghost, Owners
<1>3. Stored(own, home2)'
  <2>1. PICK rem, rem2 : rem = removed /\ rem2 = removed'
    OBVIOUS
  <2>2. ASSUME NEW d, Sound(d, own, home, made, rem) PROVE Sound(d, own, home2, made, rem2)
    BY <1>0, <1>1, <2>1, <2>2, SoundGrows
  <2>3. Sound(file, own, home2, made, rem2)
        /\ \A n \in Managers : Sound(db[n], own, home2, made, rem2)
    BY <2>1, <2>2 DEF Ghost, Stored
  <2>4. \A n \in Managers : db'[n] = x \/ db'[n] = db[n]
    BY <1>0 DEF TypeOK
  <2>5. Sound(file', own, home2, made, rem2)
    BY <1>0, <2>1, <2>3
  <2>6. \A n \in Managers : Sound(db'[n], own, home2, made, rem2)
    BY <1>0, <2>1, <2>3, <2>4
  <2> QED
    BY <1>0, <2>1, <2>5, <2>6 DEF Stored
<1>4. PICK f, f2 : f = file /\ f2 = file'
  OBVIOUS
<1>5. \A u \in Users : f.subjects[u] # None => f2.subjects[u] = f.subjects[u]
  BY <1>0, <1>4
<1>6. PICK n \in Nat : n = count /\ n <= n
  BY Ids
<1>7. ASSUME NEW c \in Challenge, Options(c, own, f, n) PROVE Options(c, own, f2, n)
  <2>1. c.claims # None => c.claims.email \in Users
    BY DEF Challenge, Claims
  <2> QED
    BY <1>5, <1>7, <2>1 DEF Options
<1>8. Given(own)'
  <2>1. \A mm \in Managers : \A c \in challenges'[mm] : c \in Challenge /\ Options(c, own, f, n)
    BY <1>0, <1>4, <1>6, Ids DEF Ghost, Given
  <2>2. \A mm \in Managers : \A c \in challenges'[mm] : Options(c, own, f2, n)
    BY <1>7, <2>1
  <2> QED
    BY <1>0, <1>4, <1>6, <2>2 DEF Given
<1>9. Asked(own, home2)'
  <2>1. ASSUME NEW b \in Browsers, req'[b] # None
        PROVE  Answer(req'[b], own, home2, made, f2, n, challenges'[req'[b].mgr])
    <3>1. PICK r : r = req[b]
      OBVIOUS
    <3>2. r = req'[b] /\ r \in Request /\ r.mgr \in Managers /\ r.ch \in Challenge
      BY <1>0, <2>1, <3>1, Ids
    <3>3. PICK cs, cs2 : cs = challenges[r.mgr] /\ cs2 = challenges'[r.mgr]
      OBVIOUS
    <3>4. Answer(r, own, home, made, f, n, cs)
      BY <1>4, <1>6, <2>1, <3>1, <3>2, <3>3 DEF Ghost, Asked
    <3>5. Options(r.ch, own, f2, n)
      BY <1>7, <3>2, <3>4 DEF Answer
    <3>6. /\ r.ch \in cs2 => r.ch \in cs
          /\ r.kind = "AddKey" /\ r.ch.claims # None => home2[r.key] = home[r.key]
      BY <1>0, <2>1, <3>1, <3>2, <3>3 DEF Adding
    <3>7. Answer(r, own, home2, made, f2, n, cs2)
      BY <3>4, <3>5, <3>6 DEF Answer
    <3> QED
      BY <3>2, <3>3, <3>7
  <2> QED
    BY <1>0, <1>4, <1>6, <2>1 DEF Asked
<1> QED
  BY <1>2, <1>3, <1>8, <1>9 DEF Ghost

\* A write keeps the inductive invariant, if it keeps what was reported and
\* granted.
LEMMA WriteStep ==
    ASSUME IndInv, NEW own \in [Handles -> Users \union {None}],
           NEW home \in [Keys -> Handles \union {None}], Ghost(own, home),
           NEW home2 \in [Keys -> Handles \union {None}],
           NEW m \in Managers, NEW x, Moved(own, home, home2, m, x), Wrote, Recorded(home2)', Granted'
    PROVE  IndInv'
<1>0. TypeOK /\ Numbers /\ Unique /\ Sessions /\ OneEach
  BY DEF IndInv
<1>1. Ghost(own, home2)'
  BY <1>0, WriteGhost
<1>2. x \in DB /\ db' = [db EXCEPT ![m] = x] /\ (file' = file \/ file' = x)
  BY DEF Moved, Sound
<1>3. file' \in DB /\ db' \in [Managers -> DB]
  BY <1>0, <1>2 DEF TypeOK
<1>4. TypeOK'
  BY <1>0, <1>3 DEF TypeOK, visits, Wrote
<1>5. Unique'
  BY <1>0 DEF Unique, Moved
<1>6. OneEach'
  BY <1>0 DEF OneEach, Adding, Moved
<1>7. Sessions'
  <2>1. ASSUME NEW b \in Browsers, session'[b] # None
        PROVE  file'.subjects[session'[b].email] # None
    <3>1. CASE session'[b] = session[b]
      <4>1. PICK u \in Users : u = session[b].email /\ file.subjects[u] # None
        BY <1>0, <2>1, <3>1 DEF TypeOK, Sessions, Claims
      <4>2. x.subjects[u] = file.subjects[u]
        BY <4>1 DEF Moved
      <4> QED
        BY <1>2, <3>1, <4>1, <4>2
    <3>2. CASE session'[b] # session[b]
      BY <2>1, <3>2 DEF Wrote
    <3> QED
      BY <3>1, <3>2
  <2> QED
    BY <1>0, <2>1 DEF Sessions, Wrote
<1>8. Numbers'
  BY <1>0, PasskeyAssumption DEF Numbers, TypeOK, Managers, Wrote
<1> QED
  BY <1>1, <1>4, <1>5, <1>6, <1>7, <1>8 DEF IndInv

\* processAttestation puts the key under a handle of the user.
LEMMA WithKeySound ==
    ASSUME NEW d, NEW own, NEW home \in [Keys -> Handles \union {None}], NEW mk, NEW rem,
           Sound(d, own, home, mk, rem),
           NEW r \in Request, r.claims \in Claims, r.ch.claims = r.claims,
           r.ch.uid \in Handles, own[r.ch.uid] = r.claims.email,
           mk[r.key] # None, mk[r.key].email = r.claims.email, home[r.key] = None,
           NEW x, x = WithKey(d, r)
    PROVE  \E h \in Handles : Joined(d, x, r, h, own, home, mk, rem)
<1>1. PICK u \in Users : u = r.claims.email
  BY DEF Claims
<1>2. PICK k \in Keys : k = r.key
  BY DEF Request
<1>3. PICK uid \in Handles : uid = r.ch.uid
  OBVIOUS
<1>4. /\ d \in DB
      /\ \A v \in Users : d.subjects[v] # None =>
            /\ d.subjects[v] \in Handles /\ own[d.subjects[v]] = v
            /\ d.handles[d.subjects[v]] # None
      /\ \A h \in Handles : d.handles[h] # None =>
            /\ own[h] = d.handles[h].claims.email /\ own[h] \in Users
            /\ d.subjects[own[h]] # None /\ d.handles[h].keys \in SUBSET Keys
            /\ d.handles[h].keys = {} => \E j \in rem : mk[j].email = own[h]
            /\ \A j \in d.handles[h].keys : mk[j] # None /\ mk[j].email = own[h] /\ home[j] = h
  BY SoundParts
<1>5. own[uid] = u /\ mk[k] # None /\ mk[k].email = u /\ home[k] = None
  BY <1>1, <1>2, <1>3
<1>6. ASSUME NEW h \in Handles, NEW j, NEW g \in Handles, d.handles[g] # None, j \in d.handles[g].keys
      PROVE  [home EXCEPT ![k] = h][j] = g
  <2>1. j \in Keys /\ home[j] = g /\ j # k
    BY <1>4, <1>5, <1>6, NoneIs
  <2> QED
    BY <2>1
<1>7. CASE d.subjects[u] # None
  <2>1. PICK h \in Handles : h = d.subjects[u] /\ d.handles[h] # None /\ own[h] = u
    BY <1>4, <1>7
  <2>2. x = [d EXCEPT !.handles[h].keys = @ \union {k}]
    BY <1>1, <1>2, <2>1, NoneIs DEF WithKey
  <2>3. PICK ks : ks = d.handles[h].keys \union {k}
    OBVIOUS
  <2>4. ks \in SUBSET Keys /\ x = KeysSet(d, h, ks)
    BY <1>4, <2>1, <2>2, <2>3 DEF KeysSet
  <2>5. /\ x \in DB /\ x.subjects = d.subjects
        /\ x.handles[h] # None /\ x.handles[h].keys = ks
        /\ x.handles[h].claims = d.handles[h].claims
        /\ \A g \in Handles \ {h} : x.handles[g] = d.handles[g]
    BY <1>4, <2>1, <2>4, SetKeys
  <2>6. PICK home2 : home2 = [home EXCEPT ![k] = h]
    OBVIOUS
  <2>7. home2[k] = h
    BY <2>6
  <2>8. ASSUME NEW v \in Users, x.subjects[v] # None
        PROVE  own[x.subjects[v]] = v /\ x.handles[x.subjects[v]] # None
    BY <1>4, <2>5, <2>8
  <2>9. ASSUME NEW g \in Handles, x.handles[g] # None
        PROVE  /\ own[g] = x.handles[g].claims.email
               /\ x.subjects[own[g]] # None
               /\ x.handles[g].keys = {} => \E j \in rem : mk[j].email = own[g]
               /\ \A j \in x.handles[g].keys : mk[j] # None /\ mk[j].email = own[g] /\ home2[j] = g
    <3>1. CASE g # h
      <4>1. x.handles[g] = d.handles[g] /\ x.subjects = d.subjects /\ d.handles[g] # None
        BY <2>5, <2>9, <3>1
      <4>2. \A j \in d.handles[g].keys : home2[j] = g
        BY <1>6, <2>6, <4>1
      <4> QED
        BY <1>4, <4>1, <4>2
    <3>2. CASE g = h
      <4>1. \A j \in d.handles[h].keys : mk[j] # None /\ mk[j].email = own[h] /\ home2[j] = h
        BY <1>4, <1>6, <2>1, <2>6
      <4>2. x.handles[h].keys # {} /\ \A j \in x.handles[h].keys : j = k \/ j \in d.handles[h].keys
        BY <2>3, <2>5
      <4>3. \A j \in x.handles[h].keys : mk[j] # None /\ mk[j].email = own[h] /\ home2[j] = h
        BY <1>5, <2>1, <2>7, <4>1, <4>2
      <4>4. own[h] = x.handles[h].claims.email /\ x.subjects[own[h]] # None
        BY <1>4, <2>1, <2>5
      <4> QED
        BY <3>2, <4>2, <4>3, <4>4
    <3> QED
      BY <3>1, <3>2
  <2>10. Sound(x, own, home2, mk, rem)
    BY <2>5, <2>8, <2>9 DEF Sound
  <2>11. Later(d, x, {}, {k})
    <3>1. ASSUME NEW g \in Handles, d.handles[g] # None
          PROVE  /\ x.handles[g] # None
                 /\ d.handles[g].keys \subseteq x.handles[g].keys \union {}
                 /\ x.handles[g].keys \subseteq d.handles[g].keys \union {k}
      BY <2>3, <2>5, <3>1
    <3> QED
      BY <2>5, <3>1 DEF Later
  <2>12. k \in KeysOf(x, u)
    BY <2>1, <2>3, <2>5, NoneIs DEF KeysOf
  <2> QED
    <3>1. Joined(d, x, r, h, own, home, mk, rem)
      BY <1>1, <1>2, <2>1, <2>5, <2>6, <2>10, <2>11, <2>12 DEF Joined
    <3> QED
      BY <3>1
<1>8. CASE d.subjects[u] = None
  <2>1. d.handles[uid] = None
    BY <1>4, <1>5, <1>8
  <2>2. PICK c \in Claims : c = r.claims /\ c.email = u
    BY <1>1
  <2>3. PICK w : w = [claims |-> c, keys |-> {k}]
    OBVIOUS
  <2>4. w \in User /\ w # None /\ w.claims = c /\ w.keys = {k}
    <3>1. w \in User /\ w.claims = c /\ w.keys = {k}
      BY <2>2, <2>3 DEF User
    <3> QED
      BY <3>1, NoneIs
  <2>5. x = UserAdded(d, uid, u, w)
    BY <1>1, <1>2, <1>3, <1>8, <2>2, <2>3 DEF WithKey, UserAdded
  <2>6. /\ x \in DB /\ x.handles[uid] = w /\ x.subjects[u] = uid
        /\ \A g \in Handles \ {uid} : x.handles[g] = d.handles[g]
        /\ \A v \in Users \ {u} : x.subjects[v] = d.subjects[v]
    BY <1>4, <2>4, <2>5, AddUser
  <2>7. PICK home2 : home2 = [home EXCEPT ![k] = uid]
    OBVIOUS
  <2>8. home2[k] = uid /\ uid # None
    BY <2>7, NoneIs
  <2>9. ASSUME NEW v \in Users, x.subjects[v] # None
        PROVE  own[x.subjects[v]] = v /\ x.handles[x.subjects[v]] # None
    <3>1. CASE v = u
      BY <1>5, <2>4, <2>6, <3>1
    <3>2. CASE v # u
      <4>1. x.subjects[v] = d.subjects[v] /\ d.subjects[v] \in Handles
        BY <1>4, <2>6, <2>9, <3>2
      <4> QED
        BY <1>4, <2>1, <2>4, <2>6, <2>9, <4>1
    <3> QED
      BY <3>1, <3>2
  <2>10. \A v \in Users : d.subjects[v] # None => x.subjects[v] = d.subjects[v]
    BY <1>8, <2>6
  <2>11. ASSUME NEW g \in Handles, x.handles[g] # None
        PROVE  /\ own[g] = x.handles[g].claims.email
               /\ x.subjects[own[g]] # None
               /\ x.handles[g].keys = {} => \E j \in rem : mk[j].email = own[g]
               /\ \A j \in x.handles[g].keys : mk[j] # None /\ mk[j].email = own[g] /\ home2[j] = g
    <3>1. CASE g # uid
      <4>1. x.handles[g] = d.handles[g] /\ d.handles[g] # None
        BY <2>6, <2>11, <3>1
      <4>2. \A j \in d.handles[g].keys : home2[j] = g
        BY <1>6, <2>7, <4>1
      <4> QED
        BY <1>4, <2>10, <4>1, <4>2
    <3>2. CASE g = uid
      BY <1>5, <2>2, <2>4, <2>6, <2>8, <3>2
    <3> QED
      BY <3>1, <3>2
  <2>12. Sound(x, own, home2, mk, rem)
    BY <2>6, <2>9, <2>11 DEF Sound
  <2>13. Later(d, x, {}, {k})
    <3>1. ASSUME NEW g \in Handles, d.handles[g] # None
          PROVE  x.handles[g] = d.handles[g]
      BY <2>1, <2>6, <3>1
    <3> QED
      BY <2>10, <3>1 DEF Later
  <2>14. k \in KeysOf(x, u)
    BY <2>4, <2>6, <2>8 DEF KeysOf
  <2> QED
    <3>1. Joined(d, x, r, uid, own, home, mk, rem)
      BY <1>1, <1>2, <1>3, <1>8, <2>6, <2>7, <2>12, <2>13, <2>14 DEF Joined
    <3> QED
      BY <3>1
<1> QED
  BY <1>7, <1>8

\* processAssertion changes the claims, for the same user.
LEMMA RefreshSound ==
    ASSUME NEW d, NEW own, NEW home, NEW mk, NEW rem, Sound(d, own, home, mk, rem),
           NEW h \in Handles, d.handles[h] # None,
           NEW c \in Claims, c.email = d.handles[h].claims.email,
           NEW x, x = ClaimsSet(d, h, c)
    PROVE  Sound(x, own, home, mk, rem) /\ Later(d, x, {}, {}) /\ x.subjects = d.subjects
<1>1. d \in DB
  BY DEF Sound
<1>2. /\ x \in DB /\ x.subjects = d.subjects
      /\ x.handles[h] # None /\ x.handles[h].keys = d.handles[h].keys
      /\ x.handles[h].claims = c
      /\ \A g \in Handles \ {h} : x.handles[g] = d.handles[g]
  BY <1>1, SetClaims
<1>3. \A g \in Handles : d.handles[g] # None => x.handles[g] # None /\ x.handles[g].keys = d.handles[g].keys
  BY <1>2
<1>4. Later(d, x, {}, {})
  BY <1>2, <1>3 DEF Later
<1>5. ASSUME NEW u \in Users, x.subjects[u] # None
      PROVE  own[x.subjects[u]] = u /\ x.handles[x.subjects[u]] # None
  BY <1>2, <1>3, <1>5, SoundParts
<1>6. ASSUME NEW g \in Handles, x.handles[g] # None
      PROVE  /\ d.handles[g] # None /\ x.handles[g].claims.email = d.handles[g].claims.email
             /\ x.handles[g].keys = d.handles[g].keys
  BY <1>2, <1>6
<1>7. ASSUME NEW g \in Handles, x.handles[g] # None
      PROVE  /\ own[g] = x.handles[g].claims.email
             /\ x.subjects[own[g]] # None
             /\ x.handles[g].keys = {} => \E j \in rem : mk[j].email = own[g]
             /\ \A j \in x.handles[g].keys : mk[j] # None /\ mk[j].email = own[g] /\ home[j] = g
  BY <1>2, <1>6, <1>7 DEF Sound
<1> QED
  BY <1>2, <1>4, <1>5, <1>7 DEF Sound

\* deleteKey takes away the key only.
LEMMA DeleteSound ==
    ASSUME NEW d, NEW own, NEW home, NEW mk, NEW rem, Sound(d, own, home, mk, rem),
           NEW h \in Handles, d.handles[h] # None, NEW k \in Keys, NEW x, NEW gone, Cut(d, x, h, k, gone)
    PROVE  /\ Sound(x, own, home, mk, rem \union gone) /\ Later(d, x, gone, {}) /\ x.subjects = d.subjects
           /\ x.handles[h] # None /\ k \notin x.handles[h].keys
<1>1. d \in DB
  BY DEF Sound
<1>2. PICK ks \in SUBSET Keys : ks = d.handles[h].keys \ {k}
  BY <1>1, DBFields
<1>3. x = KeysSet(d, h, ks) /\ gone = {k} \intersect d.handles[h].keys
  BY <1>2 DEF Cut, KeysSet
<1>4. /\ x \in DB /\ x.subjects = d.subjects
      /\ x.handles[h] # None /\ x.handles[h].keys = ks
      /\ x.handles[h].claims = d.handles[h].claims
      /\ \A g \in Handles \ {h} : x.handles[g] = d.handles[g]
  BY <1>1, <1>3, SetKeys
<1>5. ASSUME NEW g \in Handles, d.handles[g] # None
      PROVE  /\ x.handles[g] # None
             /\ d.handles[g].keys \subseteq x.handles[g].keys \union gone
             /\ x.handles[g].keys \subseteq d.handles[g].keys
  BY <1>2, <1>3, <1>4, <1>5
<1>6. Later(d, x, gone, {})
  BY <1>4, <1>5 DEF Later
<1>7. ASSUME NEW u \in Users, x.subjects[u] # None
      PROVE  own[x.subjects[u]] = u /\ x.handles[x.subjects[u]] # None
  <2>1. d.subjects[u] # None /\ x.subjects[u] = d.subjects[u]
    BY <1>4, <1>7
  <2>2. d.subjects[u] \in Handles /\ own[d.subjects[u]] = u /\ d.handles[d.subjects[u]] # None
    BY <2>1, SoundParts
  <2> QED
    BY <1>5, <2>1, <2>2
<1>8. ASSUME NEW g \in Handles, x.handles[g] # None
      PROVE  /\ own[g] = x.handles[g].claims.email
             /\ x.subjects[own[g]] # None
             /\ x.handles[g].keys = {} => \E j \in rem \union gone : mk[j].email = own[g]
             /\ \A j \in x.handles[g].keys : mk[j] # None /\ mk[j].email = own[g] /\ home[j] = g
  <2>1. /\ d.handles[g] # None /\ x.handles[g].claims = d.handles[g].claims
    BY <1>4, <1>8
  <2>2. /\ own[g] = d.handles[g].claims.email /\ d.subjects[own[g]] # None
        /\ d.handles[g].keys = {} => \E j \in rem : mk[j].email = own[g]
        /\ \A j \in d.handles[g].keys : mk[j] # None /\ mk[j].email = own[g] /\ home[j] = g
    BY <2>1, SoundParts
  <2>3. ASSUME x.handles[g].keys = {} PROVE \E j \in rem \union gone : mk[j].email = own[g]
    <3>1. CASE d.handles[g].keys = {}
      BY <2>2, <3>1
    <3>2. CASE d.handles[g].keys # {}
      <4>1. PICK j \in d.handles[g].keys : TRUE
        BY <3>2
      <4>2. j \in gone
        BY <1>5, <2>1, <2>3, <4>1
      <4> QED
        BY <2>2, <4>1, <4>2
    <3> QED
      BY <3>1, <3>2
  <2>4. \A j \in x.handles[g].keys : mk[j] # None /\ mk[j].email = own[g] /\ home[j] = g
    BY <1>5, <2>1, <2>2
  <2> QED
    BY <1>4, <2>1, <2>2, <2>3, <2>4
<1> QED
  BY <1>2, <1>4, <1>6, <1>7, <1>8 DEF Sound

\* A request ends; its challenge may be taken.
LEMMA Ends ==
    ASSUME TypeOK, NEW b \in Browsers, NEW r \in Request, Done(b), Take(r) \/ challenges' = challenges
    PROVE  /\ Shrunk /\ req'[b] = None
           /\ Take(r) => \A n \in Managers : \A c \in challenges'[n] : n = r.mgr => c # r.ch
<1>1. req' \in [Browsers -> Request \union {None}] /\ req'[b] = None
      /\ \A x \in Browsers : req'[x] = None \/ req'[x] = req[x]
  BY DEF TypeOK, Done
<1>2. /\ \A n \in Managers : challenges'[n] \subseteq challenges[n]
      /\ challenges' \in [Managers -> SUBSET Challenge]
  <2>1. CASE challenges' = challenges
    BY <2>1 DEF TypeOK
  <2>2. CASE Take(r)
    <3>1. \A n \in Managers : challenges'[n] \subseteq challenges[n] /\ challenges[n] \subseteq Challenge
      BY <2>2 DEF TypeOK, Take
    <3> QED
      BY <2>2, <3>1 DEF TypeOK, Take
  <2> QED
    BY <2>1, <2>2
<1>3. Take(r) => \A n \in Managers : \A c \in challenges'[n] : n = r.mgr => c # r.ch
  BY DEF TypeOK, Take
<1> QED
  BY <1>1, <1>2, <1>3 DEF Shrunk

\* Logins stay sound when there is no new one.
LEMMA GrantedKept ==
    ASSUME Granted, \A n \in Managers : challenges'[n] \subseteq challenges[n],
           UNCHANGED <<grants, made, count, registered>>
    PROVE  Granted'
<1>1. LoginIsSound'
  BY DEF Granted, LoginIsSound
<1> QED
  BY <1>1 DEF Granted

\* A challenge that was there and is taken leaves none with its number.
LEMMA TakenGone ==
    ASSUME TypeOK, Unique, NEW r \in Request, r.ch \in challenges[r.mgr],
           \A n \in Managers : challenges'[n] \subseteq challenges[n],
           \A n \in Managers : \A c \in challenges'[n] : n = r.mgr => c # r.ch
    PROVE  \A n \in Managers : \A c \in challenges'[n] : c.id # r.ch.id
<1>1. r.mgr \in Managers
  BY Ids
<1> SUFFICES ASSUME NEW n \in Managers, NEW c \in challenges'[n] PROVE c.id # r.ch.id
  OBVIOUS
<1>2. c \in challenges[n] /\ (n = r.mgr => c # r.ch)
  OBVIOUS
<1> QED
  BY <1>1, <1>2 DEF Unique

\* commit(false): the copy is what was read.
LEMMA RolledBack ==
    ASSUME IndInv, NEW own \in [Handles -> Users \union {None}],
           NEW home \in [Keys -> Handles \union {None}], Ghost(own, home),
           NEW m \in Managers, NEW x, Sound(x, own, home, made, removed), Extends(file, x),
           db' = [db EXCEPT ![m] = x], Shrunk,
           UNCHANGED <<visits, logins, now, current, next, count, token, made, file, faults, session,
                       registered, removed, deleted, grants>>
    PROVE  IndInv'
<1>1. TypeOK /\ Granted
  BY DEF IndInv
<1>2. Moved(own, home, home, m, x)
  BY DEF Moved, Extends, Shrunk, Ghost, Owners
<1>3. Wrote
  BY <1>1, PasskeyAssumption DEF Wrote, Shrunk, TypeOK
<1>4. Granted'
  BY <1>1, GrantedKept DEF Shrunk
<1>5. Recorded(home)'
  BY RecordedSame DEF Ghost
<1> QED
  BY <1>2, <1>3, <1>4, <1>5, WriteStep

\* A request that fails before the file is read.
LEMMA Untouched ==
    ASSUME IndInv, Shrunk,
           UNCHANGED <<visits, logins, now, current, next, count, token, made, file, db, faults,
                       session, registered, removed, deleted, grants>>
    PROVE  IndInv'
<1>1. PICK own \in [Handles -> Users \union {None}], home \in [Keys -> Handles \union {None}] :
          Ghost(own, home)
  BY DEF IndInv
<1>2. TypeOK /\ Unique /\ OneEach /\ Granted /\ Sessions /\ Numbers
  BY DEF IndInv
<1>3. TypeOK'
  BY <1>2 DEF TypeOK, Shrunk, visits
<1>4. Unique' /\ OneEach' /\ Sessions' /\ Numbers'
  BY <1>2 DEF Unique, OneEach, Adding, Sessions, Numbers, Shrunk
<1>5. Granted'
  BY <1>2, GrantedKept DEF Shrunk
<1>6. Ghost(own, home)'
  <2>1. Owners(own, home)' /\ Stored(own, home)' /\ Given(own)'
    BY <1>1 DEF Ghost, Owners, Stored, Given, Shrunk
  <2>2. Asked(own, home)'
    <3>1. ASSUME NEW b \in Browsers, req'[b] # None
          PROVE  Answer(req'[b], own, home, made, file, count, challenges'[req'[b].mgr])
      <4>1. PICK r : r = req[b]
        OBVIOUS
      <4>2. r = req'[b] /\ r \in Request /\ r.mgr \in Managers
        BY <1>2, <3>1, <4>1, Ids DEF Shrunk
      <4>3. PICK cs, cs2 : cs = challenges[r.mgr] /\ cs2 = challenges'[r.mgr]
        OBVIOUS
      <4>4. Answer(r, own, home, made, file, count, cs) /\ cs2 \subseteq cs
        BY <1>1, <3>1, <4>1, <4>2, <4>3 DEF Ghost, Asked, Shrunk
      <4>5. Answer(r, own, home, made, file, count, cs2)
        BY <4>4 DEF Answer
      <4> QED
        BY <4>2, <4>3, <4>5
    <3> QED
      BY <3>1 DEF Asked
  <2>3. Recorded(home)'
    BY <1>1, RecordedSame DEF Ghost
  <2> QED
    BY <2>1, <2>2, <2>3 DEF Ghost
<1> QED
  BY <1>3, <1>4, <1>5, <1>6 DEF IndInv

\* processAttestation.  The user of a first key is new or has deleted keys; with a
\* session, the options had the handle of the file unless they were stale.
LEMMA FinishAddKeyStep ==
    ASSUME IndInv, NEW b \in Browsers, NEW merge \in BOOLEAN, NEW ok \in BOOLEAN,
           FinishAddKey(b, merge, ok)
    PROVE  IndInv'
<1>1. PICK own \in [Handles -> Users \union {None}], home \in [Keys -> Handles \union {None}] :
          Ghost(own, home)
  BY DEF IndInv
<1>2. TypeOK /\ OneEach /\ Granted /\ Unique
  BY DEF IndInv
<1>3. PICK r : r = req[b]
  OBVIOUS
<1>4. r # None /\ r.kind = "AddKey" /\ Take(r) /\ Done(b)
  BY <1>3 DEF FinishAddKey
<1>5. r \in Request /\ r.mgr \in Managers /\ r.key \in Keys /\ r.ch \in Challenge
  BY <1>2, <1>3, <1>4, Ids
<1>6. /\ Shrunk /\ req'[b] = None
      /\ \A n \in Managers : \A c \in challenges'[n] : n = r.mgr => c # r.ch
  BY <1>2, <1>4, <1>5, Ends
<1>7. PICK d : d = Reloaded(r.mgr, merge)
  OBVIOUS
<1>8. Sound(d, own, home, made, removed) /\ Extends(file, d)
  <2>1. Sound(file, own, home, made, removed) /\ Sound(db[r.mgr], own, home, made, removed)
    BY <1>1, <1>5 DEF Ghost, Stored
  <2>2. PICK m \in Managers : m = r.mgr
    BY <1>5
  <2> QED
    BY <1>7, <2>1, <2>2, ReloadedSound
<1>9. UNCHANGED <<visits, logins, now, current, next, count, token, made, removed, deleted, grants>>
  BY DEF FinishAddKey
<1>10. CASE ~(ChallengeOK(r) /\ MayAdd(d, r))
  <2>1. UNCHANGED <<registered, session>>
    BY <1>3, <1>7, <1>10 DEF FinishAddKey
  <2>2. CASE ChallengeOK(r)
    <3>1. Rollback(r.mgr, d)
      BY <1>3, <1>7, <1>10, <2>2 DEF FinishAddKey
    <3>2. db' = [db EXCEPT ![r.mgr] = d] /\ UNCHANGED <<file, faults>>
      BY <3>1 DEF Rollback
    <3>3. PICK m \in Managers : m = r.mgr
      BY <1>5
    <3> QED
      BY <1>1, <1>6, <1>8, <1>9, <2>1, <3>2, <3>3, RolledBack
  <2>3. CASE ~ChallengeOK(r)
    <3>1. UNCHANGED <<db, file, faults>>
      BY <1>3, <1>7, <1>10, <2>3 DEF FinishAddKey
    <3> QED
      BY <1>6, <1>9, <2>1, <3>1, Untouched
  <2> QED
    BY <2>2, <2>3
<1>11. CASE ChallengeOK(r) /\ MayAdd(d, r)
  <2>1. PICK x : x = WithKey(d, r)
    OBVIOUS
  <2>2. /\ Commit(r.mgr, x, ok)
        /\ registered' = IF ok THEN registered \union {r.key} ELSE registered
        /\ IF ok /\ r.claims.key = None THEN SetAuthToken(b, r.claims.email, r.key) ELSE UNCHANGED session
    BY <1>3, <1>7, <1>11, <2>1 DEF FinishAddKey
  <2>3. Answer(r, own, home, made, file, count, challenges[r.mgr])
    BY <1>1, <1>3, <1>4 DEF Ghost, Asked
  <2>4. /\ r.claims # None /\ r.ch.claims = r.claims /\ made[r.key] # None
        /\ made[r.key].email = r.ch.claims.email /\ made[r.key].uid = r.ch.uid
        /\ made[r.key].id = r.ch.id /\ made[r.key].stale = r.ch.stale /\ home[r.key] = None
        /\ Options(r.ch, own, file, count)
    BY <1>4, <1>11, <2>3 DEF Answer, ChallengeOK
  <2>5. r.claims \in Claims /\ r.claims.email \in Users
    BY <1>5, <2>4 DEF Request, Claims
  <2>6. /\ r.ch.uid \in Handles /\ own[r.ch.uid] = r.claims.email
        /\ r.claims.key # None => /\ file.subjects[r.claims.email] # None
                                  /\ r.ch.stale \/ r.ch.uid = file.subjects[r.claims.email]
    BY <1>5, <2>4 DEF Options, Challenge
  <2>7. PICK h \in Handles : Joined(d, x, r, h, own, home, made, removed)
    BY <1>5, <1>8, <2>1, <2>4, <2>5, <2>6, WithKeySound
  <2>8. PICK home2 : home2 = [home EXCEPT ![r.key] = h]
    OBVIOUS
  <2>9. /\ home2 \in [Keys -> Handles \union {None}] /\ home2[r.key] = h /\ h # None
        /\ \A k \in Keys : k # r.key => home2[k] = home[k]
    BY <1>5, <2>8, NoneIs
  <2>10. Later(file, x, {}, {r.key})
    <3>1. file \in DB
      BY <1>2 DEF TypeOK
    <3> QED
      BY <1>8, <2>7, <3>1, LaterOf DEF Joined
  <2>11. /\ db' = [db EXCEPT ![r.mgr] = x] /\ (file' = file \/ file' = x) /\ (ok => file' = x)
         /\ faults' \in 0..MaxFaults /\ faults <= faults'
    BY <1>2, <2>2, PasskeyAssumption DEF Commit, TypeOK
  <2>12. \A k \in Keys : home[k] # None => home2[k] = home[k]
    BY <2>4, <2>9
  <2>13. Moved(own, home, home2, r.mgr, x)
    <3>1. \A k \in Keys : home2[k] # None => made[k] # None
      BY <1>1, <2>4, <2>9 DEF Ghost, Owners
    <3>2. Sound(x, own, home2, made, removed')
      BY <1>9, <2>7, <2>8 DEF Joined
    <3>3. \A u \in Users : file.subjects[u] # None => x.subjects[u] = file.subjects[u]
      BY <2>10 DEF Later
    <3>4. ASSUME NEW c \in Browsers, req'[c] # None, Adding(c)
          PROVE  home2[req[c].key] = home[req[c].key]
      <4>1. c # b /\ req[c] # None
        BY <1>6, <3>4 DEF Shrunk
      <4>2. req[c].key \in Keys /\ req[c].key # r.key
        BY <1>2, <1>3, <1>4, <2>4, <3>4, <4>1, Ids DEF OneEach, Adding
      <4> QED
        BY <2>9, <4>2
    <3>5. removed \subseteq removed' /\ UNCHANGED <<made, count>>
      BY <1>9
    <3> QED
      BY <1>6, <2>11, <2>12, <3>1, <3>2, <3>3, <3>4, <3>5 DEF Moved, Shrunk
  <2>14. Wrote
    <3>1. registered' \subseteq Keys
      BY <1>2, <1>5, <2>2 DEF TypeOK
    <3>2. /\ session' \in [Browsers -> Claims \union {None}]
          /\ \A c \in Browsers : session'[c] # session[c] /\ session'[c] # None =>
                file'.subjects[session'[c].email] # None
      <4>1. CASE ok /\ r.claims.key = None
        <5>1. PICK s : s = [email |-> r.claims.email, iat |-> now, key |-> r.key]
          OBVIOUS
        <5>2. s \in Claims /\ s.email = r.claims.email
          BY <1>2, <1>5, <2>5, <5>1, Ids DEF Claims
        <5>3. session' = [session EXCEPT ![b] = s]
          BY <2>2, <4>1, <5>1 DEF SetAuthToken
        <5>4. file'.subjects[r.claims.email] # None
          BY <2>7, <2>9, <2>11, <4>1 DEF Joined
        <5>5. session' \in [Browsers -> Claims \union {None}]
          BY <1>2, <5>2, <5>3 DEF TypeOK
        <5>6. \A c \in Browsers : session'[c] = session[c] \/ session'[c] = s
          BY <1>2, <5>3 DEF TypeOK
        <5> QED
          BY <5>2, <5>4, <5>5, <5>6
      <4>2. CASE ~(ok /\ r.claims.key = None)
        BY <1>2, <2>2, <4>2 DEF TypeOK
      <4> QED
        BY <4>1, <4>2
    <3>3. /\ removed' \subseteq Keys /\ deleted' \subseteq removed'
          /\ grants' \subseteq Login
      BY <1>2, <1>9 DEF TypeOK
    <3> QED
      BY <1>6, <1>9, <2>11, <3>1, <3>2, <3>3 DEF Wrote, Shrunk
  <2>15. Granted'
    <3>1. r.ch \in challenges[r.mgr] /\ r.ch.id <= count
      BY <1>11, <2>4 DEF ChallengeOK, Options
    <3>2. \A n \in Managers : \A c \in challenges'[n] : c.id # r.ch.id
      BY <1>2, <1>5, <1>6, <3>1, TakenGone DEF Shrunk
    <3>3. \A k \in registered' : k \in registered \/ k = r.key
      BY <2>2
    <3>4. \A g \in grants : made[r.key].id # g.id
      BY <1>2, <1>5, <2>4, <3>1 DEF Granted
    <3>5. LoginIsSound'
      BY <1>2, <1>9, <3>3, <3>4 DEF Granted, LoginIsSound
    <3>6. ASSUME NEW k \in registered'
          PROVE  /\ made[k] # None /\ made[k].id <= count
                 /\ \A m \in Managers : \A c \in challenges'[m] : c.id # made[k].id
      <4>1. CASE k \in registered
        BY <1>2, <1>6, <4>1 DEF Granted, Shrunk
      <4>2. CASE k = r.key
        BY <2>4, <3>1, <3>2, <4>2
      <4> QED
        BY <3>3, <4>1, <4>2
    <3>7. \A g \in grants : /\ made[g.key] # None /\ g.id <= count
                            /\ \A m \in Managers : \A c \in challenges'[m] : c.id # g.id
      BY <1>2, <1>6 DEF Granted, Shrunk
    <3> QED
      BY <1>9, <3>5, <3>6, <3>7 DEF Granted
  <2>16. Recorded(home2)'
    <3>1. \A k \in registered' \union removed' : home2[k] # None
      <4>1. \A k \in registered \union removed : k \in Keys /\ home[k] # None
        BY <1>1, <1>2, MadeIs
      <4> QED
        BY <1>9, <2>2, <2>9, <2>12, <4>1
    <3>2. /\ \A k \in registered \ removed' :
               /\ k \in KeysOf(file', made[k].email)
               /\ (~made[k].stale /\ \A j \in removed' : made[j].email # made[k].email)
                     => file'.subjects[made[k].email] = made[k].uid
          /\ \A k \in deleted : /\ file'.handles[home2[k]] # None
                                /\ k \notin file'.handles[home2[k]].keys
      <4>1. removed \subseteq removed' /\ {} \subseteq removed' /\ made' = made
        BY <1>9
      <4>2. \A k \in {r.key} : home[k] = None
        BY <2>4
      <4> QED
        BY <1>1, <1>2, <2>10, <2>11, <2>12, <4>1, <4>2, RecordedLater
    <3>3. ASSUME ok, ~made[r.key].stale, \A j \in removed : made[j].email # made[r.key].email
          PROVE  x.subjects[made[r.key].email] = made[r.key].uid
      <4>1. CASE d.subjects[r.claims.email] = None /\ h = r.ch.uid
        BY <2>4, <2>7, <4>1 DEF Joined
      <4>2. CASE d.subjects[r.claims.email] = h /\ d.handles[h] # None
        <5>1. r.claims.key # None
          <6> SUFFICES ASSUME r.claims.key = None PROVE FALSE
            OBVIOUS
          <6>1. KeysOf(d, r.claims.email) = {}
            BY <1>11 DEF MayAdd
          <6>2. d.handles[h].keys = {}
            BY <2>9, <4>2, <6>1 DEF KeysOf
          <6>3. own[h] = r.claims.email
            BY <1>8, <2>5, <2>9, <4>2, SoundParts
          <6>4. \E j \in removed : made[j].email = own[h]
            BY <1>8, <4>2, <6>2, SoundParts
          <6> QED
            BY <2>4, <3>3, <6>3, <6>4
        <5>2. file.subjects[r.claims.email] # None /\ r.ch.uid = file.subjects[r.claims.email]
          BY <2>4, <2>6, <3>3, <5>1
        <5>3. d.subjects[r.claims.email] = file.subjects[r.claims.email]
          BY <1>8, <2>5, <5>2 DEF Extends
        <5> QED
          BY <2>4, <2>7, <4>2, <5>2, <5>3 DEF Joined
      <4> QED
        BY <2>7, <4>1, <4>2 DEF Joined
    <3>4. ASSUME NEW k \in registered' \ removed'
          PROVE  /\ k \in KeysOf(file', made[k].email)
                 /\ (~made[k].stale /\ \A j \in removed' : made[j].email # made[k].email)
                     => file'.subjects[made[k].email] = made[k].uid
      <4>1. CASE k \in registered
        BY <3>2, <4>1
      <4>2. CASE k \notin registered
        <5>1. ok /\ k = r.key /\ file' = x
          BY <2>2, <2>11, <4>2
        <5>2. k \in KeysOf(x, made[k].email)
          BY <2>4, <2>7, <5>1 DEF Joined
        <5> QED
          BY <1>9, <3>3, <5>1, <5>2
      <4> QED
        BY <4>1, <4>2
    <3>5. RegistrationIsKept'
      <4>1. \A k \in registered' \ removed' :
              /\ k \in KeysOf(file, made[k].email)'
              /\ (~made[k].stale /\ \A j \in removed' : made[j].email # made[k].email)
                     => file'.subjects[made[k].email] = made[k].uid
        BY <1>9, <3>4 DEF KeysOf
      <4> QED
        BY <1>9, <4>1 DEF RegistrationIsKept
    <3> QED
      BY <1>9, <3>1, <3>2, <3>5 DEF Recorded
  <2>17. PICK m \in Managers : m = r.mgr
    BY <1>5
  <2> QED
    BY <1>1, <2>9, <2>13, <2>14, <2>15, <2>16, <2>17, WriteStep
<1> QED
  BY <1>10, <1>11

\* processAssertion.  A key whose deletion was saved is not under its handle in the
\* file, so it is not found; the challenge was there, so that no login has its
\* number.
LEMMA FinishCheckStep ==
    ASSUME IndInv, NEW b \in Browsers, NEW merge \in BOOLEAN, NEW ok \in BOOLEAN,
           FinishCheck(b, merge, ok)
    PROVE  IndInv'
<1>1. PICK own \in [Handles -> Users \union {None}], home \in [Keys -> Handles \union {None}] :
          Ghost(own, home)
  BY DEF IndInv
<1>2. TypeOK /\ Unique /\ Granted
  BY DEF IndInv
<1>3. PICK r : r = req[b]
  OBVIOUS
<1>4. r # None /\ r.kind = "Check" /\ Done(b)
  BY <1>3 DEF FinishCheck
<1>5. r \in Request /\ r.mgr \in Managers /\ r.key \in Keys /\ r.ch \in Challenge /\ r.started \in Nat
  BY <1>2, <1>3, <1>4, Ids
<1>6. PICK d : d = Reloaded(r.mgr, merge)
  OBVIOUS
<1>7. Sound(d, own, home, made, removed) /\ Extends(file, d)
  <2>1. Sound(file, own, home, made, removed) /\ Sound(db[r.mgr], own, home, made, removed)
    BY <1>1, <1>5 DEF Ghost, Stored
  <2>2. PICK m \in Managers : m = r.mgr
    BY <1>5
  <2> QED
    BY <1>6, <2>1, <2>2, ReloadedSound
<1>8. UNCHANGED <<visits, logins, now, current, next, count, token, made, registered, removed, deleted>>
  BY DEF FinishCheck
<1>9. Answer(r, own, home, made, file, count, challenges[r.mgr])
  BY <1>1, <1>3, <1>4 DEF Ghost, Asked
<1>10. PICK h : h = HandleIn(d, r)
  OBVIOUS
<1>14. h \in Handles \union {None}
  <2>1. d \in DB /\ made[r.key] \in Made /\ r.login \in Users \union {None}
    BY <1>2, <1>4, <1>5, <1>7, <1>9, Ids DEF Answer, Sound, Request
  <2> QED
    BY <1>10, <2>1 DEF HandleIn, DB, Made
<1>11. CASE ~ChallengeOK(r)
  <2>1. UNCHANGED <<challenges, db, file, faults, session, grants>>
    BY <1>3, <1>11 DEF FinishCheck
  <2>2. Shrunk
    BY <1>2, <1>4, <1>5, <2>1, Ends
  <2> QED
    BY <1>8, <2>1, <2>2, Untouched
<1>12. CASE ChallengeOK(r) /\ ~(h # None /\ d.handles[h] # None /\ r.key \in d.handles[h].keys)
  <2>1. Take(r) /\ Rollback(r.mgr, d) /\ UNCHANGED <<session, grants>>
    BY <1>3, <1>6, <1>10, <1>12 DEF FinishCheck
  <2>2. Shrunk
    BY <1>2, <1>4, <1>5, <2>1, Ends
  <2>3. db' = [db EXCEPT ![r.mgr] = d] /\ UNCHANGED <<file, faults>>
    BY <2>1 DEF Rollback
  <2>4. PICK m \in Managers : m = r.mgr
    BY <1>5
  <2> QED
    BY <1>1, <1>7, <1>8, <2>1, <2>2, <2>3, <2>4, RolledBack
<1>13. CASE ChallengeOK(r) /\ h # None /\ d.handles[h] # None /\ r.key \in d.handles[h].keys
  <2>1. PICK c : c = Refreshed(d.handles[h].claims, r.claims)
    OBVIOUS
  <2>2. PICK x : x = ClaimsSet(d, h, c)
    OBVIOUS
  <2>0. h \in Handles
    BY <1>13, <1>14
  <2>3. PICK g0 : g0 = Grant(r, c)
    OBVIOUS
  <2>4. /\ Take(r) /\ Commit(r.mgr, x, ok)
        /\ IF ok /\ Recent(c)
           THEN SetAuthToken(b, c.email, r.key) /\ grants' = grants \union {g0}
           ELSE UNCHANGED <<session, grants>>
    BY <1>3, <1>6, <1>10, <1>13, <2>1, <2>2, <2>3 DEF FinishCheck, ClaimsSet
  <2>5. Shrunk /\ \A n \in Managers : \A ch \in challenges'[n] : n = r.mgr => ch # r.ch
    BY <1>2, <1>4, <1>5, <2>4, Ends
  <2>6. /\ own[h] = d.handles[h].claims.email /\ own[h] \in Users /\ d.subjects[own[h]] # None
        /\ made[r.key].email = own[h] /\ made[r.key] # None /\ home[r.key] = h
    BY <1>7, <1>13, <2>0, SoundParts
  <2>7. c \in Claims /\ c.email = own[h] /\ c.email = d.handles[h].claims.email
    <3>1. d.handles[h].claims \in Claims /\ r.claims \in Claims \union {None}
      BY <1>5, <1>7, <1>13, <2>0, DBFields DEF Request, Sound
    <3> QED
      BY <2>1, <2>6, <3>1 DEF Refreshed
  <2>8. Sound(x, own, home, made, removed) /\ Later(d, x, {}, {}) /\ x.subjects = d.subjects
    BY <1>7, <1>13, <2>0, <2>2, <2>7, RefreshSound
  <2>9. Later(file, x, {}, {})
    <3>1. file \in DB
      BY <1>2 DEF TypeOK
    <3> QED
      BY <1>7, <2>8, <3>1, LaterOf
  <2>10. /\ db' = [db EXCEPT ![r.mgr] = x] /\ (file' = file \/ file' = x) /\ (ok => file' = x)
         /\ faults' \in 0..MaxFaults /\ faults <= faults'
    BY <1>2, <2>4, PasskeyAssumption DEF Commit, TypeOK
  <2>11. Moved(own, home, home, r.mgr, x)
    <3>1. \A u \in Users : file.subjects[u] # None => x.subjects[u] = file.subjects[u]
      BY <2>9 DEF Later
    <3>2. \A k \in Keys : home[k] # None => made[k] # None
      BY <1>1 DEF Ghost, Owners
    <3>3. Sound(x, own, home, made, removed') /\ removed \subseteq removed'
      BY <1>8, <2>8
    <3>4. UNCHANGED <<made, count>>
      BY <1>8
    <3> QED
      BY <2>5, <2>10, <3>1, <3>2, <3>3, <3>4 DEF Moved, Shrunk
  <2>12. c.iat \in Nat /\ now \in Nat /\ r.key \in Keys /\ c.email \in Users
    BY <1>2, <1>5, <2>7, Ids DEF Claims
  <2>13. /\ g0.id = r.ch.id /\ g0.key = r.key /\ g0.email = c.email
         /\ g0.live = (r.key \notin deleted)
         /\ g0.timely = (r.started <= r.ch.created + ChallengeLife)
         /\ g0.recent = (RefreshInterval > 0 => now <= c.iat + RefreshInterval)
    BY <2>3 DEF Grant
  <2>14. Wrote
    <3>1. /\ session' \in [Browsers -> Claims \union {None}]
          /\ \A y \in Browsers : session'[y] # session[y] /\ session'[y] # None =>
                file'.subjects[session'[y].email] # None
      <4>1. CASE ok /\ Recent(c)
        <5>1. PICK s : s = [email |-> c.email, iat |-> now, key |-> r.key]
          OBVIOUS
        <5>2. s \in Claims /\ s.email = c.email
          BY <2>12, <5>1 DEF Claims
        <5>3. session' = [session EXCEPT ![b] = s]
          BY <2>4, <4>1, <5>1 DEF SetAuthToken
        <5>4. file'.subjects[c.email] # None
          BY <2>6, <2>7, <2>8, <2>10, <4>1
        <5>5. session' \in [Browsers -> Claims \union {None}]
          BY <1>2, <5>2, <5>3 DEF TypeOK
        <5>6. \A y \in Browsers : session'[y] = session[y] \/ session'[y] = s
          BY <1>2, <5>3 DEF TypeOK
        <5> QED
          BY <5>2, <5>4, <5>5, <5>6
      <4>2. CASE ~(ok /\ Recent(c))
        BY <1>2, <2>4, <4>2 DEF TypeOK
      <4> QED
        BY <4>1, <4>2
    <3>2. /\ removed' \subseteq Keys /\ deleted' \subseteq removed' /\ registered' \subseteq Keys
      BY <1>2, <1>8 DEF TypeOK
    <3>3. grants' \subseteq Login
      <4>1. \A g \in grants' : g \in grants \/ g = g0
        BY <2>4
      <4>2. r.ch.id \in Challenges
        BY <1>2, <1>5, Ids
      <4>3. g0 \in Login
        BY <2>3, <2>12, <4>2 DEF Login, Grant
      <4> QED
        BY <1>2, <4>1, <4>3 DEF TypeOK
    <3> QED
      BY <1>8, <2>5, <2>10, <3>1, <3>2, <3>3 DEF Wrote, Shrunk
  <2>15. Recorded(home)'
    <3>1. /\ \A k \in registered \ removed' :
               /\ k \in KeysOf(file', made[k].email)
               /\ (~made[k].stale /\ \A j \in removed' : made[j].email # made[k].email)
                     => file'.subjects[made[k].email] = made[k].uid
          /\ \A k \in deleted : /\ file'.handles[home[k]] # None
                                /\ k \notin file'.handles[home[k]].keys
      <4>1. removed \subseteq removed' /\ {} \subseteq removed' /\ made' = made
        BY <1>8
      <4> QED
        BY <1>1, <1>2, <2>9, <2>10, <4>1, RecordedLater
    <3>2. RegistrationIsKept'
      <4>1. \A k \in registered' \ removed' :
              /\ k \in KeysOf(file, made[k].email)'
              /\ (~made[k].stale /\ \A j \in removed' : made[j].email # made[k].email)
                     => file'.subjects[made[k].email] = made[k].uid
        BY <1>8, <3>1 DEF KeysOf
      <4> QED
        BY <1>8, <4>1 DEF RegistrationIsKept
    <3> QED
      BY <1>1, <1>8, <3>1, <3>2 DEF Recorded, Ghost
  <2>16. Granted'
    <3>1. CASE ~(ok /\ Recent(c))
      <4>1. UNCHANGED <<grants, made, count, registered>>
        BY <1>8, <2>4, <3>1
      <4> QED
        BY <1>2, <2>5, <4>1, GrantedKept DEF Shrunk
    <3>2. CASE ok /\ Recent(c)
      <4>1. grants' = grants \union {g0}
        BY <2>4, <3>2
      <4>2. r.key \notin deleted
        <5> SUFFICES ASSUME r.key \in deleted PROVE FALSE
          OBVIOUS
        <5>1. file.handles[h] # None /\ r.key \notin file.handles[h].keys
          BY <1>1, <2>6 DEF Ghost, Recorded
        <5>2. d.handles[h] = file.handles[h]
          BY <1>7, <2>0, <5>1 DEF Extends
        <5> QED
          BY <1>13, <5>1, <5>2
      <4>3. r.ch \in challenges[r.mgr]
        BY <1>13 DEF ChallengeOK
      <4>4. /\ g0.email = made[g0.key].email /\ g0.live /\ g0.timely /\ g0.recent
        <5>1. r.started <= r.ch.created + ChallengeLife
          BY <1>9, <4>3 DEF Answer
        <5>2. RefreshInterval > 0 => now <= c.iat + RefreshInterval
          BY <3>2 DEF Recent
        <5> QED
          BY <2>6, <2>7, <2>13, <4>2, <5>1, <5>2
      <4>5. /\ \A g \in grants : g.id # r.ch.id
            /\ \A k \in registered : made[k].id # r.ch.id
        BY <1>2, <1>5, <4>3 DEF Granted
      <4>6. \A g \in grants : /\ g.email = made[g.key].email
                              /\ g.live /\ g.timely /\ g.recent
                              /\ \A g2 \in grants : g2.id = g.id => g2 = g
                              /\ \A k \in registered : made[k].id # g.id
        BY <1>2 DEF Granted, LoginIsSound
      <4>7. \A g, g2 \in grants \union {g0} : g2.id = g.id => g2 = g
        BY <2>13, <4>5, <4>6
      <4>8. LoginIsSound'
        <5>1. \A g \in grants' : /\ g.email = made[g.key].email
                                 /\ g.live /\ g.timely /\ g.recent
                                 /\ \A k \in registered : made[k].id # g.id
          BY <2>13, <4>1, <4>4, <4>5, <4>6
        <5>2. \A g, g2 \in grants' : g2.id = g.id => g2 = g
          BY <4>1, <4>7
        <5> QED
          BY <1>8, <5>1, <5>2 DEF LoginIsSound
      <4>9. ASSUME NEW g \in grants'
            PROVE  /\ made[g.key] # None /\ g.id <= count
                   /\ \A m \in Managers : \A y \in challenges'[m] : y.id # g.id
        <5>1. CASE g \in grants
          BY <1>2, <2>5, <5>1 DEF Granted, Shrunk
        <5>2. CASE g = g0
          <6>1. g.key = r.key /\ g.id = r.ch.id /\ made[r.key] # None /\ r.ch.id <= count
            BY <1>9, <2>6, <2>13, <5>2 DEF Answer, Options
          <6>2. \A m \in Managers : \A y \in challenges'[m] : y.id # r.ch.id
            BY <1>2, <1>5, <2>5, <4>3, TakenGone DEF Shrunk
          <6> QED
            BY <6>1, <6>2
        <5> QED
          BY <4>1, <5>1, <5>2
      <4>10. \A k \in registered :
                /\ made[k] # None /\ made[k].id <= count
                /\ \A m \in Managers : \A y \in challenges'[m] : y.id # made[k].id
        BY <1>2, <2>5 DEF Granted, Shrunk
      <4> QED
        BY <1>8, <4>8, <4>9, <4>10 DEF Granted
    <3> QED
      BY <3>1, <3>2
  <2>17. PICK m \in Managers : m = r.mgr
    BY <1>5
  <2> QED
    BY <1>1, <2>11, <2>14, <2>15, <2>16, <2>17, WriteStep
<1> QED
  BY <1>11, <1>12, <1>13

\* deleteKey, saved or not.
LEMMA DeleteKeyStep ==
    ASSUME IndInv, NEW b \in Browsers, NEW k \in Keys, NEW merge \in BOOLEAN, NEW ok \in BOOLEAN,
           DeleteKey(b, k, merge, ok)
    PROVE  IndInv'
<1>1. PICK own \in [Handles -> Users \union {None}], home \in [Keys -> Handles \union {None}] :
          Ghost(own, home)
  BY DEF IndInv
<1>2. TypeOK /\ Granted
  BY DEF IndInv
<1>3. current \in Managers /\ session[b] \in Claims /\ session[b].email \in Users
  BY <1>2 DEF TypeOK, DeleteKey, MayManage, Claims
<1>4. PICK d : d = Reloaded(current, merge)
  OBVIOUS
<1>5. Sound(d, own, home, made, removed) /\ Extends(file, d)
  <2>1. Sound(file, own, home, made, removed) /\ Sound(db[current], own, home, made, removed)
    BY <1>1, <1>3 DEF Ghost, Stored
  <2> QED
    BY <1>3, <1>4, <2>1, ReloadedSound
<1>6. PICK h : h = d.subjects[session[b].email]
  OBVIOUS
<1>7. h # None
  BY <1>4, <1>6 DEF DeleteKey
<1>8. h \in Handles /\ d.handles[h] # None
  BY <1>3, <1>5, <1>6, <1>7, SoundParts
<1>9. PICK x : x = [d EXCEPT !.handles[h].keys = @ \ {k}]
  OBVIOUS
<1>10. PICK gone : gone = {k} \intersect d.handles[h].keys
  OBVIOUS
<1>11. gone \subseteq {k} /\ \A j \in gone : j \in d.handles[h].keys
  BY <1>10
<1>12. /\ Commit(current, x, ok)
       /\ removed' = removed \union gone
       /\ deleted' = IF ok THEN deleted \union gone ELSE deleted
       /\ UNCHANGED <<visits, logins, now, challenges, current, next, count, token, session, req, made,
                      registered, grants>>
  BY <1>4, <1>6, <1>9, <1>10 DEF DeleteKey
<1>13. \A j \in d.handles[h].keys : home[j] = h /\ made[j] # None
  BY <1>5, <1>8, SoundParts
<1>14. /\ Sound(x, own, home, made, removed \union gone) /\ Later(d, x, gone, {}) /\ x.subjects = d.subjects
       /\ x.handles[h] # None /\ k \notin x.handles[h].keys
  <2>1. Cut(d, x, h, k, gone)
    BY <1>9, <1>10 DEF Cut
  <2> QED
    BY <1>5, <1>8, <2>1, DeleteSound
<1>15. Later(file, x, gone, {})
  <2>1. file \in DB
    BY <1>2 DEF TypeOK
  <2> QED
    BY <1>5, <1>14, <2>1, LaterOf
<1>16. /\ db' = [db EXCEPT ![current] = x] /\ (file' = file \/ file' = x) /\ (ok => file' = x)
       /\ faults' \in 0..MaxFaults /\ faults <= faults'
  BY <1>2, <1>12, PasskeyAssumption DEF Commit, TypeOK
<1>17. Shrunk
  BY <1>2, <1>12 DEF TypeOK, Shrunk
<1>18. Moved(own, home, home, current, x)
  <2>1. \A u \in Users : file.subjects[u] # None => x.subjects[u] = file.subjects[u]
    BY <1>15 DEF Later
  <2>2. \A j \in Keys : home[j] # None => made[j] # None
    BY <1>1 DEF Ghost, Owners
  <2>3. Sound(x, own, home, made, removed') /\ removed \subseteq removed'
    BY <1>12, <1>14
  <2>4. UNCHANGED <<made, count>>
    BY <1>12
  <2> QED
    BY <1>16, <1>17, <2>1, <2>2, <2>3, <2>4 DEF Moved, Shrunk
<1>19. Wrote
  <2>1. removed' \subseteq Keys /\ registered' \subseteq Keys /\ deleted' \subseteq removed'
    BY <1>2, <1>11, <1>12 DEF TypeOK
  <2>2. session' \in [Browsers -> Claims \union {None}] /\ \A y \in Browsers : session'[y] = session[y]
    BY <1>2, <1>12 DEF TypeOK
  <2>3. grants' \subseteq Login
    BY <1>2, <1>12 DEF TypeOK
  <2> QED
    BY <1>12, <1>16, <1>17, <2>1, <2>2, <2>3 DEF Wrote, Shrunk
<1>20. Granted'
  BY <1>2, <1>12, <1>17, GrantedKept DEF Shrunk
<1>21. Recorded(home)'
  <2>1. \A j \in registered' \union removed' : home[j] # None
    <3>1. \A j \in registered \union removed : home[j] # None
      BY <1>1, <1>2, MadeIs
    <3>2. \A j \in gone : home[j] # None
      BY <1>8, <1>11, <1>13, NoneIs
    <3> QED
      BY <1>12, <3>1, <3>2
  <2>2. /\ \A j \in registered \ removed' :
             /\ j \in KeysOf(file', made[j].email)
             /\ (~made[j].stale /\ \A i \in removed' : made[i].email # made[j].email)
                   => file'.subjects[made[j].email] = made[j].uid
        /\ \A j \in deleted : /\ file'.handles[home[j]] # None
                              /\ j \notin file'.handles[home[j]].keys
    <3>1. removed \subseteq removed' /\ gone \subseteq removed' /\ made' = made
      BY <1>12
    <3> QED
      BY <1>1, <1>2, <1>15, <1>16, <3>1, RecordedLater
  <2>3. RegistrationIsKept'
    <3>1. \A j \in registered' \ removed' :
            /\ j \in KeysOf(file, made[j].email)'
            /\ (~made[j].stale /\ \A i \in removed' : made[i].email # made[j].email)
                   => file'.subjects[made[j].email] = made[j].uid
      BY <1>12, <2>2 DEF KeysOf
    <3> QED
      BY <1>12, <3>1 DEF RegistrationIsKept
  <2>4. \A j \in deleted' : /\ file'.handles[home[j]] # None
                            /\ j \notin file'.handles[home[j]].keys
    <3>1. ASSUME ok, NEW j \in gone
          PROVE  file'.handles[home[j]] # None /\ j \notin file'.handles[home[j]].keys
      <4>1. j = k /\ home[j] = h /\ file' = x
        BY <1>11, <1>13, <1>16, <3>1
      <4> QED
        BY <1>14, <4>1
    <3> QED
      BY <1>12, <2>2, <3>1
  <2> QED
    BY <2>1, <2>3, <2>4 DEF Recorded
<1> QED
  BY <1>1, <1>3, <1>18, <1>19, <1>20, <1>21, WriteStep

\* Every step keeps the inductive invariant.
LEMMA Step == IndInv /\ [Next]_vars => IndInv'
<1> SUFFICES ASSUME IndInv, [Next]_vars PROVE IndInv'
  OBVIOUS
<1>1. TypeOK /\ Sessions
  BY DEF IndInv
<1>2. ASSUME NEW b \in Browsers, NEW k \in Keys, NEW ch \in Answerable, StartAddKey(b, k, ch, token[b])
      PROVE  IndInv'
  <2>1. PICK c : c = token[b]
    OBVIOUS
  <2>2. c \in Claims
    BY <1>1, <1>2, <2>1 DEF TypeOK, StartAddKey
  <2> QED
    BY <1>2, <2>1, <2>2, StartAddKeyStep
<1>3. ASSUME NEW b \in Browsers, NEW k \in Keys, NEW ch \in Answerable, StartAddKey(b, k, ch, session[b])
      PROVE  IndInv'
  <2>1. PICK c : c = session[b]
    OBVIOUS
  <2>2. c \in Claims
    BY <1>1, <1>3, <2>1 DEF TypeOK, StartAddKey
  <2> QED
    BY <1>3, <2>1, <2>2, StartAddKeyStep
<1>4. ASSUME NEW b \in Browsers, AttestationOptions(b, token[b]) PROVE IndInv'
  <2>1. PICK c : c = token[b]
    OBVIOUS
  <2>2. c \in Claims /\ c.key = None
    BY <1>1, <1>4, <2>1 DEF TypeOK, AttestationOptions, Sessions
  <2> QED
    BY <1>4, <2>1, <2>2, AttestationOptionsStep
<1>5. ASSUME NEW b \in Browsers, AttestationOptions(b, session[b]) PROVE IndInv'
  <2>1. PICK c : c = session[b]
    OBVIOUS
  <2>2. c \in Claims /\ file.subjects[c.email] # None
    BY <1>1, <1>5, <2>1 DEF TypeOK, AttestationOptions, Sessions
  <2> QED
    BY <1>5, <2>1, <2>2, AttestationOptionsStep
<1>6. ASSUME NEW b \in Browsers, HandleCallback(b) PROVE IndInv'
  BY <1>2, <1>4, <1>6, Plain, AssertionOptionsStep, StartCheckStep DEF HandleCallback
<1>7. ASSUME NEW b \in Browsers, ManageKeys(b) PROVE IndInv'
  BY <1>3, <1>5, <1>7, DeleteKeyStep DEF ManageKeys
<1>8. ASSUME NEW b \in Browsers, Finish(b) PROVE IndInv'
  BY <1>8, FinishAddKeyStep, FinishCheckStep DEF Finish
<1>9. ASSUME NEW b \in Browsers, RequestLogin(b) \/ \E u \in Users : ProviderLogin(b, u) PROVE IndInv'
  BY <1>9, Plain
<1>10. CASE Publish \/ Tick
  BY <1>10, Plain
<1>11. CASE Reconfigure
  BY <1>11, ReconfigureStep
<1>12. CASE UNCHANGED vars
  <2>1. UNCHANGED <<file, db, challenges, count, req, made, registered, removed, deleted, grants>>
    BY <1>12 DEF vars
  <2>2. TypeOK' /\ Numbers' /\ Sessions'
    BY <1>12 DEF IndInv, vars, visits, TypeOK, Numbers, Sessions
  <2> QED
    BY <2>1, <2>2, Same
<1> QED
  BY <1>6, <1>7, <1>8, <1>9, <1>10, <1>11, <1>12 DEF Next

\* IndInv holds in every reachable state.
THEOREM Inductive == Spec => []IndInv
BY InitHolds, Step, PTL DEF Spec

\* Type correctness of passkeys.
THEOREM TypeCorrect == Spec => []TypeOK
<1>1. IndInv => TypeOK
  BY DEF IndInv
<1> QED
  BY <1>1, Inductive, PTL

\* A passkey login is for the user who registered the key, found by a handle or by a
\* name, with a key whose deletion was not saved, on a recent word of the other provider;
\* its challenge, of a login or of a registration, had not expired and serves no other
\* login and no registration: however requests, managers, failed commits and what the
\* decoder leaves interleave.
THEOREM SoundLogin == Spec => []LoginIsSound
<1>1. IndInv => LoginIsSound
  BY DEF IndInv, Granted
<1> QED
  BY <1>1, Inductive, PTL

\* A key whose registration was reported as done stays in the file until its
\* deletion is asked for, and can be found by the handle that the authenticator
\* remembers, but for users who deleted keys and for stale options.
THEOREM Kept == Spec => []RegistrationIsKept
<1>1. IndInv => RegistrationIsKept
  BY DEF IndInv, Ghost, Recorded
<1> QED
  BY <1>1, Inductive, PTL
=============================================================================

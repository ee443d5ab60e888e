---------------------------- MODULE TokenManager ----------------------------
(***************************************************************************)
(* The signing keys of the token manager (proxy/internal/tokenmanager):    *)
(* their rotation every hour, the file they are saved in, the choice of    *)
(* the key for a new token, the validation of a token by key ID, and the   *)
(* public keys served to other services, which may cache them.             *)
(*                                                                         *)
(* Time is counted in rounds of KeyRotationLoop (hours).  One token and    *)
(* one cache stand for all of them: both come and go at any time.          *)
(* Failures are part of the model: a rotation may fail before it changes   *)
(* anything or when it saves the file, after the new keys are already in   *)
(* use; keys may fail to parse (the TPM was switched on or off, or returns *)
(* an error), and are then dropped from memory and from the file; and the  *)
(* process may stop and start again at any time.                           *)
(***************************************************************************)
EXTENDS Integers, Sequences, FiniteSets

CONSTANTS KeyTypes,     \* the types of the keys created together, in order
          NewAfter,     \* a new set of keys is made when the newest is older
          RetainFor,    \* the first key is removed when it is older
          SettleFor,    \* a key of this age or less is not used to sign
          CacheFor,     \* Cache-Control: max-age of the served keys
          TokenLife,    \* lifetime of a token
          MaxLag,       \* bound: rounds of rotation lost to failures and outages
          MaxUnsaved,   \* bound: age of keys that are in use but not saved
          MaxUnparsed,  \* bound: keys that fail to parse
          MaxTime,      \* bound: the last round
          None          \* no token

ASSUME TypesAssumption ==
    KeyTypes \in Seq(STRING) /\ KeyTypes # << >>
    /\ \A i, j \in DOMAIN KeyTypes : KeyTypes[i] = KeyTypes[j] => i = j
ASSUME TimesAssumption ==
    /\ NewAfter \in Nat /\ RetainFor \in Nat /\ SettleFor \in Nat
    /\ CacheFor \in Nat /\ TokenLife \in Nat \ {0} /\ MaxLag \in Nat /\ MaxTime \in Nat
    /\ MaxUnsaved \in Nat /\ MaxUnparsed \in Nat /\ CacheFor <= SettleFor

\* What the periods must satisfy for tokens to outlive the rotation.  With the
\* values of the code (24 h, 2 h, 20 h and 7 days), failures and outages may
\* delay the creation of saved keys by 5 days; and after keys could not be saved,
\* the rotations that follow must not fail early for more than 2 hours.  (The last
\* round of a token is the one before it expires, hence the 1.)
ASSUME LagAssumption ==
    /\ NewAfter + MaxLag + SettleFor + TokenLife <= RetainFor + 1
    /\ MaxUnsaved <= SettleFor

Types == {KeyTypes[i] : i \in DOMAIN KeyTypes}
Key == [id : Nat \X Types, type : Types, born : Nat]

VARIABLES now,       \* the current round
          file,      \* the saved keys, oldest first
          up,        \* the process is running
          keys,      \* tm.keys
          gen,       \* sets of keys created so far: it makes key IDs unique
          due,       \* KeyRotationLoop has not had its turn in this round
          tok,       \* a token that has not expired, or None
          cache,     \* what another service has cached and may still use, or None
          unparsed   \* history: the keys that failed to parse, and were dropped

vars == <<now, file, up, keys, gen, due, tok, cache, unparsed>>

TypeOK ==
    /\ now \in Nat /\ gen \in Nat /\ due \in BOOLEAN /\ up \in BOOLEAN
    /\ file \in Seq(Key) /\ keys \in Seq(Key)
    /\ tok \in {None} \union [id : Nat \X Types, issued : Nat, known : BOOLEAN]
    /\ cache \in {None} \union [ids : SUBSET (Nat \X Types), at : Nat]
    /\ unparsed \in SUBSET (Nat \X Types)

-----------------------------------------------------------------------------
(* Rotation.                                                               *)

Last(s) == s[Len(s)]

\* A variant that stamps the keys with the end of their first round.
NewKeysLate ==
    [i \in DOMAIN KeyTypes |->
        [id |-> <<gen, KeyTypes[i]>>, type |-> KeyTypes[i], born |-> now - 1]]

\* A variant that forgets the types after the first.
NewKeysOne == <<[id |-> <<gen, KeyTypes[1]>>, type |-> KeyTypes[1], born |-> now]>>

\* createNewTokenKeys
NewKeys ==
    [i \in DOMAIN KeyTypes |->
        [id |-> <<gen, KeyTypes[i]>>, type |-> KeyTypes[i], born |-> now]]

\* The steps of rotateKeys: keys for an empty file, keys when the newest are too
\* old, and then the removal of the first key, and of that one only.
WithFirst(ks) == IF ks = << >> THEN NewKeys ELSE ks
TooOld(ks) == Last(ks).born + NewAfter < now
WithNew(ks) == IF TooOld(ks) THEN ks \o NewKeys ELSE ks
\* A variant that counts from the wrong end of the retention.
WithoutOldEarly(ks) == IF ks[1].born + RetainFor - 1 < now THEN Tail(ks) ELSE ks
WithoutOld(ks) == IF ks[1].born + RetainFor < now THEN Tail(ks) ELSE ks
Rotated(ks) == WithoutOld(WithNew(WithFirst(ks)))

\* The keys that parse, in the same order: DeleteFunc removes those that are bad.
Parsed(ks, bad) ==
    LET first[i \in 0..Len(ks)] ==
            IF i = 0 THEN << >>
            ELSE IF ks[i].id \in bad THEN first[i - 1]
            ELSE Append(first[i - 1], ks[i])
    IN  first[Len(ks)]

\* rotateKeys gets to the end.  The keys are parsed, and those that fail are dropped
\* whatever the reason; the rest is in memory before it is saved, and saving may
\* fail.  What is left may be nothing at all: it is used, and saved, all the same.
RotateKeys(saved) ==
    /\ Rotated(file) # file \/ keys = << >>
    /\ LET r == Rotated(file)
       IN  \E bad \in SUBSET {r[i].id : i \in DOMAIN r} :
              /\ Cardinality(unparsed \union bad) <= MaxUnparsed
              /\ keys' = Parsed(r, bad)
              /\ file' = IF saved THEN Parsed(r, bad) ELSE file
              /\ unparsed' = unparsed \union bad
    /\ gen' = IF file = << >> \/ TooOld(file) THEN gen + 1 ELSE gen

\* It ends early: nothing to do, or an error before anything is changed.
RotateNothing == UNCHANGED <<keys, file, gen, unparsed>>

\* One round of KeyRotationLoop, which only logs an error.
Rotate ==
    /\ up /\ due
    /\ due' = FALSE
    /\ RotateKeys(TRUE) \/ RotateKeys(FALSE) \/ RotateNothing
    /\ UNCHANGED <<now, up, tok, cache>>

\* New, and the start of the loop.  The proxy does not start on an error.
Start ==
    /\ ~up
    /\ RotateKeys(TRUE)
    /\ up' = TRUE
    /\ due' = FALSE
    /\ UNCHANGED <<now, tok, cache>>

\* The process ends, for whatever reason and in whatever state.
Crash ==
    /\ up
    /\ up' = FALSE
    /\ keys' = << >>
    /\ UNCHANGED <<now, file, gen, due, tok, cache, unparsed>>

\* Failures and outages are bounded: neither the newest saved keys nor keys that are
\* only in memory get older than that.
WithinBounds ==
    /\ file # << >> => now + 1 - Last(file).born <= NewAfter + MaxLag
    /\ up /\ keys # << >> => \/ \E i \in DOMAIN file : file[i] = Last(keys)
                             \/ now + 1 - Last(keys).born <= MaxUnsaved

\* An hour passes.  While the process runs, the loop has had its turn.  Tokens and
\* cached keys expire.
Tick ==
    /\ now < MaxTime
    /\ up => ~due
    /\ WithinBounds
    /\ now' = now + 1
    /\ due' = TRUE
    /\ tok' = IF tok # None /\ now + 1 < tok.issued + TokenLife THEN tok ELSE None
    /\ cache' = IF cache # None /\ now + 1 <= cache.at + CacheFor THEN cache ELSE None
    /\ UNCHANGED <<file, up, keys, gen, unparsed>>

-----------------------------------------------------------------------------
(* Tokens and served keys.                                                 *)

OfType(t) == {i \in DOMAIN keys : keys[i].type = t}
Settled(t) == {i \in OfType(t) : keys[i].born + SettleFor < now}

\* A variant that always signs with the newest key.
NewestKey(t) == CHOOSE i \in OfType(t) : \A j \in OfType(t) : j <= i

\* CreateToken: "the most recent key that's at least 2 hours old", or else the
\* first one of the right type.
SigningKey(t) ==
    IF Settled(t) # {}
    THEN CHOOSE i \in Settled(t) : \A j \in Settled(t) : j <= i
    ELSE CHOOSE i \in OfType(t) : \A j \in OfType(t) : i <= j

KeyIDs == {keys[i].id : i \in DOMAIN keys}

\* CreateToken, when there is a key: it panics if there is none.  "known" records whether a service that keeps the served keys as
\* long as it may would recognize the key.
CreateToken(t) ==
    /\ up /\ tok = None /\ OfType(t) # {}
    /\ LET id == keys[SigningKey(t)].id
       IN  tok' = [id |-> id, issued |-> now,
                   known |-> (cache # None => id \in cache.ids)]
    /\ UNCHANGED <<now, file, up, keys, gen, due, cache, unparsed>>

\* getKey, called by ValidateToken, knows the key of the token.
GetKey(id) == id \in KeyIDs

\* ServeJWKS, to a service that caches the answer.
ServeJWKS ==
    /\ up /\ cache' = [ids |-> KeyIDs, at |-> now]
    /\ UNCHANGED <<now, file, up, keys, gen, due, tok, unparsed>>

-----------------------------------------------------------------------------
Init ==
    /\ now = 0 /\ gen = 0 /\ due = FALSE /\ up = FALSE
    /\ file = << >> /\ keys = << >>
    /\ tok = None /\ cache = None /\ unparsed = {}

Next ==
    \/ Rotate \/ Start \/ Crash \/ Tick \/ ServeJWKS
    \/ \E t \in Types : CreateToken(t)

Spec == Init /\ [][Next]_vars

-----------------------------------------------------------------------------
\* As long as failures and outages stay within MaxLag and every key parses, a token
\* that has not expired validates whenever the process is up: whatever key
\* CreateToken chose, rotateKeys keeps it, through lost saves and restarts.  (Once a
\* key is dropped, its own tokens fail, and older keys sign that are removed before
\* their tokens expire.)
TokenOutlivesRotation ==
    unparsed = {} /\ up /\ tok # None => GetKey(tok.id)

\* As long as every key parses, a service that follows the Cache-Control header of
\* ServeJWKS recognizes the key of every new token: CreateToken does not use keys
\* that are too recent for its cache, and falls back on such a key only when there
\* was no other.
CachesKnowNewTokens == unparsed = {} /\ tok # None => tok.known

\* CreateToken finds a key of every type (it would dereference nil otherwise), with
\* one exception: the key of that type that is as recent as any in memory could not
\* be parsed.  Neither the removal of old keys, nor a failed save, nor a restart
\* leaves a type without a key; and what a failed key leaves missing is back when
\* rotateKeys makes the next set.
CanSign ==
    up => \A t \in Types :
        \/ OfType(t) # {}
        \/ \E u \in unparsed : u[2] = t /\ \A i \in DOMAIN keys : keys[i].id[1] <= u[1]
=============================================================================

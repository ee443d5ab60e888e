----------------------------- MODULE Revocation -----------------------------
(***************************************************************************)
(* What becomes of a revocation: the certificate authority of PKI and a    *)
(* server that checks client certificates with OCSP, through the cache of  *)
(* proxy/internal/ocspcache.  The two may be different programs: each has  *)
(* its own restarts.                                                       *)
(*                                                                         *)
(* A client may staple an OCSP answer to its handshake; the cache is       *)
(* shared by all handshakes, saved every minute and read at the start.     *)
(***************************************************************************)
EXTENDS PKI

CONSTANTS Verifiers,   \* handshakes being verified (VerifyChains)
          MaxActive,   \* bound: requests and handshakes at the same time
          MaxWork,     \* bound: requests and handshakes in all
          FetchDelay   \* how old an answer may be when it arrives

\* A fetch gives up after 5 s, and the server lets HTTP caches keep an answer for
\* half of the hour that it is good for.
ASSUME FetchAssumption == FetchDelay \in Nat /\ FetchDelay < CRLRefreshPeriod
ASSUME WorkAssumption == MaxActive \in Nat /\ MaxWork \in Nat

VARIABLES cache,     \* serial -> the cached answer, or None
          saved,     \* the cache in the file
          stapled,   \* serial -> the answer that its owner staples, or None
          ver,       \* the handshakes: where they are
          work,      \* requests and handshakes so far
          late       \* some handshake let a certificate in too late

cacheVars == <<cache, saved, stapled, ver, late>>
vars == <<pkiVars, cacheVars, work>>

Response == [status : {"good", "revoked"}, nextUpdate : Nat]
ASSUME NoAnswerAssumption == None \notin Response
Waiting == [pc |-> "idle", sn |-> None, resp |-> None]

TypeOK ==
    /\ PKITypeOK
    /\ cache \in [Serials -> Response \union {None}]
    /\ saved \in [Serials -> Response \union {None}]
    /\ stapled \in [Serials -> Response \union {None}]
    /\ ver \in [Verifiers -> [pc : {"idle", "add", "look", "fetch", "fetched"},
                              sn : Serials \union {None}, resp : Response \union {None}]]
    /\ late \in BOOLEAN /\ work \in 0..MaxWork

Init ==
    /\ PKIInit
    /\ cache = [s \in Serials |-> None] /\ saved = cache /\ stapled = cache
    /\ ver = [v \in Verifiers |-> Waiting]
    /\ late = FALSE /\ work = 0

-----------------------------------------------------------------------------

Active ==
    Cardinality({p \in Procs : proc[p] # Idle})
    + Cardinality({v \in Verifiers : ver[v] # Waiting})

\* Another request or handshake begins, within the bounds.
Begin == Active < MaxActive /\ work < MaxWork /\ work' = work + 1

\* Response and VerifyChains use an answer until its next update.
Unexpired(r) == r # None /\ now < r.nextUpdate

\* The end of a handshake that had answer r.  A certificate is let in too late when
\* its revocation was reported a whole refresh period ago.
Finish(v, r) ==
    LET s == ver[v].sn IN
    /\ ver' = [ver EXCEPT ![v] = Waiting]
    /\ late' = (late \/ (/\ r.status = "good"
                         /\ acked[s] # None /\ acked[s].at + CRLRefreshPeriod <= now
                         /\ ~acked[s].old))

\* The owner of a certificate gets an answer to staple, and uses it until it expires.
Staple(s) ==
    /\ s \in db.issued /\ CanAnswer /\ ~Unexpired(stapled[s])
    /\ stapled' = [stapled EXCEPT ![s] = OCSPResponse(s)]
    /\ UNCHANGED <<pkiVars, cache, saved, ver, late>>

\* VerifyChains up to its first look at the cache: a good answer that is stapled
\* counts, unless the cache has another.
Verify(v, s) ==
    /\ ver[v] = Waiting /\ s \in file.issued
    /\ LET r == stapled[s]
           counts == Unexpired(r) /\ r.status = "good"
       IN  /\ ~(counts /\ cache[s] # None /\ cache[s].status = "revoked")
           /\ ver' = [ver EXCEPT ![v] =
                 IF counts THEN [Waiting EXCEPT !.pc = "add", !.sn = s, !.resp = r]
                 ELSE [Waiting EXCEPT !.pc = "look", !.sn = s]]
    /\ UNCHANGED <<pkiVars, cache, saved, stapled, late>>

\* The stapled answer goes into the cache, whatever is there by now.
AddStapled(v) ==
    /\ ver[v].pc = "add"
    /\ cache' = [cache EXCEPT ![ver[v].sn] = ver[v].resp]
    /\ ver' = [ver EXCEPT ![v].pc = "look", ![v].resp = None]
    /\ UNCHANGED <<pkiVars, saved, stapled, late>>

\* A variant that uses what is cached, expired or not.
UsableAny(r) == r # None

\* Response looks for an answer that has not expired.
Usable(r) == Unexpired(r)

Look(v) ==
    LET r == cache[ver[v].sn] IN
    /\ ver[v].pc = "look"
    /\ IF Usable(r) THEN Finish(v, r)
       ELSE ver' = [ver EXCEPT ![v].pc = "fetch"] /\ UNCHANGED late
    /\ UNCHANGED <<pkiVars, cache, saved, stapled>>

\* fetchOCSP: the server answers, and the answer arrives in time, or the handshake
\* fails.
Fetch(v) ==
    /\ ver[v].pc = "fetch" /\ CanAnswer
    /\ ver' = [ver EXCEPT ![v].pc = "fetched", ![v].resp = OCSPResponse(ver[v].sn)]
    /\ UNCHANGED <<pkiVars, cache, saved, stapled, late>>
FetchFails(v) ==
    /\ ver[v].pc \in {"fetch", "fetched"}
    /\ ver' = [ver EXCEPT ![v] = Waiting]
    /\ UNCHANGED <<pkiVars, cache, saved, stapled, late>>

\* Response adds it to the cache without a look at what is there.
AddFetched(v) ==
    /\ ver[v].pc = "fetched" /\ now + CRLRefreshPeriod <= ver[v].resp.nextUpdate + FetchDelay
    /\ cache' = [cache EXCEPT ![ver[v].sn] = ver[v].resp]
    /\ Finish(v, ver[v].resp)
    /\ UNCHANGED <<pkiVars, saved, stapled>>

\* The cache is full of other certificates.
Evict(s) ==
    /\ cache[s] # None
    /\ cache' = [cache EXCEPT ![s] = None]
    /\ UNCHANGED <<pkiVars, saved, stapled, ver, late>>

\* flush: what has not expired is saved.  After the last restart within the bound
\* nobody reads it.
Flush ==
    /\ faults < MaxFaults
    /\ saved' = [s \in Serials |->
          IF cache[s] # None /\ now <= cache[s].nextUpdate THEN cache[s] ELSE None]
    /\ UNCHANGED <<pkiVars, cache, stapled, ver, late>>

\* The server restarts and reads its file (load).
Load ==
    /\ faults < MaxFaults
    /\ faults' = faults + 1
    /\ cache' = [s \in Serials |-> IF Unexpired(saved[s]) THEN saved[s] ELSE None]
    /\ ver' = [v \in Verifiers |-> Waiting]
    /\ UNCHANGED <<now, file, db, proc, acked, served, saved, stapled, late>>

Tick ==
    /\ now < MaxTime
    /\ now' = now + 1
    /\ UNCHANGED <<file, db, proc, acked, served, faults, cacheVars>>

Staples == \E s \in Serials : Staple(s)
Handshakes ==
    \E v \in Verifiers :
        AddStapled(v) \/ Look(v) \/ Fetch(v) \/ FetchFails(v) \/ AddFetched(v)
Cache == Flush \/ Load \/ \E s \in Serials : Evict(s)

Next ==
    \/ Begin /\ PKIStart /\ UNCHANGED cacheVars
    \/ Begin /\ \E s \in Serials, v \in Verifiers : Verify(v, s)
    \/ PKIStep /\ UNCHANGED <<cacheVars, work>>
    \/ Staples /\ UNCHANGED work
    \/ Handshakes /\ UNCHANGED work
    \/ Cache /\ UNCHANGED work
    \/ Tick /\ UNCHANGED work

Spec == Init /\ [][Next]_vars

\* A certificate is not let in once its revocation, by the manager in use, is as old as
\* the refresh period: not by an answer stapled, fetched or cached before, added to the
\* cache late, over another one, or read back from the file (VerifyChains, Response,
\* flush, load).
RevokedIsNotLetInLate == ~late
=============================================================================

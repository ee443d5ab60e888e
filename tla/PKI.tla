--------------------------------- MODULE PKI ---------------------------------
(***************************************************************************)
(* The certificate authority (proxy/internal/pki): issuing and revoking    *)
(* certificates, its revocation lists (CRL), its OCSP answers, and the     *)
(* delegate certificates that sign the last two.                           *)
(*                                                                         *)
(* The manager keeps a copy of its file in memory.  An operation reads the *)
(* file again under the lock, changes the copy and commits it; when the    *)
(* commit fails the copy keeps the change until the next operation reads   *)
(* the file.  Questions about certificates are answered from the copy.     *)
(*                                                                         *)
(* Times in certificates, lists and answers are cut to whole seconds, and  *)
(* the refresh period is a number of seconds: the unit of time is the      *)
(* second, in which any number of steps happen.  A comparison of a cut     *)
(* time with the clock has the same result with the clock's second.        *)
(***************************************************************************)
EXTENDS Integers, Sequences, FiniteSets, SequencesExt

CONSTANTS Procs,            \* requests being served
          CRLRefreshPeriod, \* crlRefreshPeriod
          DelegateLifetime, \* caDelegateLifetime
          MaxNumCRL,        \* maxNumCRL
          MaxCerts,         \* bound: certificates issued
          MaxFaults,        \* bound: commits that fail, restarts and new configurations
          MaxTime,          \* bound: time
          None

ASSUME PKIAssumption ==
    /\ CRLRefreshPeriod \in Nat /\ DelegateLifetime \in Nat
    /\ MaxNumCRL \in Nat \ {0} /\ MaxCerts \in Nat /\ MaxFaults \in Nat /\ MaxTime \in Nat

\* None is not a time: it stands for a nil pointer, a zero time or a missing entry.
ASSUME NoneAssumption == None \notin Nat

VARIABLES now,
          file,     \* the saved certificateAuthority
          db,       \* m.db
          proc,     \* the requests: where they are
          acked,    \* serial -> when RevokeCertificate first returned without error, and
                    \* whether it was that of a manager that had been replaced; or None
          served,   \* the revocation list that was handed out last, or None
          faults    \* commits that failed, restarts and new configurations so far

pkiVars == <<now, file, db, proc, acked, served, faults>>

Serials == 1..MaxCerts

CRL == [number : Nat, thisUpdate : Nat, nextUpdate : Nat, revoked : SUBSET Serials]
CA == [issued : SUBSET Serials,                  \* the certificates IssuedCerts
       revocation : [Serials -> Nat \union {None}],
       revoked : SUBSET Serials,                 \* the map Revoked
       delegate : Nat \union {None},             \* when the last one was made
       crlNumber : Nat,
       crls : Seq(CRL)]

PKITypeOK ==
    /\ now \in 0..MaxTime /\ faults \in 0..MaxFaults
    /\ file \in CA /\ db \in CA
    /\ proc \in [Procs -> [pc : {"idle", "rotate", "rotateForOCSP", "list", "revoke"},
                           sn : Serials \union {None}, old : BOOLEAN]]
    /\ acked \in [Serials -> [at : Nat, old : BOOLEAN] \union {None}]
    /\ served \in {None} \union CRL

Idle == [pc |-> "idle", sn |-> None, old |-> FALSE]

PKIInit ==
    /\ now = 0 /\ faults = 0
    /\ file = [issued |-> {}, revocation |-> [s \in Serials |-> None], revoked |-> {},
               delegate |-> None, crlNumber |-> 0, crls |-> << >>]
    /\ db = file
    /\ proc = [p \in Procs |-> Idle]
    /\ acked = [s \in Serials |-> None]
    /\ served = None

-----------------------------------------------------------------------------
(* The file.                                                               *)

\* open: the copy is read again.  The decoder of the storage library may fill the
\* map it finds in memory instead of a new one: then what was there stays.
Reloaded(merge) ==
    IF merge THEN [file EXCEPT !.revoked = file.revoked \union db.revoked] ELSE file

\* commit(true): the copy is new in any case, the file if it can be written.
Commit(new, ok) ==
    /\ db' = new
    /\ file' = IF ok THEN new ELSE file
    /\ ~ok => faults < MaxFaults
    /\ faults' = IF ok THEN faults ELSE faults + 1

\* The same for request p.  The copy of a manager that was replaced is nobody else's.
ReloadedBy(p, merge) == IF proc[p].old THEN file ELSE Reloaded(merge)
Copy(p, new) == IF proc[p].old THEN db ELSE new
CommitBy(p, new, ok) ==
    /\ db' = Copy(p, new)
    /\ file' = IF ok THEN new ELSE file
    /\ ~ok => faults < MaxFaults
    /\ faults' = IF ok THEN faults ELSE faults + 1

-----------------------------------------------------------------------------
(* Certificates.                                                           *)

Revoked(ca) == {s \in ca.issued : ca.revocation[s] # None}

\* signCertificate
WithCert(ca, s) == [ca EXCEPT !.issued = @ \union {s}]

\* IssueCertificate, with a random serial number.
IssueCertificate(s, merge, ok) == Commit(WithCert(Reloaded(merge), s), ok)

\* handleRequestCert, for a good request: the serial number is a new one.
HandleRequestCert(merge, ok) ==
    LET known == db.issued \union file.issued IN
    /\ \E s \in Serials \ known :
        1..(s - 1) \subseteq known /\ IssueCertificate(s, merge, ok)
    /\ UNCHANGED <<now, proc, acked, served>>

\* findCert: the certificates that can be revoked.
Found == db.issued \ Revoked(db)

\* handleRevokeCert looks the certificate up, in a critical section of its own.
FindCert(p, s) ==
    /\ proc[p] = Idle
    /\ s \in Found
    /\ proc' = [proc EXCEPT ![p] = [Idle EXCEPT !.pc = "revoke", !.sn = s]]
    /\ UNCHANGED <<now, file, db, acked, served, faults>>

\* A variant that leaves the map of revoked serial numbers alone.
WithRevokedNoMap(ca, s) == [ca EXCEPT !.revocation[s] = now]

\* The certificate is revoked, in both of the places that say so.
WithRevoked(ca, s) ==
    [ca EXCEPT !.revocation[s] = now, !.revoked = @ \union {s}]

\* RevokeCertificate.  The certificate may be gone when it was never saved, and may
\* have been revoked by another request: then its time is set again.
RevokeCertificate(p, merge, ok) ==
    LET s  == proc[p].sn
        ca == ReloadedBy(p, merge)
    IN
    /\ proc[p].pc = "revoke"
    /\ IF s \in ca.issued
       THEN /\ CommitBy(p, WithRevoked(ca, s), ok)
            /\ acked' = IF ok /\ acked[s] = None
                        THEN [acked EXCEPT ![s] = [at |-> now, old |-> proc[p].old]] ELSE acked
       ELSE ok /\ db' = Copy(p, ca) /\ UNCHANGED <<file, faults, acked>>
    /\ proc' = [proc EXCEPT ![p] = Idle]
    /\ UNCHANGED <<now, served>>

-----------------------------------------------------------------------------
(* Delegate certificates, revocation lists and OCSP answers.               *)

\* maybeRotateDelegateCert: the delegate is missing or past half of its life.
NeedsDelegate(ca) ==
    ca.delegate # None => ca.delegate + DelegateLifetime \div 2 < now

\* The check is made without the lock.
StartList(p) ==
    /\ proc[p] = Idle
    /\ proc' = [proc EXCEPT ![p].pc = IF NeedsDelegate(db) THEN "rotate" ELSE "list"]
    /\ UNCHANGED <<now, file, db, acked, served, faults>>

\* OCSPResponse begins with the same check.
StartOCSP(p) ==
    /\ proc[p] = Idle /\ NeedsDelegate(db)
    /\ proc' = [proc EXCEPT ![p].pc = "rotateForOCSP"]
    /\ UNCHANGED <<now, file, db, acked, served, faults>>

\* signCertificate for the new delegate and its key; the request ends when they
\* cannot be saved.
RotateDelegate(p, merge, ok) ==
    LET ca == ReloadedBy(p, merge) IN
    /\ proc[p].pc \in {"rotate", "rotateForOCSP"}
    /\ CommitBy(p, [ca EXCEPT !.delegate = now], ok)
    /\ proc' = [proc EXCEPT ![p] =
          IF ok /\ proc[p].pc = "rotate" THEN [proc[p] EXCEPT !.pc = "list"] ELSE Idle]
    /\ UNCHANGED <<now, acked, served>>

\* A variant that compares with the time of the next list.
CRLIsFreshLate(ca) ==
    /\ ca.crls # << >>
    /\ LET last == Last(ca.crls) IN
       /\ \A c \in Revoked(ca) : last.nextUpdate >= ca.revocation[c]
       /\ last.nextUpdate + CRLRefreshPeriod \div 2 > now

\* RevocationList answers with the last list if no revocation is later than it.
CRLIsFresh(ca) ==
    /\ ca.crls # << >>
    /\ LET last == Last(ca.crls) IN
       /\ \A c \in Revoked(ca) : last.thisUpdate >= ca.revocation[c]
       /\ last.nextUpdate + CRLRefreshPeriod \div 2 > now

\* A variant that counts down.
NewCRLDown(ca) ==
    [number |-> ca.crlNumber - 1, thisUpdate |-> now,
     nextUpdate |-> now + CRLRefreshPeriod, revoked |-> Revoked(ca)]

NewCRL(ca) ==
    [number |-> ca.crlNumber + 1, thisUpdate |-> now,
     nextUpdate |-> now + CRLRefreshPeriod, revoked |-> Revoked(ca)]

WithCRL(ca) ==
    LET all == Append(ca.crls, NewCRL(ca)) IN
    [ca EXCEPT !.crlNumber = @ + 1,
               !.crls = IF Len(all) > MaxNumCRL THEN Tail(all) ELSE all]

HandOut(crl) == served' = crl

\* A variant that hands the new list out also when it was not saved.
HandOutNewAny(ca, ok) == HandOut(NewCRL(ca))

\* The new list is handed out if it was saved.
HandOutNew(ca, ok) == IF ok THEN HandOut(NewCRL(ca)) ELSE UNCHANGED served

\* The rest of RevocationList.  Without a delegate in the file it fails.
RevocationList(p, merge, ok) ==
    LET ca == ReloadedBy(p, merge) IN
    /\ proc[p].pc = "list"
    /\ \/ /\ ok /\ CRLIsFresh(ca)
          /\ db' = Copy(p, ca)
          /\ HandOut(Last(ca.crls))
          /\ UNCHANGED <<file, faults>>
       \/ /\ ok /\ ~CRLIsFresh(ca) /\ ca.delegate = None
          /\ db' = Copy(p, ca)
          /\ UNCHANGED <<file, faults, served>>
       \/ /\ ~CRLIsFresh(ca) /\ ca.delegate # None
          /\ CommitBy(p, WithCRL(ca), ok)
          /\ HandOutNew(ca, ok)
    /\ proc' = [proc EXCEPT ![p] = Idle]
    /\ UNCHANGED <<now, acked>>

\* IsRevoked
IsRevoked(s) == s \in db.revoked

\* The rest of OCSPResponse, from the copy in memory: a certificate that it does not
\* know is on hold.  The delegate to sign it with is there.
OCSPResponse(s) ==
    [status |-> IF s \in db.issued \ Revoked(db) THEN "good" ELSE "revoked",
     nextUpdate |-> now + CRLRefreshPeriod]
CanAnswer == db.delegate # None

\* The program stops and starts again (New): requests are gone.
Restart ==
    /\ faults < MaxFaults
    /\ faults' = faults + 1
    /\ db' = file
    /\ proc' = [p \in Procs |-> Idle]
    /\ UNCHANGED <<now, file, acked, served>>

\* Reconfigure makes a new manager; the requests under way go on with the old one.
Reconfigure ==
    /\ faults < MaxFaults
    /\ faults' = faults + 1
    /\ db' = file
    /\ proc' = [p \in Procs |-> [proc[p] EXCEPT !.old = proc[p] # Idle]]
    /\ UNCHANGED <<now, file, acked, served>>

PKIStart == \E p \in Procs : StartList(p) \/ StartOCSP(p) \/ \E s \in Serials : FindCert(p, s)

PKIStep ==
    \/ \E merge, ok \in BOOLEAN :
        \/ HandleRequestCert(merge, ok)
        \/ \E p \in Procs :
            \/ RevokeCertificate(p, merge, ok)
            \/ RotateDelegate(p, merge, ok)
            \/ RevocationList(p, merge, ok)
    \/ Restart \/ Reconfigure

-----------------------------------------------------------------------------
(* Properties.                                                             *)

\* A revocation that was reported as done is in the file and in memory from then on,
\* in the list of certificates and in the map that handshakes look at, through commits
\* that fail, restarts and concurrent requests (RevokeCertificate, open).  One that was
\* done by a manager that had been replaced is in the file; the manager in use learns
\* of it when it reads the file again.
RevocationIsDurable ==
    \A s \in Serials : acked[s] # None =>
        /\ s \in Revoked(file) /\ s \in file.revoked
        /\ ~acked[s].old => s \in Revoked(db) /\ IsRevoked(s)

\* The last revocation list, while it is handed out again, has every certificate
\* whose revocation was reported, but for those revoked in the very second that the
\* list was made in, and is younger than one and a half refresh periods
\* (RevocationList).
CRLIsCurrent ==
    CRLIsFresh(file) =>
        LET last == Last(file.crls) IN
        /\ \A s \in Serials : acked[s] # None =>
              s \in last.revoked \/ acked[s].at = last.thisUpdate
        /\ now < last.thisUpdate + CRLRefreshPeriod + CRLRefreshPeriod \div 2

\* A revocation list that differs from the one handed out before it has a greater
\* number, also when the file could not be written in between (CRLNumber).
CRLNumbersGrow ==
    [][served # None /\ served' # served => served'.number > served.number]_pkiVars
==============================================================================

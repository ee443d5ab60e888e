------------------------- MODULE Revocation_proofs -------------------------
(***************************************************************************)
(* Proofs about revocations, for any number of certificates, requests and  *)
(* handshakes, any refresh period and any bound on time and faults.        *)
(*                                                                         *)
(* The inductive invariant says of the authority that what was reported as *)
(* revoked stays revoked (RevocationIsDurable), that the last list of the  *)
(* file is the one its number was given to and has all that was reported   *)
(* before it was made (Lists), and that no list with a greater number than *)
(* the file's was handed out (Handed).  Of the server it says that no      *)
(* answer, wherever it is kept, outlives the refresh period by the clock   *)
(* nor, if it says "good", by the revocation (Answers).                    *)
(*                                                                         *)
(* Every operation of the authority has the same Effect: the invariant is  *)
(* kept, the numbers of the lists handed out grow, and a revocation that   *)
(* is reported is reported at the present time.  The answers of the server *)
(* are kept within their bounds by any step with that effect.              *)
(***************************************************************************)
EXTENDS Revocation, TLAPS

\* ca has what the file has, and perhaps more revoked serial numbers: open reads
\* the file, and may merge the map of revoked numbers with the one in memory.
Opened(ca) ==
    /\ ca \in CA
    /\ ca.issued = file.issued /\ ca.revocation = file.revocation
    /\ file.revoked \subseteq ca.revoked
    /\ ca.crlNumber = file.crlNumber /\ ca.crls = file.crls

\* b has the certificates and the revocations of a.
Keeps(a, b) ==
    /\ a.issued \subseteq b.issued /\ a.revoked \subseteq b.revoked
    /\ \A s \in Serials : a.revocation[s] # None => b.revocation[s] # None

\* The lists of b are those of a.
Listed(a, b) == b.crls = a.crls /\ b.crlNumber = a.crlNumber

\* Whatever manager a request has, and whether or not the decoder merges, open
\* gives it what is in the file.
LEMMA OpenReadsTheFile ==
    ASSUME PKITypeOK, NEW merge \in BOOLEAN
    PROVE  Opened(Reloaded(merge)) /\ \A p \in Procs : Opened(ReloadedBy(p, merge))
<1>1. Opened(file)
  BY DEF PKITypeOK, Opened, CA
<1>2. Opened([file EXCEPT !.revoked = file.revoked \union db.revoked])
  BY DEF PKITypeOK, Opened, CA
<1> QED
  BY <1>1, <1>2 DEF Reloaded, ReloadedBy

\* Issuing a certificate keeps certificates, revocations and lists.
LEMMA WithCertKeeps ==
    ASSUME NEW ca \in CA, NEW s \in Serials
    PROVE  /\ WithCert(ca, s) \in CA /\ Keeps(ca, WithCert(ca, s))
           /\ Listed(ca, WithCert(ca, s))
           /\ WithCert(ca, s).revocation = ca.revocation
BY DEF WithCert, Keeps, CA, Listed

\* Revoking a certificate keeps the others and the lists.
LEMMA WithRevokedKeeps ==
    ASSUME NEW ca \in CA, NEW s \in Serials, now \in Nat
    PROVE  /\ WithRevoked(ca, s) \in CA /\ Keeps(ca, WithRevoked(ca, s))
           /\ Listed(ca, WithRevoked(ca, s))
           /\ WithRevoked(ca, s).revocation = [ca.revocation EXCEPT ![s] = now]
           /\ s \in WithRevoked(ca, s).revoked
           /\ WithRevoked(ca, s).issued = ca.issued
<1>1. [ca.revocation EXCEPT ![s] = now] \in [Serials -> Nat \union {None}]
  BY DEF CA
<1> QED
  BY <1>1, NoneAssumption DEF WithRevoked, Keeps, CA, Listed

\* A new delegate changes nothing else.
LEMMA WithDelegateKeeps ==
    ASSUME NEW ca \in CA, now \in Nat
    PROVE  /\ [ca EXCEPT !.delegate = now] \in CA /\ Keeps(ca, [ca EXCEPT !.delegate = now])
           /\ Listed(ca, [ca EXCEPT !.delegate = now])
           /\ [ca EXCEPT !.delegate = now].revocation = ca.revocation
BY DEF Keeps, CA, Listed

\* The list that RevocationList appends is the last one, also when it drops the
\* first one to make room: the bound on their number is not zero.
LEMMA LastIsTheAppended ==
    ASSUME NEW S, NEW l \in Seq(S), NEW x \in S, NEW n \in Nat \ {0}
    PROVE  LET all == Append(l, x)
               kept == IF Len(all) > n THEN Tail(all) ELSE all
           IN  kept \in Seq(S) /\ kept # << >> /\ Last(kept) = x
<1>1. Append(l, x) \in Seq(S) /\ Append(l, x) # << >> /\ Last(Append(l, x)) = x
  BY DEF Last
<1>2. CASE Len(Append(l, x)) > n
  <2>1. l # << >>
    BY <1>2
  <2> QED
    BY <1>2, <2>1 DEF Last
<1>3. CASE ~(Len(Append(l, x)) > n)
  BY <1>1, <1>3
<1> QED
  BY <1>2, <1>3

\* A new revocation list is the last one, has the number that the file will have,
\* and changes nothing else.
LEMMA WithCRLKeeps ==
    ASSUME NEW ca \in CA, now \in Nat
    PROVE  /\ NewCRL(ca) \in CRL
           /\ WithCRL(ca) \in CA /\ Keeps(ca, WithCRL(ca))
           /\ WithCRL(ca).crls # << >> /\ Last(WithCRL(ca).crls) = NewCRL(ca)
           /\ WithCRL(ca).crlNumber = NewCRL(ca).number
           /\ NewCRL(ca).number = ca.crlNumber + 1
           /\ WithCRL(ca).revocation = ca.revocation
<1>1. NewCRL(ca) \in CRL
  BY PKIAssumption DEF NewCRL, CA, CRL, Revoked
<1> DEFINE all == Append(ca.crls, NewCRL(ca))
           kept == IF Len(all) > MaxNumCRL THEN Tail(all) ELSE all
<1>2. kept \in Seq(CRL) /\ kept # << >> /\ Last(kept) = NewCRL(ca)
  BY <1>1, PKIAssumption, LastIsTheAppended DEF CA
<1>3. WithCRL(ca) = [ca EXCEPT !.crlNumber = @ + 1, !.crls = kept]
  BY DEF WithCRL
<1> HIDE DEF kept
<1>4. NewCRL(ca).number = ca.crlNumber + 1
  BY DEF NewCRL
<1>5. /\ WithCRL(ca).issued = ca.issued /\ WithCRL(ca).revoked = ca.revoked
      /\ WithCRL(ca).revocation = ca.revocation
      /\ WithCRL(ca).crlNumber = ca.crlNumber + 1 /\ WithCRL(ca).crls = kept
  BY <1>3 DEF CA
<1>6. WithCRL(ca) \in CA
  <2>1. ca.crlNumber + 1 \in Nat
    BY DEF CA
  <2> QED
    BY <1>2, <1>3, <2>1 DEF CA
<1> QED
  BY <1>1, <1>2, <1>4, <1>5, <1>6 DEF Keeps

\* The last of a non-empty sequence of lists is a list.
LEMMA LastIsAList == ASSUME NEW ca \in CA, ca.crls # << >> PROVE Last(ca.crls) \in CRL
BY DEF CA, Last


-----------------------------------------------------------------------------
\* The last list has the number of the file, every revocation that was reported
\* before the second it was made in, and is not of the future; the time of a
\* revocation is not before it was first reported, and not in the future.
Lists ==
    /\ file.crls # << >> =>
          LET last == Last(file.crls) IN
          /\ last.number = file.crlNumber
          /\ last.nextUpdate = last.thisUpdate + CRLRefreshPeriod
          /\ last.thisUpdate <= now
          /\ \A s \in Serials : acked[s] # None =>
                s \in last.revoked \/ acked[s].at >= last.thisUpdate
    /\ \A s \in Serials : acked[s] # None =>
          acked[s].at <= file.revocation[s] /\ file.revocation[s] <= now

\* The list handed out last is the last one of the file or an earlier one.
Handed ==
    served # None =>
        /\ file.crls # << >>
        /\ served.number <= file.crlNumber
        /\ served.number = file.crlNumber => served = Last(file.crls)

\* The types of proc.
Request == [pc : {"idle", "rotate", "rotateForOCSP", "list", "revoke"},
            sn : Serials \union {None}, old : BOOLEAN]

\* A request that revokes has a certificate to revoke.
Requests ==
    /\ proc \in [Procs -> Request]
    /\ \A p \in Procs : proc[p].pc = "revoke" => proc[p].sn \in Serials

\* The invariant of the authority.
PKIInv == PKITypeOK /\ Requests /\ RevocationIsDurable /\ Lists /\ Handed

\* What a step of the authority does to those who depend on it.
Effect ==
    /\ PKIInv'
    /\ now' = now
    /\ \A s \in Serials : acked'[s] = acked[s] \/ acked'[s].at = now
    /\ served # None /\ served' # served => served'.number > served.number

\* Reported revocations stay when the file keeps what it had and the memory is
\* either untouched or has all that the file had.
LEMMA DurableIsKept ==
    ASSUME PKITypeOK, RevocationIsDurable, Keeps(file, file'), db' = db \/ Keeps(file, db'),
           acked' = acked
    PROVE  RevocationIsDurable'
<1> SUFFICES ASSUME NEW s \in Serials, acked[s] # None
             PROVE  /\ s \in Revoked(file') /\ s \in file'.revoked
                    /\ ~acked[s].old => s \in Revoked(db') /\ s \in db'.revoked
  BY DEF RevocationIsDurable, IsRevoked
<1>1. s \in Revoked(file) /\ s \in file.revoked
  BY DEF RevocationIsDurable
<1>2. ~acked[s].old => s \in Revoked(db) /\ s \in db.revoked
  BY DEF RevocationIsDurable, IsRevoked
<1> QED
  BY <1>1, <1>2 DEF Keeps, Revoked

\* The lists are untouched when the file keeps them and the revocations.
LEMMA SameLists ==
    ASSUME Lists, Handed, Listed(file, file'), file'.revocation = file.revocation,
           acked' = acked, now' = now, served' = served
    PROVE  Lists' /\ Handed'
BY DEF Lists, Handed, Listed

\* A commit, saved or not, that touches neither revocations nor lists.
LEMMA PlainCommit ==
    ASSUME PKIInv, NEW new \in CA, Keeps(file, new), Listed(file, new),
           new.revocation = file.revocation,
           file' = file \/ file' = new, db' = db \/ db' = new,
           acked' = acked, now' = now, served' = served, faults' \in 0..MaxFaults,
           Requests'
    PROVE  Effect
<1>1. PKITypeOK'
  BY DEF PKITypeOK, PKIInv, Requests, Request
<1>2. Keeps(file, file') /\ Listed(file, file') /\ file'.revocation = file.revocation
  BY DEF Keeps, Listed
<1>3. RevocationIsDurable'
  BY <1>2, DurableIsKept DEF PKIInv
<1>4. Lists' /\ Handed'
  BY <1>2, SameLists DEF PKIInv
<1> QED
  BY <1>1, <1>3, <1>4 DEF Effect, PKIInv

\* A copy that was opened has what the file has.
LEMMA OpenedKeeps ==
    ASSUME NEW ca, Opened(ca) PROVE Keeps(file, ca) /\ Listed(file, ca)
BY DEF Opened, Keeps, Listed

\* handleRequestCert.
LEMMA IssuePreserves ==
    ASSUME PKIInv, NEW merge \in BOOLEAN, NEW ok \in BOOLEAN, HandleRequestCert(merge, ok)
    PROVE  Effect
<1>1. PICK s \in Serials : IssueCertificate(s, merge, ok)
  BY DEF HandleRequestCert
<1> DEFINE ca == Reloaded(merge)
           new == WithCert(ca, s)
<1>2. Opened(ca)
  BY OpenReadsTheFile DEF PKIInv
<1>3. ca \in CA /\ Keeps(file, ca) /\ Listed(file, ca) /\ ca.revocation = file.revocation
  BY <1>2, OpenedKeeps DEF Opened
<1>4. new \in CA /\ Keeps(ca, new) /\ Listed(ca, new) /\ new.revocation = ca.revocation
  BY <1>3, WithCertKeeps
<1>5. /\ db' = new /\ file' = (IF ok THEN new ELSE file)
      /\ faults' \in 0..MaxFaults
  BY <1>1, PKIAssumption DEF IssueCertificate, Commit, PKIInv, PKITypeOK
<1> HIDE DEF ca, new
<1>6. Keeps(file, new) /\ Listed(file, new) /\ new.revocation = file.revocation
  BY <1>3, <1>4 DEF Keeps, Listed
<1>7. UNCHANGED <<now, proc, acked, served>>
  BY DEF HandleRequestCert
<1>8. Requests'
  BY <1>7 DEF Requests, PKIInv
<1> QED
  BY <1>4, <1>5, <1>6, <1>7, <1>8, PlainCommit

\* One request moves on.
LEMMA RequestMoves ==
    ASSUME Requests, NEW p \in Procs, NEW r \in Request, r.pc = "revoke" => r.sn \in Serials,
           proc' = [proc EXCEPT ![p] = r]
    PROVE  Requests'
BY DEF Requests

\* A request that is done is no revocation.
LEMMA IdleIsARequest == Idle \in Request /\ Idle.pc # "revoke"
BY DEF Idle, Request

\* maybeRotateDelegateCert.
LEMMA RotatePreserves ==
    ASSUME PKIInv, NEW p \in Procs, NEW merge \in BOOLEAN, NEW ok \in BOOLEAN,
           RotateDelegate(p, merge, ok)
    PROVE  Effect
<1> DEFINE ca == ReloadedBy(p, merge)
           new == [ca EXCEPT !.delegate = now]
<1>1. Opened(ca)
  BY OpenReadsTheFile DEF PKIInv
<1>2. ca \in CA /\ Keeps(file, ca) /\ Listed(file, ca) /\ ca.revocation = file.revocation
  BY <1>1, OpenedKeeps DEF Opened
<1>3. new \in CA /\ Keeps(ca, new) /\ Listed(ca, new) /\ new.revocation = ca.revocation
  BY <1>2, WithDelegateKeeps DEF PKIInv, PKITypeOK
<1>4. /\ db' = Copy(p, new) /\ file' = (IF ok THEN new ELSE file)
      /\ faults' \in 0..MaxFaults
  BY PKIAssumption DEF RotateDelegate, CommitBy, PKIInv, PKITypeOK
<1>5. db' = db \/ db' = new
  BY <1>4 DEF Copy
<1> HIDE DEF ca, new
<1>6. Keeps(file, new) /\ Listed(file, new) /\ new.revocation = file.revocation
  BY <1>2, <1>3 DEF Keeps, Listed
<1>7. UNCHANGED <<now, acked, served>>
  BY DEF RotateDelegate
<1>8. Requests'
  <2> DEFINE r == IF ok /\ proc[p].pc = "rotate" THEN [proc[p] EXCEPT !.pc = "list"] ELSE Idle
  <2>1. r \in Request /\ r.pc # "revoke"
    BY IdleIsARequest DEF Requests, PKIInv, Request
  <2>2. proc' = [proc EXCEPT ![p] = r]
    BY DEF RotateDelegate
  <2> QED
    BY <2>1, <2>2, RequestMoves DEF PKIInv
<1> QED
  BY <1>3, <1>4, <1>5, <1>6, <1>7, <1>8, PlainCommit

\* A request begins: only its place changes.
LEMMA StartPreserves ==
    ASSUME PKIInv, PKIStart
    PROVE  Effect
<1>1. UNCHANGED <<now, file, db, acked, served, faults>>
  BY DEF PKIStart, StartList, StartOCSP, FindCert
<1>2. PICK p \in Procs : StartList(p) \/ StartOCSP(p) \/ \E s \in Serials : FindCert(p, s)
  BY DEF PKIStart
<1>3. Requests'
  <2>1. CASE StartList(p) \/ StartOCSP(p)
    <3>1. PICK where \in {"rotate", "list", "rotateForOCSP"} : proc' = [proc EXCEPT ![p].pc = where]
      BY <2>1 DEF StartList, StartOCSP
    <3>2. [proc[p] EXCEPT !.pc = where] \in Request
      BY DEF Requests, PKIInv, Request
    <3>3. [proc[p] EXCEPT !.pc = where].pc # "revoke"
      BY DEF Requests, PKIInv, Request
    <3> QED
      BY <3>1, <3>2, <3>3, RequestMoves DEF PKIInv
  <2>2. ASSUME NEW s \in Serials, FindCert(p, s) PROVE Requests'
    <3> DEFINE r == [Idle EXCEPT !.pc = "revoke", !.sn = s]
    <3>1. r \in Request /\ r.sn \in Serials
      BY DEF Request, Idle
    <3> QED
      BY <2>2, <3>1, RequestMoves DEF PKIInv, FindCert
  <2> QED
    BY <1>2, <2>1, <2>2
<1>4. file \in CA /\ Keeps(file, file) /\ Listed(file, file)
  BY DEF PKIInv, PKITypeOK, Keeps, Listed
<1> QED
  BY <1>1, <1>3, <1>4, PlainCommit DEF PKIInv, PKITypeOK

\* A restart or a new configuration: the new manager reads the file.
LEMMA RestartPreserves ==
    ASSUME PKIInv, Restart \/ Reconfigure
    PROVE  Effect
<1>1. /\ db' = file /\ faults' \in 0..MaxFaults
      /\ UNCHANGED <<now, file, acked, served>>
  BY PKIAssumption DEF Restart, Reconfigure, PKIInv, PKITypeOK
<1>2. Requests'
  <2>1. CASE Restart
    BY <2>1, IdleIsARequest DEF Restart, Requests
  <2>2. CASE Reconfigure
    <3> DEFINE r(p) == [proc[p] EXCEPT !.old = proc[p] # Idle]
    <3>1. proc' = [p \in Procs |-> r(p)]
      BY <2>2 DEF Reconfigure
    <3>2. ASSUME NEW p \in Procs
          PROVE  r(p) \in Request /\ (r(p).pc = "revoke" => r(p).sn \in Serials)
      <4>1. (proc[p] # Idle) \in BOOLEAN
        OBVIOUS
      <4>2. proc[p] \in Request /\ (proc[p].pc = "revoke" => proc[p].sn \in Serials)
        BY DEF PKIInv, Requests
      <4> QED
        BY <4>1, <4>2 DEF Request
    <3> HIDE DEF r
    <3> QED
      BY <3>1, <3>2 DEF Requests
  <2> QED
    BY <2>1, <2>2
<1>3. file \in CA /\ Keeps(file, file) /\ Listed(file, file)
  BY DEF PKIInv, PKITypeOK, Keeps, Listed
<1> QED
  BY <1>1, <1>2, <1>3, PlainCommit DEF PKIInv, PKITypeOK

\* RevokeCertificate: what is reported as revoked has been saved, and is in the
\* memory of the manager in use if that is the one that did it.
LEMMA RevokePreserves ==
    ASSUME PKIInv, NEW p \in Procs, NEW merge \in BOOLEAN, NEW ok \in BOOLEAN,
           RevokeCertificate(p, merge, ok)
    PROVE  Effect
<1> DEFINE ca == ReloadedBy(p, merge)
           s == proc[p].sn
           new == WithRevoked(ca, s)
<1>1. Opened(ca)
  BY OpenReadsTheFile DEF PKIInv
<1>2. ca \in CA /\ Keeps(file, ca) /\ Listed(file, ca) /\ ca.revocation = file.revocation
  BY <1>1, OpenedKeeps DEF Opened
<1>3. s \in Serials /\ now \in Nat
  BY PKIAssumption DEF RevokeCertificate, PKIInv, Requests, PKITypeOK
<1>4. Requests'
  BY IdleIsARequest, RequestMoves DEF RevokeCertificate, PKIInv
<1>5. UNCHANGED <<now, served>>
  BY DEF RevokeCertificate
<1>6. CASE s \notin ca.issued
  <2>1. db' = Copy(p, ca) /\ UNCHANGED <<file, faults, acked>>
    BY <1>6 DEF RevokeCertificate
  <2>2. db' = db \/ db' = ca
    BY <2>1 DEF Copy
  <2> HIDE DEF ca, s
  <2> QED
    BY <1>2, <1>4, <1>5, <2>1, <2>2, PlainCommit DEF PKIInv, PKITypeOK
<1>7. CASE s \in ca.issued
  <2>1. /\ new \in CA /\ Keeps(ca, new) /\ Listed(ca, new)
        /\ new.revocation = [ca.revocation EXCEPT ![s] = now]
        /\ s \in new.revoked /\ new.issued = ca.issued
    BY <1>2, <1>3, WithRevokedKeeps
  <2>2. /\ db' = Copy(p, new) /\ file' = (IF ok THEN new ELSE file)
        /\ faults' \in 0..MaxFaults
    BY <1>7, PKIAssumption DEF RevokeCertificate, CommitBy, PKIInv, PKITypeOK
  <2>3. db' = IF proc[p].old THEN db ELSE new
    BY <2>2 DEF Copy
  <2>4. acked' = IF ok /\ acked[s] = None
                 THEN [acked EXCEPT ![s] = [at |-> now, old |-> proc[p].old]] ELSE acked
    BY <1>7 DEF RevokeCertificate
  <2>5. s \in ca.issued
    BY <1>7
  <2> HIDE DEF ca, s, new
  <2>6. Keeps(file, new) /\ Listed(file, new) /\ s \in Revoked(new)
    BY <1>2, <1>3, <2>1, <2>5, NoneAssumption DEF Keeps, Listed, Revoked, CA
  <2>7. PKITypeOK'
    <3>1. [at |-> now, old |-> proc[p].old] \in [at : Nat, old : BOOLEAN]
      BY <1>3 DEF PKIInv, PKITypeOK
    <3>2. acked' \in [Serials -> [at : Nat, old : BOOLEAN] \union {None}]
      BY <1>3, <2>4, <3>1 DEF PKIInv, PKITypeOK
    <3> QED
      BY <1>4, <1>5, <2>1, <2>2, <2>3, <3>2 DEF PKIInv, PKITypeOK, Requests, Request
  <2>8. ASSUME NEW t \in Serials
        PROVE  \/ acked'[t] = acked[t]
               \/ ok /\ t = s /\ acked'[t] = [at |-> now, old |-> proc[p].old]
    BY <1>3, <2>4 DEF PKIInv, PKITypeOK
  <2>9. RevocationIsDurable'
    <3>1. ASSUME NEW t \in Serials, acked[t] # None
          PROVE  /\ t \in Revoked(file') /\ t \in file'.revoked
                 /\ ~acked[t].old => t \in Revoked(db') /\ t \in db'.revoked
      BY <3>1, <2>2, <2>3, <2>6 DEF PKIInv, RevocationIsDurable, IsRevoked, Keeps, Revoked
    <3>2. ASSUME ok
          PROVE  /\ s \in Revoked(file') /\ s \in file'.revoked
                 /\ ~proc[p].old => s \in Revoked(db') /\ s \in db'.revoked
      BY <3>2, <2>1, <2>2, <2>3, <2>6
    <3> QED
      BY <2>8, <3>1, <3>2 DEF RevocationIsDurable, IsRevoked
  <2>10. Lists' /\ Handed'
    <3>1. Listed(file, file')
      BY <2>2, <2>6 DEF Listed
    <3>2. Handed'
      BY <1>5, <3>1 DEF Handed, Listed, PKIInv
    <3>3. ASSUME NEW t \in Serials, acked'[t] # None
          PROVE  acked'[t].at <= file'.revocation[t] /\ file'.revocation[t] <= now
      <4>1. file'.revocation[t] = file.revocation[t] \/ file'.revocation[t] = now
        BY <1>2, <1>3, <2>1, <2>2 DEF CA
      <4>2. CASE acked'[t] = acked[t]
        <5>1. acked[t].at <= file.revocation[t] /\ file.revocation[t] <= now
          BY <3>3, <4>2 DEF PKIInv, Lists
        <5>2. acked[t].at \in Nat /\ file.revocation[t] \in Nat
          BY <3>3, <4>2 DEF PKIInv, PKITypeOK, CA, RevocationIsDurable, Revoked
        <5> QED
          BY <1>3, <4>1, <4>2, <5>1, <5>2
      <4>3. CASE ok /\ t = s /\ acked'[t] = [at |-> now, old |-> proc[p].old]
        <5>1. file'.revocation[t] = now
          BY <1>2, <1>3, <4>3, <2>1, <2>2 DEF CA
        <5> QED
          BY <1>3, <4>3, <5>1
      <4> QED
        BY <2>8, <4>2, <4>3
    <3>4. ASSUME file'.crls # << >>, NEW t \in Serials, acked'[t] # None
          PROVE  t \in Last(file'.crls).revoked \/ acked'[t].at >= Last(file'.crls).thisUpdate
      <4>1. file.crls # << >> /\ file'.crls = file.crls
        BY <3>1, <3>4 DEF Listed
      <4>2. Last(file.crls).thisUpdate <= now /\ Last(file.crls).thisUpdate \in Nat
        BY <4>1, LastIsAList DEF PKIInv, Lists, PKITypeOK, CRL
      <4> QED
        BY <3>4, <4>1, <4>2, <2>8, <1>3 DEF PKIInv, Lists
    <3> QED
      BY <1>5, <3>1, <3>2, <3>3, <3>4 DEF PKIInv, Lists, Listed
  <2> QED
    BY <1>4, <1>5, <2>7, <2>8, <2>9, <2>10 DEF Effect, PKIInv
<1> QED
  BY <1>6, <1>7

\* RevocationList: the last list again, an error, or a new list with the next
\* number, which is handed out only if it was saved.
LEMMA ListPreserves ==
    ASSUME PKIInv, NEW p \in Procs, NEW merge \in BOOLEAN, NEW ok \in BOOLEAN,
           RevocationList(p, merge, ok)
    PROVE  Effect
<1> DEFINE ca == ReloadedBy(p, merge)
           new == WithCRL(ca)
<1>1. Opened(ca)
  BY OpenReadsTheFile DEF PKIInv
<1>2. ca \in CA /\ Keeps(file, ca) /\ Listed(file, ca) /\ ca.revocation = file.revocation
  BY <1>1, OpenedKeeps DEF Opened
<1>3. now \in Nat
  BY DEF PKIInv, PKITypeOK
<1>4. Requests'
  BY IdleIsARequest, RequestMoves DEF RevocationList, PKIInv
<1>5. UNCHANGED <<now, acked>>
  BY DEF RevocationList
<1>6. CASE /\ ca.crls # << >> /\ db' = Copy(p, ca) /\ HandOut(Last(ca.crls))
           /\ UNCHANGED <<file, faults>>
  <2>1. db' = db \/ db' = ca
    BY <1>6 DEF Copy
  <2>2. served' = Last(file.crls) /\ served' \in CRL /\ file.crls # << >>
    BY <1>2, <1>6, LastIsAList DEF HandOut, Listed
  <2> HIDE DEF ca
  <2>3. PKITypeOK'
    BY <1>2, <1>4, <1>5, <1>6, <2>1, <2>2 DEF PKIInv, PKITypeOK, Requests, Request
  <2>4. Keeps(file, file') /\ (db' = db \/ Keeps(file, db'))
    BY <1>2, <1>6, <2>1 DEF Keeps
  <2>5. RevocationIsDurable'
    BY <1>5, <2>4, DurableIsKept DEF PKIInv
  <2>6. Lists'
    BY <1>5, <1>6 DEF Lists, PKIInv
  <2>7. served'.number = file.crlNumber /\ file.crlNumber \in Nat
    BY <2>2 DEF Lists, PKIInv, PKITypeOK, CA
  <2>8. Handed'
    BY <1>6, <2>2, <2>7 DEF Handed
  <2>9. served # None /\ served' # served => served'.number > served.number
    BY <2>2, <2>7 DEF Handed, PKIInv, PKITypeOK, CRL
  <2> QED
    BY <1>4, <1>5, <2>3, <2>5, <2>6, <2>8, <2>9 DEF Effect, PKIInv
<1>7. CASE db' = Copy(p, ca) /\ UNCHANGED <<file, faults, served>>
  <2>1. db' = db \/ db' = ca
    BY <1>7 DEF Copy
  <2> HIDE DEF ca
  <2> QED
    BY <1>2, <1>4, <1>5, <1>7, <2>1, PlainCommit DEF PKIInv, PKITypeOK
<1>8. CASE CommitBy(p, new, ok) /\ HandOutNew(ca, ok)
  <2>1. /\ NewCRL(ca) \in CRL /\ new \in CA /\ Keeps(ca, new)
        /\ new.crls # << >> /\ Last(new.crls) = NewCRL(ca)
        /\ new.crlNumber = NewCRL(ca).number /\ NewCRL(ca).number = ca.crlNumber + 1
        /\ new.revocation = ca.revocation
    BY <1>2, <1>3, WithCRLKeeps
  <2>2. /\ db' = Copy(p, new) /\ file' = (IF ok THEN new ELSE file)
        /\ faults' \in 0..MaxFaults
    BY <1>8, PKIAssumption DEF CommitBy, PKIInv, PKITypeOK
  <2>3. db' = db \/ db' = new
    BY <2>2 DEF Copy
  <2>4. served' = IF ok THEN NewCRL(ca) ELSE served
    BY <1>8 DEF HandOutNew, HandOut
  <2>5. /\ NewCRL(ca).thisUpdate = now /\ NewCRL(ca).nextUpdate = now + CRLRefreshPeriod
        /\ NewCRL(ca).revoked = Revoked(ca)
    BY DEF NewCRL
  <2> DEFINE list == NewCRL(ca)
  <2>6. list = NewCRL(ca)
    OBVIOUS
  <2> HIDE DEF ca, new, list
  <2>7. Keeps(file, new) /\ Keeps(file, file')
    BY <1>2, <2>1, <2>2 DEF Keeps
  <2>8. PKITypeOK'
    BY <1>2, <1>4, <1>5, <2>1, <2>2, <2>3, <2>4, <2>6 DEF PKIInv, PKITypeOK, Requests, Request
  <2>9. RevocationIsDurable'
    BY <1>5, <2>3, <2>7, DurableIsKept DEF PKIInv
  <2>10. file.crlNumber \in Nat /\ ca.crlNumber = file.crlNumber
    BY <1>2 DEF PKIInv, PKITypeOK, CA, Listed
  <2>11. Handed' /\ (served # None /\ served' # served => served'.number > served.number)
    <3>1. CASE ok
      BY <3>1, <2>1, <2>2, <2>4, <2>10 DEF PKIInv, PKITypeOK, CRL, Handed
    <3>2. CASE ~ok
      BY <3>2, <2>2, <2>4 DEF PKIInv, Handed
    <3> QED
      BY <3>1, <3>2
  <2>12. Lists'
    <3>1. CASE ok
      <4>1. /\ file' = new /\ file'.revocation = file.revocation
            /\ file'.crls # << >> /\ Last(file'.crls) = list
        BY <3>1, <1>2, <2>1, <2>2, <2>6
      <4>2. \A s \in Serials : acked[s] # None => s \in list.revoked
        BY <1>2, <2>5, <2>6, <2>7 DEF PKIInv, RevocationIsDurable, Revoked, Keeps
      <4>3. /\ list.number = file'.crlNumber /\ list.thisUpdate = now
            /\ list.nextUpdate = now + CRLRefreshPeriod
        BY <4>1, <2>1, <2>5, <2>6
      <4> QED
        BY <1>3, <1>5, <4>1, <4>2, <4>3 DEF PKIInv, Lists
    <3>2. CASE ~ok
      BY <3>2, <1>5, <2>2 DEF PKIInv, Lists
    <3> QED
      BY <3>1, <3>2
  <2> QED
    BY <1>4, <1>5, <2>8, <2>9, <2>11, <2>12 DEF Effect, PKIInv
<1> QED
  BY <1>6, <1>7, <1>8 DEF RevocationList, CRLIsFresh

\* Every operation of the authority has its effect.
LEMMA PKIPreserves ==
    ASSUME PKIInv, PKIStart \/ PKIStep
    PROVE  Effect
BY StartPreserves, IssuePreserves, RevokePreserves, RotatePreserves, ListPreserves,
   RestartPreserves DEF PKIStep

\* So has every step that leaves the authority alone.
LEMMA UnchangedPKI ==
    ASSUME PKIInv, UNCHANGED pkiVars
    PROVE  Effect
BY DEF Effect, PKIInv, PKITypeOK, Requests, RevocationIsDurable, Revoked, IsRevoked, Lists,
   Handed, pkiVars

\* Time passes: nothing that was reported or listed is in the future.
LEMMA TickPreserves ==
    ASSUME PKIInv, Tick
    PROVE  PKIInv' /\ now' = now + 1 /\ UNCHANGED <<acked, served>>
<1>1. PKITypeOK'
  BY PKIAssumption DEF PKIInv, PKITypeOK, Tick
<1>2. Requests' /\ RevocationIsDurable' /\ Handed'
  BY DEF PKIInv, Tick, Requests, RevocationIsDurable, Revoked, IsRevoked, Handed
<1>3. Lists'
  <2>1. now \in Nat /\ now' = now + 1 /\ UNCHANGED <<file, acked>>
    BY DEF PKIInv, PKITypeOK, Tick
  <2>2. ASSUME NEW s \in Serials, acked[s] # None
        PROVE  file.revocation[s] \in Nat
    BY <2>2 DEF PKIInv, PKITypeOK, RevocationIsDurable, Revoked, CA
  <2>3. file.crls # << >> => Last(file.crls).thisUpdate \in Nat
    BY LastIsAList DEF PKIInv, PKITypeOK, CRL
  <2> QED
    BY <2>1, <2>2, <2>3 DEF PKIInv, Lists
<1> QED
  BY <1>1, <1>2, <1>3 DEF PKIInv, Tick

\* A restart of the server that checks certificates leaves the authority alone.
LEMMA LoadPreserves ==
    ASSUME PKIInv, Load
    PROVE  Effect
BY PKIAssumption DEF Effect, PKIInv, PKITypeOK, Requests, RevocationIsDurable, Revoked,
   IsRevoked, Lists, Handed, Load

-----------------------------------------------------------------------------
\* The types of ver.
Handshake == [pc : {"idle", "add", "look", "fetch", "fetched"},
              sn : Serials \union {None}, resp : Response \union {None}]

\* The types of the variables of the server.
CacheTypeOK ==
    /\ cache \in [Serials -> Response \union {None}]
    /\ saved \in [Serials -> Response \union {None}]
    /\ stapled \in [Serials -> Response \union {None}]
    /\ ver \in [Verifiers -> Handshake]
    /\ late \in BOOLEAN

\* Answer r for certificate s is good for at most a refresh period from now, and,
\* if it says that s is good, for at most a refresh period from the time at which
\* the revocation of s was reported.
Answer(s, r) ==
    r \in Response =>
        /\ r.nextUpdate <= now + CRLRefreshPeriod
        /\ r.status = "good" /\ acked[s] # None /\ ~acked[s].old =>
              r.nextUpdate <= acked[s].at + CRLRefreshPeriod

\* A handshake under way has a certificate, and keeps to the bounds with the answer
\* that it holds.
Holds(h) ==
    /\ h.pc # "idle" => h.sn \in Serials
    /\ h.pc \in {"add", "fetched"} => h.resp \in Response /\ Answer(h.sn, h.resp)

\* All answers keep to the bounds: in the cache, in its file, with the owner of the
\* certificate, and in a handshake.
Answers ==
    /\ \A s \in Serials : Answer(s, cache[s]) /\ Answer(s, saved[s]) /\ Answer(s, stapled[s])
    /\ \A v \in Verifiers : Holds(ver[v])

\* The inductive invariant.
IndInv == PKIInv /\ CacheTypeOK /\ Answers /\ ~late /\ work \in 0..MaxWork

\* An answer stays within its bounds when the authority takes a step and when time
\* passes: a revocation that is reported now is reported after the answer was made.
LEMMA AnswerStays ==
    ASSUME PKIInv, PKIInv', NEW s \in Serials, NEW r, Answer(s, r),
           now' \in {now, now + 1}, acked'[s] = acked[s] \/ acked'[s].at = now
    PROVE  Answer(s, r)'
BY PKIAssumption DEF PKIInv, PKITypeOK, Answer, Response

\* So do all of them.
LEMMA AnswersStay ==
    ASSUME PKIInv, PKIInv', CacheTypeOK, Answers, UNCHANGED cacheVars, now' \in {now, now + 1},
           \A s \in Serials : acked'[s] = acked[s] \/ acked'[s].at = now
    PROVE  CacheTypeOK' /\ Answers'
<1>1. CacheTypeOK'
  BY DEF CacheTypeOK, cacheVars
<1>2. \A s \in Serials : Answer(s, cache[s])' /\ Answer(s, saved[s])' /\ Answer(s, stapled[s])'
  BY AnswerStays DEF Answers, cacheVars
<1>3. ASSUME NEW v \in Verifiers PROVE Holds(ver[v])'
  <2>1. Holds(ver[v]) /\ ver' = ver
    BY DEF Answers, cacheVars
  <2>2. CASE ver[v].pc \in {"add", "fetched"}
    <3>1. ver[v].sn \in Serials /\ ver[v].resp \in Response /\ Answer(ver[v].sn, ver[v].resp)
      BY <2>1, <2>2 DEF Holds
    <3>2. Answer(ver[v].sn, ver[v].resp)'
      BY <2>1, <3>1, AnswerStays
    <3> QED
      BY <2>1, <3>1, <3>2 DEF Holds
  <2>3. CASE ver[v].pc \notin {"add", "fetched"}
    BY <2>1, <2>3 DEF Holds
  <2> QED
    BY <2>2, <2>3
<1> QED
  BY <1>1, <1>2, <1>3 DEF Answers

\* A new answer keeps to the bounds: OCSPResponse says "good" only if the
\* revocation was not reported, which rests on RevocationIsDurable.
LEMMA NewAnswer ==
    ASSUME PKIInv, NEW s \in Serials
    PROVE  OCSPResponse(s) \in Response /\ Answer(s, OCSPResponse(s))
<1>1. now \in Nat /\ now + CRLRefreshPeriod \in Nat
  BY PKIAssumption DEF PKIInv, PKITypeOK
<1>2. OCSPResponse(s).status = "good" => acked[s] = None \/ acked[s].old
  BY DEF OCSPResponse, PKIInv, RevocationIsDurable
<1>3. /\ OCSPResponse(s).nextUpdate = now + CRLRefreshPeriod
      /\ OCSPResponse(s).status \in {"good", "revoked"}
      /\ OCSPResponse(s) \in Response
  BY <1>1 DEF OCSPResponse, Response
<1> QED
  BY <1>1, <1>2, <1>3, PKIAssumption DEF Answer

\* A handshake that uses an answer that has not expired lets nobody in too late.
LEMMA FinishIsInTime ==
    ASSUME PKIInv, ~late, NEW v \in Verifiers, NEW r \in Response, Answer(ver[v].sn, r),
           ver[v].sn \in Serials, now < r.nextUpdate, Finish(v, r)
    PROVE  late' \in BOOLEAN /\ ~late'
<1>1. now \in Nat /\ r.nextUpdate \in Nat
  BY DEF PKIInv, PKITypeOK, Response
<1>2. acked[ver[v].sn] # None => acked[ver[v].sn].at \in Nat
  BY DEF PKIInv, PKITypeOK
<1>3. ~(/\ r.status = "good"
        /\ acked[ver[v].sn] # None /\ acked[ver[v].sn].at + CRLRefreshPeriod <= now
        /\ ~acked[ver[v].sn].old)
  BY <1>1, <1>2, PKIAssumption DEF Answer
<1> QED
  BY <1>3, Zenon DEF Finish

\* A handshake that has not begun holds nothing.
LEMMA WaitingHolds == Waiting \in Handshake /\ Holds(Waiting)
BY DEF Waiting, Handshake, Holds

\* One handshake moves on.
LEMMA HandshakeMoves ==
    ASSUME CacheTypeOK, Answers, UNCHANGED <<now, acked>>, NEW v \in Verifiers,
           NEW h \in Handshake, Holds(h), ver' = [ver EXCEPT ![v] = h]
    PROVE  ver' \in [Verifiers -> Handshake] /\ \A w \in Verifiers : Holds(ver[w])'
BY DEF CacheTypeOK, Answers, Holds, Answer

\* The bounds depend on the clock and the reports alone.
LEMMA SameAnswers ==
    ASSUME UNCHANGED <<now, acked>>
    PROVE  \A s, r : Answer(s, r) <=> Answer(s, r)'
BY DEF Answer

\* The steps of handshakes, of the cache and of the owners of certificates.
LEMMA CachePreserves ==
    ASSUME IndInv, UNCHANGED pkiVars,
           \/ Staples \/ Handshakes \/ Flush \/ \E s \in Serials : Evict(s)
           \/ \E s \in Serials, v \in Verifiers : Verify(v, s)
    PROVE  CacheTypeOK' /\ Answers' /\ ~late'
<1> USE DEF IndInv
<1>1. UNCHANGED <<now, acked>>
  BY DEF pkiVars
<1>2. \A s, r : Answer(s, r) <=> Answer(s, r)'
  BY <1>1, SameAnswers
<1>3. \A v \in Verifiers : Holds(ver[v]) /\ ver[v] \in Handshake
  BY DEF Answers, CacheTypeOK
<1>4. UNCHANGED ver => ver' \in [Verifiers -> Handshake] /\ \A w \in Verifiers : Holds(ver[w])'
  BY <1>1, <1>3 DEF CacheTypeOK, Holds, Answer
<1>5. ASSUME NEW s \in Serials, Staple(s) PROVE CacheTypeOK' /\ Answers' /\ ~late'
  <2>1. OCSPResponse(s) \in Response /\ Answer(s, OCSPResponse(s))
    BY NewAnswer
  <2>2. /\ stapled' = [stapled EXCEPT ![s] = OCSPResponse(s)]
        /\ UNCHANGED <<cache, saved, ver, late>>
    BY <1>5 DEF Staple
  <2> HIDE DEF OCSPResponse
  <2> QED
    BY <1>2, <1>4, <2>1, <2>2 DEF CacheTypeOK, Answers
<1>6. ASSUME NEW s \in Serials, NEW v \in Verifiers, Verify(v, s)
      PROVE  CacheTypeOK' /\ Answers' /\ ~late'
  <2>1. UNCHANGED <<cache, saved, stapled, late>>
    BY <1>6 DEF Verify
  <2> DEFINE a == [Waiting EXCEPT !.pc = "add", !.sn = s, !.resp = stapled[s]]
             b == [Waiting EXCEPT !.pc = "look", !.sn = s]
  <2>2. (ver' = [ver EXCEPT ![v] = a] /\ stapled[s] # None) \/ ver' = [ver EXCEPT ![v] = b]
    BY <1>6 DEF Verify, Unexpired
  <2>3. b \in Handshake /\ Holds(b)
    BY DEF Handshake, Waiting, Holds
  <2>4. stapled[s] # None => a \in Handshake /\ Holds(a)
    <3>1. stapled[s] # None => stapled[s] \in Response /\ Answer(s, stapled[s])
      BY DEF CacheTypeOK, Answers
    <3>2. /\ a.pc = "add" /\ a.sn = s /\ a.resp = stapled[s]
          /\ stapled[s] # None => a \in Handshake
      BY <3>1 DEF Handshake, Waiting
    <3> QED
      BY <3>1, <3>2 DEF Holds
  <2> HIDE DEF a, b
  <2>5. ver' \in [Verifiers -> Handshake] /\ \A w \in Verifiers : Holds(ver[w])'
    BY <1>1, <2>2, <2>3, <2>4, HandshakeMoves
  <2> QED
    BY <1>2, <2>1, <2>5 DEF CacheTypeOK, Answers
<1>7. ASSUME NEW v \in Verifiers, AddStapled(v) PROVE CacheTypeOK' /\ Answers' /\ ~late'
  <2>1. /\ cache' = [cache EXCEPT ![ver[v].sn] = ver[v].resp]
        /\ UNCHANGED <<saved, stapled, late>>
    BY <1>7 DEF AddStapled
  <2>2. ver[v].sn \in Serials /\ ver[v].resp \in Response /\ Answer(ver[v].sn, ver[v].resp)
    BY <1>3, <1>7 DEF AddStapled, Holds
  <2> DEFINE h == [ver[v] EXCEPT !.pc = "look", !.resp = None]
  <2>3. h \in Handshake /\ Holds(h)
    BY <1>3, <2>2 DEF Handshake, Holds
  <2>4. ver' = [ver EXCEPT ![v] = h]
    BY <1>7 DEF AddStapled, CacheTypeOK
  <2> HIDE DEF h
  <2>5. ver' \in [Verifiers -> Handshake] /\ \A w \in Verifiers : Holds(ver[w])'
    BY <1>1, <2>3, <2>4, HandshakeMoves
  <2> QED
    BY <1>2, <2>1, <2>2, <2>5 DEF CacheTypeOK, Answers
<1>8. ASSUME NEW v \in Verifiers, Look(v) PROVE CacheTypeOK' /\ Answers' /\ ~late'
  <2>1. UNCHANGED <<cache, saved, stapled>>
    BY <1>8 DEF Look
  <2>2. ver[v].sn \in Serials
    BY <1>3, <1>8 DEF Look, Holds
  <2>3. /\ ver' \in [Verifiers -> Handshake] /\ \A w \in Verifiers : Holds(ver[w])'
        /\ late' \in BOOLEAN /\ ~late'
    <3>1. CASE Usable(cache[ver[v].sn])
      <4>1. Finish(v, cache[ver[v].sn])
        BY <1>8, <3>1 DEF Look
      <4>2. /\ cache[ver[v].sn] \in Response /\ now < cache[ver[v].sn].nextUpdate
            /\ Answer(ver[v].sn, cache[ver[v].sn])
        BY <2>2, <3>1 DEF Usable, Unexpired, CacheTypeOK, Answers
      <4>3. late' \in BOOLEAN /\ ~late'
        BY <2>2, <4>1, <4>2, FinishIsInTime
      <4>4. ver' = [ver EXCEPT ![v] = Waiting]
        BY <4>1 DEF Finish
      <4> QED
        BY <1>1, <4>3, <4>4, WaitingHolds, HandshakeMoves
    <3>2. CASE ~Usable(cache[ver[v].sn])
      <4> DEFINE h == [ver[v] EXCEPT !.pc = "fetch"]
      <4>1. ver' = [ver EXCEPT ![v] = h] /\ late' = late
        BY <1>8, <3>2 DEF Look, CacheTypeOK
      <4>3. late' \in BOOLEAN /\ ~late'
        BY <4>1 DEF CacheTypeOK
      <4>2. h \in Handshake /\ Holds(h)
        BY <1>3, <2>2 DEF Handshake, Holds
      <4> HIDE DEF h
      <4> QED
        BY <1>1, <4>1, <4>2, <4>3, HandshakeMoves
    <3> QED
      BY <3>1, <3>2
  <2> QED
    BY <1>2, <2>1, <2>3 DEF CacheTypeOK, Answers
<1>9. ASSUME NEW v \in Verifiers, Fetch(v) PROVE CacheTypeOK' /\ Answers' /\ ~late'
  <2>1. UNCHANGED <<cache, saved, stapled, late>>
    BY <1>9 DEF Fetch
  <2>2. ver[v].sn \in Serials
    BY <1>3, <1>9 DEF Fetch, Holds
  <2> DEFINE r == OCSPResponse(ver[v].sn)
             h == [ver[v] EXCEPT !.pc = "fetched", !.resp = r]
  <2>3. ver' = [ver EXCEPT ![v] = h]
    BY <1>9 DEF Fetch, CacheTypeOK
  <2>4. r \in Response /\ Answer(ver[v].sn, r)
    BY <2>2, NewAnswer
  <2> HIDE DEF r
  <2>5. h \in Handshake /\ h.sn = ver[v].sn /\ h.resp = r /\ h.pc = "fetched"
    BY <1>3, <2>4 DEF Handshake
  <2>6. Holds(h)
    BY <2>2, <2>4, <2>5 DEF Holds
  <2> HIDE DEF h
  <2>7. ver' \in [Verifiers -> Handshake] /\ \A w \in Verifiers : Holds(ver[w])'
    BY <1>1, <2>3, <2>5, <2>6, HandshakeMoves
  <2> QED
    BY <1>2, <2>1, <2>7 DEF CacheTypeOK, Answers
<1>10. ASSUME NEW v \in Verifiers, FetchFails(v) PROVE CacheTypeOK' /\ Answers' /\ ~late'
  <2>1. UNCHANGED <<cache, saved, stapled, late>> /\ ver' = [ver EXCEPT ![v] = Waiting]
    BY <1>10 DEF FetchFails
  <2>2. ver' \in [Verifiers -> Handshake] /\ \A w \in Verifiers : Holds(ver[w])'
    BY <1>1, <2>1, WaitingHolds, HandshakeMoves
  <2> QED
    BY <1>2, <2>1, <2>2 DEF CacheTypeOK, Answers
<1>11. ASSUME NEW v \in Verifiers, AddFetched(v) PROVE CacheTypeOK' /\ Answers' /\ ~late'
  <2>1. /\ cache' = [cache EXCEPT ![ver[v].sn] = ver[v].resp]
        /\ UNCHANGED <<saved, stapled>> /\ ver' = [ver EXCEPT ![v] = Waiting]
        /\ Finish(v, ver[v].resp)
    BY <1>11 DEF AddFetched, Finish
  <2>2. ver[v].sn \in Serials /\ ver[v].resp \in Response /\ Answer(ver[v].sn, ver[v].resp)
    BY <1>3, <1>11 DEF AddFetched, Holds
  <2>3. now < ver[v].resp.nextUpdate
    <3>1. now \in Nat /\ ver[v].resp.nextUpdate \in Nat
      BY <2>2 DEF PKIInv, PKITypeOK, Response
    <3>2. now + CRLRefreshPeriod <= ver[v].resp.nextUpdate + FetchDelay
      BY <1>11 DEF AddFetched
    <3> QED
      BY <3>1, <3>2, FetchAssumption, PKIAssumption
  <2>4. late' \in BOOLEAN /\ ~late'
    BY <2>1, <2>2, <2>3, FinishIsInTime
  <2>5. ver' \in [Verifiers -> Handshake] /\ \A w \in Verifiers : Holds(ver[w])'
    BY <1>1, <2>1, WaitingHolds, HandshakeMoves
  <2>6. /\ cache' \in [Serials -> Response \union {None}]
        /\ \A s \in Serials : Answer(s, cache[s])'
    BY <1>2, <2>1, <2>2 DEF CacheTypeOK, Answers
  <2> QED
    BY <1>2, <2>1, <2>4, <2>5, <2>6 DEF CacheTypeOK, Answers
<1>12. ASSUME NEW s \in Serials, Evict(s) PROVE CacheTypeOK' /\ Answers' /\ ~late'
  <2>1. cache' = [cache EXCEPT ![s] = None] /\ UNCHANGED <<saved, stapled, ver, late>>
    BY <1>12 DEF Evict
  <2>2. Answer(s, None)'
    BY NoAnswerAssumption DEF Answer
  <2> QED
    BY <1>2, <1>4, <2>1, <2>2 DEF CacheTypeOK, Answers
<1>13. CASE Flush
  <2>1. \A s \in Serials : Answer(s, None)
    BY NoAnswerAssumption DEF Answer
  <2> QED
    BY <1>2, <1>4, <1>13, <2>1 DEF CacheTypeOK, Answers, Flush
<1> QED
  BY <1>5, <1>6, <1>7, <1>8, <1>9, <1>10, <1>11, <1>12, <1>13 DEF Staples, Handshakes

\* load: the answers of the file are within the same bounds.
LEMMA LoadKeepsAnswers ==
    ASSUME IndInv, Load
    PROVE  CacheTypeOK' /\ Answers' /\ ~late'
<1>1. /\ cache' = [s \in Serials |-> IF Unexpired(saved[s]) THEN saved[s] ELSE None]
      /\ ver' = [v \in Verifiers |-> Waiting]
      /\ UNCHANGED <<now, acked, saved, stapled, late>>
  BY DEF Load
<1>2. \A s, r : Answer(s, r) <=> Answer(s, r)'
  BY <1>1, SameAnswers
<1>3. \A s \in Serials : Answer(s, None)
  BY NoAnswerAssumption DEF Answer
<1>4. CacheTypeOK'
  BY <1>1, WaitingHolds DEF IndInv, CacheTypeOK
<1>5. \A v \in Verifiers : Holds(ver[v])'
  BY <1>1 DEF Waiting, Holds
<1> QED
  BY <1>1, <1>2, <1>3, <1>4, <1>5 DEF IndInv, CacheTypeOK, Answers

\* The invariant holds at first.
LEMMA InitEstablishes == Init => IndInv
<1> SUFFICES ASSUME Init PROVE IndInv
  OBVIOUS
<1> USE DEF Init, PKIInit
<1>1. file \in CA
  BY DEF CA
<1>2. PKITypeOK /\ Requests
  BY <1>1, PKIAssumption, IdleIsARequest DEF PKITypeOK, Requests, Request
<1>3. RevocationIsDurable /\ Lists /\ Handed
  BY DEF RevocationIsDurable, Lists, Handed
<1>4. CacheTypeOK /\ ~late
  BY WaitingHolds DEF CacheTypeOK
<1>5. Answers
  BY WaitingHolds, NoAnswerAssumption DEF Answers, Answer
<1>6. work \in 0..MaxWork
  BY WorkAssumption
<1> QED
  BY <1>2, <1>3, <1>4, <1>5, <1>6 DEF IndInv, PKIInv

\* Every step keeps the invariant, and the numbers of the lists grow.
LEMMA NextPreserves ==
    ASSUME IndInv, [Next]_vars
    PROVE  /\ IndInv'
           /\ served # None /\ served' # served => served'.number > served.number
<1>1. CASE /\ PKIStart \/ PKIStep
           /\ UNCHANGED cacheVars /\ (UNCHANGED work \/ Begin)
  <2>1. Effect
    BY <1>1, PKIPreserves DEF IndInv
  <2>2. CacheTypeOK' /\ Answers'
    BY <1>1, <2>1, AnswersStay DEF IndInv, Effect
  <2>3. ~late' /\ work' \in 0..MaxWork
    BY <1>1, WorkAssumption DEF IndInv, cacheVars, Begin
  <2> QED
    BY <2>1, <2>2, <2>3 DEF IndInv, Effect
<1>2. CASE /\ \/ Staples \/ Handshakes \/ Flush \/ \E s \in Serials : Evict(s)
              \/ \E s \in Serials, v \in Verifiers : Verify(v, s)
           /\ UNCHANGED work \/ Begin
  <2>1. UNCHANGED pkiVars
    BY <1>2 DEF Staples, Staple, Handshakes, AddStapled, Look, Fetch, FetchFails, AddFetched, Flush,
       Evict, Verify
  <2>2. CacheTypeOK' /\ Answers' /\ ~late'
    BY <1>2, <2>1, CachePreserves
  <2>3. Effect
    BY <2>1, UnchangedPKI DEF IndInv
  <2>4. work' \in 0..MaxWork
    BY <1>2, WorkAssumption DEF IndInv, Begin
  <2> QED
    BY <2>2, <2>3, <2>4 DEF IndInv, Effect
<1>3. CASE Load /\ UNCHANGED work
  BY <1>3, LoadPreserves, LoadKeepsAnswers DEF IndInv, Effect
<1>4. CASE Tick /\ UNCHANGED work
  <2>1. PKIInv' /\ now' = now + 1 /\ UNCHANGED <<acked, served, cacheVars>>
    BY <1>4, TickPreserves DEF IndInv, Tick
  <2>2. CacheTypeOK' /\ Answers'
    BY <2>1, AnswersStay DEF IndInv
  <2> QED
    BY <1>4, <2>1, <2>2 DEF IndInv, cacheVars
<1>5. CASE UNCHANGED vars
  <2>1. Effect
    BY <1>5, UnchangedPKI DEF IndInv, vars
  <2>2. CacheTypeOK' /\ Answers'
    BY <1>5, <2>1, AnswersStay DEF IndInv, vars, Effect
  <2> QED
    BY <1>5, <2>1, <2>2 DEF IndInv, vars, cacheVars, Effect
<1> QED
  BY <1>1, <1>2, <1>3, <1>4, <1>5 DEF Next, Cache

\* The inductive invariant holds throughout, whatever the interleaving of requests
\* and handshakes, the commits that fail, the restarts and the new configurations.
THEOREM Inductive == Spec => []IndInv
BY InitEstablishes, NextPreserves, PTL DEF Spec

\* Type correctness of the authority and of the server that checks certificates.
THEOREM TypeCorrect == Spec => []TypeOK
<1>1. IndInv => TypeOK
  BY DEF IndInv, PKIInv, CacheTypeOK, TypeOK, Handshake
<1> QED
  BY <1>1, Inductive, PTL

\* A revocation that RevokeCertificate reported is in the file and in memory from
\* then on, in the list of certificates and in the map that handshakes look at.
THEOREM Durable == Spec => []RevocationIsDurable
<1>1. IndInv => RevocationIsDurable
  BY DEF IndInv, PKIInv
<1> QED
  BY <1>1, Inductive, PTL

\* The revocation list that RevocationList hands out again has every certificate
\* whose revocation was reported before the second it was made in, and is younger
\* than one and a half refresh periods.
THEOREM Current == Spec => []CRLIsCurrent
<1>1. IndInv => CRLIsCurrent
  <2> SUFFICES ASSUME IndInv, CRLIsFresh(file) PROVE CRLIsCurrent
    BY DEF CRLIsCurrent
  <2> DEFINE last == Last(file.crls)
  <2>1. file.crls # << >> /\ last \in CRL
    BY LastIsAList DEF CRLIsFresh, IndInv, PKIInv, PKITypeOK
  <2>2. /\ \A c \in Revoked(file) : last.thisUpdate >= file.revocation[c]
        /\ last.nextUpdate + CRLRefreshPeriod \div 2 > now
    BY DEF CRLIsFresh
  <2>3. /\ last.nextUpdate = last.thisUpdate + CRLRefreshPeriod
        /\ \A s \in Serials : acked[s] # None =>
              s \in last.revoked \/ acked[s].at >= last.thisUpdate
    BY <2>1 DEF IndInv, PKIInv, Lists
  <2> HIDE DEF last
  <2>4. ASSUME NEW s \in Serials, acked[s] # None, s \notin last.revoked
        PROVE  acked[s].at = last.thisUpdate
    <3>1. s \in Revoked(file) /\ acked[s].at <= file.revocation[s]
      BY <2>4 DEF IndInv, PKIInv, RevocationIsDurable, Lists
    <3>2. acked[s].at \in Nat /\ file.revocation[s] \in Nat /\ last.thisUpdate \in Nat
      BY <2>1, <2>4, <3>1 DEF IndInv, PKIInv, PKITypeOK, CA, Revoked, CRL
    <3> QED
      BY <2>2, <2>3, <2>4, <3>1, <3>2
  <2>5. now < last.thisUpdate + CRLRefreshPeriod + CRLRefreshPeriod \div 2
    BY <2>1, <2>2, <2>3, PKIAssumption DEF IndInv, PKIInv, PKITypeOK, CRL
  <2> QED
    BY <2>4, <2>5 DEF CRLIsCurrent, last
<1> QED
  BY <1>1, Inductive, PTL

\* A revocation list that differs from the one handed out before it has a greater
\* number (CRLNumber).
THEOREM NumbersGrow == Spec => CRLNumbersGrow
<1>1. IndInv /\ [Next]_vars =>
          [served # None /\ served' # served => served'.number > served.number]_pkiVars
  BY NextPreserves
<1> QED
  BY <1>1, Inductive, PTL DEF Spec, CRLNumbersGrow

\* No handshake lets a certificate in once its revocation is as old as the refresh
\* period, whatever was stapled, fetched, cached, evicted, flushed and loaded
\* before (VerifyChains, Response).
THEOREM NotLetInLate == Spec => []RevokedIsNotLetInLate
<1>1. IndInv => RevokedIsNotLetInLate
  BY DEF IndInv, RevokedIsNotLetInLate
<1> QED
  BY <1>1, Inductive, PTL
============================================================================

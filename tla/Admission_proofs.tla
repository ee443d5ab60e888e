-------------------------- MODULE Admission_proofs --------------------------
(***************************************************************************)
(* The admission control keeps the admitted connections below MaxOpen, for *)
(* every finite set of connections and every limit.                        *)
(*                                                                         *)
(* Inductive invariant: the types, CountsAreRanks (at most k tracked       *)
(* connections were told k or less, for every k) and the fact that an      *)
(* admitted connection was told less than MaxOpen.  The last two bound the *)
(* admitted connections that are tracked by MaxOpen - 1.                   *)
(***************************************************************************)
EXTENDS Admission, FiniteSetTheorems, TLAPS

\* The tracked connections that were told k or less.
Told(t, n, k) == {c \in t : n[c] <= k}

\* CountsAreRanks without the bound on k.
Ranks == \A k \in Nat : Cardinality(Told(tracked, numOpen, k)) <= k

\* An admitted connection was told less than MaxOpen.
AdmittedWereTold == \A c \in Conns : stage[c] = "admitted" => numOpen[c] < MaxOpen

\* A new connection is neither tracked nor counted.
NewIsUntracked == \A c \in Conns : stage[c] = "new" => c \notin tracked

IndInv == TypeOK /\ Ranks /\ AdmittedWereTold /\ NewIsUntracked

\* Part of a set of connections is finite, and no larger than the set.
LEMMA SubsetSize ==
    ASSUME NEW S \in SUBSET Conns, NEW T \in SUBSET S
    PROVE  /\ IsFiniteSet(S) /\ IsFiniteSet(T)
           /\ Cardinality(S) \in Nat /\ Cardinality(T) \in Nat
           /\ Cardinality(T) <= Cardinality(S)
BY ConnsAssumption, FS_Subset, FS_CardinalityType

\* The number add returns is a positive count.
LEMMA AddResultType ==
    ASSUME NEW t \in SUBSET Conns, NEW c \in Conns
    PROVE  AddResult(t, c) \in Nat
<1>1. t \union {c} \in SUBSET Conns
  OBVIOUS
<1> QED
  BY <1>1, SubsetSize DEF AddResult

\* Type correctness of the tracker, the counts and the stages.
THEOREM TypeCorrect == Spec => []TypeOK
<1>1. Init => TypeOK
  BY DEF Init, TypeOK, Stages
<1>2. TypeOK /\ [Next]_admissionVars => TypeOK'
  <2> SUFFICES ASSUME TypeOK, [Next]_admissionVars PROVE TypeOK'
    OBVIOUS
  <2>1. ASSUME NEW c \in Conns, Add(c) PROVE TypeOK'
    <3>1. AddResult(tracked, c) \in Nat
      BY AddResultType DEF TypeOK
    <3> QED
      BY <2>1, <3>1 DEF TypeOK, Add, Stages
  <2>2. ASSUME NEW c \in Conns, Admit(c) PROVE TypeOK'
    BY <2>2 DEF TypeOK, Admit, Stages
  <2>3. ASSUME NEW c \in Conns, Finish(c) PROVE TypeOK'
    BY <2>3 DEF TypeOK, Finish, Stages
  <2>4. ASSUME NEW c \in Conns, Remove(c) PROVE TypeOK'
    BY <2>4 DEF TypeOK, Remove
  <2>5. CASE UNCHANGED admissionVars
    BY <2>5 DEF TypeOK, admissionVars
  <2> QED
    BY <2>1, <2>2, <2>3, <2>4, <2>5 DEF Next
<1> QED
  BY <1>1, <1>2, PTL DEF Spec

\* Adding a connection keeps Ranks: a k below the new count is told nothing new,
\* and from the new count on, k is at least the number of tracked connections.
LEMMA AddKeepsRanks ==
    ASSUME TypeOK, Ranks, NewIsUntracked, NEW c \in Conns, Add(c)
    PROVE  Ranks'
<1> DEFINE n == AddResult(tracked, c)
<1> SUFFICES ASSUME NEW k \in Nat
             PROVE  Cardinality(Told(tracked', numOpen', k)) <= k
  BY DEF Ranks
<1>1. tracked' \in SUBSET Conns /\ n = Cardinality(tracked')
  BY DEF Add, AddResult, TypeOK
<1>2. n \in Nat /\ numOpen' = [numOpen EXCEPT ![c] = n]
  BY AddResultType DEF Add, TypeOK
<1>3. CASE k < n
  <2>1. Told(tracked', numOpen', k) = Told(tracked, numOpen, k)
    <3>1. \A d \in Conns : d # c => numOpen'[d] = numOpen[d]
      BY <1>2 DEF TypeOK
    <3>2. numOpen'[c] = n
      BY <1>2 DEF TypeOK
    <3>3. c \notin tracked /\ tracked' = tracked \union {c}
      BY DEF Add, NewIsUntracked
    <3> HIDE DEF n
    <3> QED
      BY <1>2, <1>3, <3>1, <3>2, <3>3 DEF Told, TypeOK
  <2> QED
    BY <2>1 DEF Ranks
<1>4. CASE n <= k
  <2>1. Told(tracked', numOpen', k) \in SUBSET tracked'
    BY DEF Told
  <2>2. /\ Cardinality(Told(tracked', numOpen', k)) \in Nat
        /\ Cardinality(Told(tracked', numOpen', k)) <= Cardinality(tracked')
    BY <1>1, <2>1, SubsetSize
  <2> QED
    BY <1>1, <1>2, <1>4, <2>2
<1> QED
  BY <1>2, <1>3, <1>4

\* Fewer tracked connections with the same counts keep Ranks.
LEMMA FewerKeepRanks ==
    ASSUME TypeOK, Ranks, tracked' \in SUBSET tracked, numOpen' = numOpen
    PROVE  Ranks'
<1> SUFFICES ASSUME NEW k \in Nat
             PROVE  Cardinality(Told(tracked', numOpen', k)) <= k
  BY DEF Ranks
<1>1. /\ Told(tracked, numOpen, k) \in SUBSET Conns
      /\ Told(tracked', numOpen', k) \in SUBSET Told(tracked, numOpen, k)
  BY DEF Told, TypeOK
<1>2. Cardinality(Told(tracked, numOpen, k)) <= k
  BY DEF Ranks
<1> QED
  BY <1>1, <1>2, SubsetSize

\* IndInv holds in the initial state.
LEMMA InitIndInv == Init => IndInv
<1> SUFFICES ASSUME Init PROVE IndInv
  OBVIOUS
<1>1. TypeOK /\ AdmittedWereTold /\ NewIsUntracked
  BY DEF Init, TypeOK, Stages, AdmittedWereTold, NewIsUntracked
<1>2. Ranks
  <2>1. \A k \in Nat : Told(tracked, numOpen, k) = {}
    BY DEF Init, Told
  <2> QED
    BY <2>1, FS_EmptySet DEF Ranks
<1> QED
  BY <1>1, <1>2 DEF IndInv

\* Every step keeps IndInv.
LEMMA NextIndInv == IndInv /\ TypeOK' /\ [Next]_admissionVars => IndInv'
<1> SUFFICES ASSUME IndInv, TypeOK', [Next]_admissionVars PROVE IndInv'
  OBVIOUS
<1> USE DEF IndInv
<1>1. ASSUME NEW c \in Conns, Add(c) PROVE IndInv'
  <2>1. Ranks'
    BY <1>1, AddKeepsRanks
  <2>2. AdmittedWereTold' /\ NewIsUntracked'
    BY <1>1 DEF Add, AdmittedWereTold, NewIsUntracked, TypeOK
  <2> QED
    BY <2>1, <2>2
<1>2. ASSUME NEW c \in Conns, Admit(c) PROVE IndInv'
  <2>1. Ranks'
    BY <1>2, FewerKeepRanks DEF Admit
  <2>2. AdmittedWereTold' /\ NewIsUntracked'
    BY <1>2 DEF Admit, BelowLimit, AdmittedWereTold, NewIsUntracked, TypeOK
  <2> QED
    BY <2>1, <2>2
<1>3. ASSUME NEW c \in Conns, Finish(c) PROVE IndInv'
  <2>1. Ranks'
    BY <1>3, FewerKeepRanks DEF Finish
  <2>2. AdmittedWereTold' /\ NewIsUntracked'
    BY <1>3 DEF Finish, AdmittedWereTold, NewIsUntracked, TypeOK
  <2> QED
    BY <2>1, <2>2
<1>4. ASSUME NEW c \in Conns, Remove(c) PROVE IndInv'
  <2>1. Ranks'
    BY <1>4, FewerKeepRanks DEF Remove
  <2>2. AdmittedWereTold' /\ NewIsUntracked'
    BY <1>4 DEF Remove, AdmittedWereTold, NewIsUntracked, TypeOK
  <2> QED
    BY <2>1, <2>2
<1>5. CASE UNCHANGED admissionVars
  BY <1>5 DEF admissionVars, TypeOK, Ranks, Told, AdmittedWereTold, NewIsUntracked
<1> QED
  BY <1>1, <1>2, <1>3, <1>4, <1>5 DEF Next

\* IndInv is an invariant.
LEMMA Inductive == Spec => []IndInv
BY InitIndInv, NextIndInv, TypeCorrect, PTL DEF Spec

\* Ranks gives the bounded form that TLC checks: however handlers, admissions and
\* close callbacks interleave, a count is never handed out too often.
THEOREM RanksHold == Spec => []CountsAreRanks
<1>1. IndInv => CountsAreRanks
  <2> SUFFICES ASSUME IndInv, NEW k \in 0 .. Cardinality(Conns)
               PROVE  Cardinality({c \in tracked : numOpen[c] <= k}) <= k
    BY DEF CountsAreRanks
  <2>1. k \in Nat
    BY SubsetSize
  <2> QED
    BY <2>1 DEF IndInv, Ranks, Told
<1> QED
  BY <1>1, Inductive, PTL

\* The admitted connections stay below MaxOpen, although each handler compares a
\* count that may be stale (handleConnection, numOpen >= p.cfg.MaxOpen).
THEOREM AdmissionIsBounded == Spec => []AdmittedBelowMaxOpen
<1>1. IndInv => AdmittedBelowMaxOpen
  <2> SUFFICES ASSUME IndInv PROVE AdmittedBelowMaxOpen
    OBVIOUS
  <2> DEFINE k == MaxOpen - 1
  <2>1. k \in Nat /\ k < MaxOpen
    BY MaxOpenAssumption
  <2>2. Admitted \in SUBSET Told(tracked, numOpen, k)
    BY MaxOpenAssumption DEF Admitted, Told, IndInv, AdmittedWereTold, TypeOK
  <2>3. Told(tracked, numOpen, k) \in SUBSET Conns
    BY DEF Told, IndInv, TypeOK
  <2>4. Cardinality(Told(tracked, numOpen, k)) <= k
    BY <2>1 DEF IndInv, Ranks
  <2> HIDE DEF k
  <2>5. /\ Cardinality(Admitted) \in Nat
        /\ Cardinality(Told(tracked, numOpen, k)) \in Nat
        /\ Cardinality(Admitted) <= Cardinality(Told(tracked, numOpen, k))
    BY <2>2, <2>3, SubsetSize
  <2> QED
    BY <2>1, <2>4, <2>5, MaxOpenAssumption DEF AdmittedBelowMaxOpen
<1> QED
  BY <1>1, Inductive, PTL
=============================================================================

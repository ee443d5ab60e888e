----------------------------- MODULE Admission -----------------------------
(***************************************************************************)
(* What the connection tracker and the MaxOpen check of the connection     *)
(* handlers promise together, with nothing of the handlers but the steps   *)
(* that touch them.  A handler adds its connection to the tracker, which   *)
(* answers with the number of tracked connections, compares that number    *)
(* with the limit later and on its own, and the connection is removed when *)
(* its close callback runs, at any time after that.  Nothing makes these   *)
(* three steps atomic.                                                     *)
(***************************************************************************)
EXTENDS Integers, FiniteSets

CONSTANTS Conns,    \* the incoming connections
          MaxOpen   \* cfg.MaxOpen, or the largest value it takes

ASSUME ConnsAssumption == IsFiniteSet(Conns)
ASSUME MaxOpenAssumption == MaxOpen \in Nat \ {0}

VARIABLES tracked,   \* the connections the tracker holds
          numOpen,   \* what add returned for each connection, 0 before
          stage      \* "new", "counted", "admitted" or "over"

admissionVars == <<tracked, numOpen, stage>>

Stages == {"new", "counted", "admitted", "over"}

TypeOK ==
    /\ tracked \in SUBSET Conns
    /\ numOpen \in [Conns -> Nat]
    /\ stage \in [Conns -> Stages]

Init ==
    /\ tracked = {}
    /\ numOpen = [c \in Conns |-> 0]
    /\ stage = [c \in Conns |-> "new"]

\* Variants: the size of the map read before the entry is stored, and the number
\* of other entries, also read too early.
AddResultBefore(t, c) == Cardinality(t)
AddResultOthers(t, c) == Cardinality(t) - 1

\* connTracker.add returns the size of the map, the new entry included.
AddResult(t, c) == Cardinality(t \union {c})

\* numOpen := p.inConns.add(conn)
Add(c) ==
    /\ stage[c] = "new"
    /\ tracked' = tracked \union {c}
    /\ numOpen' = [numOpen EXCEPT ![c] = AddResult(tracked, c)]
    /\ stage' = [stage EXCEPT ![c] = "counted"]

\* A variant of the comparison without the equality: one more connection gets in.
AtMostLimit(n) == n <= MaxOpen

\* numOpen >= p.cfg.MaxOpen refuses the connection.
BelowLimit(n) == n < MaxOpen

Admit(c) ==
    /\ stage[c] = "counted"
    /\ BelowLimit(numOpen[c])
    /\ stage' = [stage EXCEPT ![c] = "admitted"]
    /\ UNCHANGED <<tracked, numOpen>>

\* The handler refuses the connection (a limit that was lowered refuses more
\* than MaxOpen does), or an admitted connection comes to its end.
Finish(c) ==
    /\ stage[c] \in {"counted", "admitted"}
    /\ stage' = [stage EXCEPT ![c] = "over"]
    /\ UNCHANGED <<tracked, numOpen>>

\* The connection's close callback: p.inConns.remove(conn)
Remove(c) ==
    /\ c \in tracked
    /\ tracked' = tracked \ {c}
    /\ UNCHANGED <<numOpen, stage>>

Next == \E c \in Conns : Add(c) \/ Admit(c) \/ Finish(c) \/ Remove(c)

Spec == Init /\ [][Next]_admissionVars

-----------------------------------------------------------------------------
Admitted == {c \in tracked : stage[c] = "admitted"}

\* The admitted connections that are still tracked stay below MaxOpen although
\* each handler compares a count that is stale by the time it is used
\* (handleConnection, numOpen := p.inConns.add(conn) ... numOpen >= MaxOpen).
AdmittedBelowMaxOpen == Cardinality(Admitted) < MaxOpen

\* No count was handed out to more tracked connections than it can stand for:
\* at most k of them were told k or less.  This is why stale counts are safe.
CountsAreRanks ==
    \A k \in 0 .. Cardinality(Conns) :
        Cardinality({c \in tracked : numOpen[c] <= k}) <= k
=============================================================================

---------------------------- MODULE Dependencies ----------------------------
(***************************************************************************)
(* The depends_on graph of the checks, walked breadth first by the         *)
(* scheduler (cascade demote, await-upstream gate) and by the alarm engine *)
(* (suppression): scheduler.py and alarms/suppression.py.                  *)
(***************************************************************************)
EXTENDS Integers, FiniteSets

CONSTANTS
  Check,      \* the checks
  DependsOn   \* check -> the checks it depends on directly

ASSUME DependsAssumption ==
  /\ IsFiniteSet(Check)
  /\ DependsOn \in [Check -> SUBSET Check]

\* The checks within n + 1 edges of c: what the walk has visited after n
\* rounds.  A visited check is not expanded twice, so cycles are harmless.
Visited(c) ==
  LET V[n \in Nat] ==
        IF n = 0 THEN DependsOn[c]
        ELSE V[n - 1] \cup UNION {DependsOn[d] : d \in V[n - 1]}
  IN  V

Rounds == 0 .. Cardinality(Check)

\* Every check reachable from c: Scheduler._compute_transitive.
TransitiveDeps(c) == {d \in Check : d \in Visited(c)[Cardinality(Check)]}

\* The checks of the set sick that the walk from c meets first: one of them is
\* what it returns (which one is the order of declaration).
NearestAncestors(c, sick) ==
  {d \in sick :
     \E n \in Rounds :
       /\ d \in Visited(c)[n]
       /\ \A m \in Rounds : m < n => Visited(c)[m] \cap sick = {}}
=============================================================================

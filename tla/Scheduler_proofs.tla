-------------------------- MODULE Scheduler_proofs --------------------------
(***************************************************************************)
(* Proofs about the scheduler, for any graph of dependencies, any checks   *)
(* that hang or break, and any number of failed writes and restarts.       *)
(***************************************************************************)
EXTENDS Scheduler, FiniteSetTheorems, WellFoundedInduction, TLAPS

\* Every nonempty set of natural numbers has a least element.
LEMMA LeastElement ==
  ASSUME NEW S, S \subseteq Nat, S # {}
  PROVE  \E n \in S : \A m \in S : ~(m < n)
<1>1. IsWellFoundedOn(OpToRel(<, Nat), Nat)
  BY NatLessThanWellFounded
<1>2. PICK n \in S : \A m \in S : <<m, n>> \notin OpToRel(<, Nat)
  BY <1>1, WFMin
<1>3. ASSUME NEW m \in S, m < n PROVE FALSE
  <2>1. <<m, n>> \in OpToRel(<, Nat)
    BY <1>3 DEF OpToRel
  <2> QED
    BY <2>1, <1>2
<1> QED
  BY <1>2, <1>3

\* The walk misses nothing: if some check reachable from c is in the set sick,
\* then it returns one.  (_find_unhealthy_ancestor against _compute_transitive.)
LEMMA WalkFindsTheSick ==
  ASSUME NEW c \in Check, NEW sick \in SUBSET Check, sick \cap TransitiveDeps(c) # {}
  PROVE  NearestAncestors(c, sick) # {}
<1> DEFINE Hit == {n \in Rounds : Visited(c)[n] \cap sick # {}}
<1>1. Cardinality(Check) \in Nat
  BY DependsAssumption, FS_CardinalityType
<1>2. Cardinality(Check) \in Hit
  BY <1>1 DEF TransitiveDeps, Rounds
<1>3. Hit \subseteq Nat
  BY <1>1 DEF Rounds
<1>4. PICK n \in Hit : \A m \in Hit : ~(m < n)
  BY <1>2, <1>3, LeastElement
<1>5. PICK d \in sick : d \in Visited(c)[n]
  BY <1>4
<1>6. \A m \in Rounds : m < n => Visited(c)[m] \cap sick = {}
  BY <1>4
<1>7. d \in NearestAncestors(c, sick)
  <2> HIDE DEF Hit
  <2>1. n \in Rounds
    BY <1>4 DEF Hit
  <2> QED
    BY <1>5, <1>6, <2>1 DEF NearestAncestors
<1> QED
  BY <1>7

-----------------------------------------------------------------------------
(* The inductive invariant *)

\* Between publishing and persisting, a task has in hand what it published.
PublishedIsInHand == \A c \in Check : pc[c] = "persist" => latest_status[c] = result[c]

\* Only a run that waited out the cap has an upstream run to wait for still.
BehindOnlyCapped == \A c \in Check : behind[c] # {} => c \in capped

SInv ==
  TypeOK /\ SlotsAreRuns /\ PublishedIsInHand /\ CacheMatchesStore /\ BehindOnlyCapped

-----------------------------------------------------------------------------
(* Operators *)

\* The demotions turn whatever a run found into a verdict.
LEMMA VerdictType == \A c : Verdict_of(c) \in Verdict
BY DEF Verdict_of, Verdict

\* A verdict stays a failure only if the cache knows of no failing upstream.
LEMMA FailureIsNotDemoted ==
  ASSUME NEW c \in Check, Verdict_of(c) = "fail"
  PROVE  \A d \in TransitiveDeps(c) : latest_status[d] # "fail"
<1> DEFINE sick == {d \in Check : latest_status[d] = "fail"}
<1>1. NearestAncestors(c, sick) = {}
  BY DEF Verdict_of, UpstreamUnhealthy
<1>2. sick \cap TransitiveDeps(c) = {}
  <2>1. sick \in SUBSET Check
    OBVIOUS
  <2> HIDE DEF sick
  <2> QED
    BY <1>1, <2>1, WalkFindsTheSick
<1>3. TransitiveDeps(c) \subseteq Check
  BY DEF TransitiveDeps
<1> QED
  BY <1>2, <1>3

-----------------------------------------------------------------------------
(* The invariant is preserved by every kind of step *)

LEMMA InitSInv == Init => SInv
BY SchedulerAssumption
   DEF Init, SInv, TypeOK, Verdict, Raw, Published, SlotsAreRuns, PublishedIsInHand,
       CacheMatchesStore, BehindOnlyCapped

\* Waiting at the gate, taking the slot, waking up.
LEMMA WaitingPreserves ==
  ASSUME SInv, NEW c \in Check,
         Boot(c) \/ StartRun(c) \/ StartCapped(c) \/ Wake(c)
  PROVE  SInv'
<1> USE DEF SInv
<1>1. CASE Boot(c)
  BY <1>1 DEF Boot, GoTo, netVars, worldVars, TypeOK, SlotsAreRuns, PublishedIsInHand,
              CacheMatchesStore, BehindOnlyCapped
<1>2. CASE StartRun(c) \/ StartCapped(c)
  <2>1. pc[c] = "gate" /\ TakeSlot(c)
    BY <1>2 DEF StartRun, StartCapped
  <2>2. capped \subseteq capped' /\ capped' \subseteq Check
    BY <1>2 DEF StartRun, StartCapped, TypeOK
  <2>3. Upstream(c) \cap running \in SUBSET Check
    BY DEF TypeOK
  <2>4. TypeOK'
    BY <2>1, <2>2, <2>3 DEF TakeSlot, GoTo, netVars, worldVars, TypeOK
  <2>5. BehindOnlyCapped'
    <3>1. behind'[c] # {} => c \in capped'
      BY <1>2 DEF StartRun, StartCapped, TakeSlot, Settled, TypeOK
    <3>2. \A d \in Check : d # c => behind'[d] = behind[d]
      BY <2>1 DEF TakeSlot, TypeOK
    <3> QED
      BY <3>1, <3>2, <2>2 DEF BehindOnlyCapped
  <2>6. SlotsAreRuns'
    BY <2>1 DEF TakeSlot, GoTo, TypeOK, SlotsAreRuns
  <2>7. PublishedIsInHand' /\ CacheMatchesStore'
    BY <2>1 DEF TakeSlot, GoTo, TypeOK, PublishedIsInHand, CacheMatchesStore
  <2> QED
    BY <2>4, <2>5, <2>6, <2>7
<1>3. CASE Wake(c)
  BY <1>3 DEF Wake, GoTo, netVars, worldVars, TypeOK, SlotsAreRuns, PublishedIsInHand,
              CacheMatchesStore, BehindOnlyCapped
<1> QED
  BY <1>1, <1>2, <1>3

LEMMA ObservePreserves ==
  ASSUME SInv, NEW c \in Check, Observe(c)
  PROVE  SInv'
<1> USE DEF SInv
<1>1. PICK r \in Observable(c) : result' = [result EXCEPT ![c] = r]
  BY DEF Observe
<1>2. r \in Raw
  BY DEF Observable, Raw
<1>3. pc[c] = "running" /\ pc' = [pc EXCEPT ![c] = "observed"]
  BY DEF Observe, GoTo
<1>4. TypeOK'
  BY <1>1, <1>2, <1>3 DEF Observe, netVars, worldVars, TypeOK
<1>5. SlotsAreRuns' /\ BehindOnlyCapped'
  BY <1>3 DEF Observe, TypeOK, SlotsAreRuns, BehindOnlyCapped
<1>6. PublishedIsInHand' /\ CacheMatchesStore'
  BY <1>1, <1>3 DEF Observe, TypeOK, PublishedIsInHand, CacheMatchesStore
<1> QED
  BY <1>4, <1>5, <1>6

\* Publishing: the cache, the result in hand and the slot change together.
LEMMA PublishPreserves ==
  ASSUME SInv, NEW c \in Check, Publish(c)
  PROVE  SInv'
<1> USE DEF SInv
<1>1. PICK v \in Verdict : v = Verdict_of(c)
  BY VerdictType
<1>2. /\ result' = [result EXCEPT ![c] = v]
      /\ latest_status' = [latest_status EXCEPT ![c] = v]
      /\ pc[c] = "observed" /\ pc' = [pc EXCEPT ![c] = "persist"]
      /\ running' = running \ {c} /\ capped' = capped \ {c}
      /\ behind' = [d \in Check |-> IF d = c THEN {} ELSE behind[d] \ {c}]
      /\ UNCHANGED <<stored, netVars, worldVars, apart, faults>>
  BY <1>1 DEF Publish, PublishAs, GoTo
<1>3. TypeOK'
  <2>1. behind' \in [Check -> SUBSET Check]
    BY <1>2 DEF TypeOK
  <2> QED
    BY <1>2, <2>1 DEF netVars, worldVars, TypeOK, Published
<1>4. SlotsAreRuns'
  BY <1>2 DEF TypeOK, SlotsAreRuns
<1>5. PublishedIsInHand' /\ CacheMatchesStore'
  BY <1>2 DEF TypeOK, PublishedIsInHand, CacheMatchesStore
<1>6. BehindOnlyCapped'
  BY <1>2 DEF BehindOnlyCapped
<1> QED
  BY <1>3, <1>4, <1>5, <1>6

LEMMA PersistPreserves ==
  ASSUME SInv, NEW c \in Check, Persist(c)
  PROVE  SInv'
<1> USE DEF SInv
<1>1. result[c] \in Published
  <2>1. result[c] = latest_status[c]
    BY DEF Persist, PublishedIsInHand
  <2> QED
    BY <2>1 DEF TypeOK
<1>2. TypeOK'
  BY <1>1 DEF Persist, GoTo, netVars, worldVars, TypeOK
<1>3. SlotsAreRuns' /\ PublishedIsInHand' /\ BehindOnlyCapped'
  BY DEF Persist, GoTo, TypeOK, SlotsAreRuns, PublishedIsInHand, BehindOnlyCapped
<1>4. CacheMatchesStore'
  BY DEF Persist, GoTo, TypeOK, PublishedIsInHand, CacheMatchesStore
<1> QED
  BY <1>2, <1>3, <1>4

\* A write that fails and a restart: the cells it leaves apart are recorded.
LEMMA FaultPreserves ==
  ASSUME SInv, Fault
  PROVE  SInv'
<1> USE DEF SInv
<1>1. faults' \in 0 .. MaxFaults
  BY SchedulerAssumption DEF Fault, TypeOK
<1>2. ASSUME NEW c \in Check, PersistFails(c) PROVE SInv'
  <2>1. TypeOK'
    BY <1>1, <1>2 DEF PersistFails, GoTo, netVars, worldVars, TypeOK
  <2>2. SlotsAreRuns' /\ PublishedIsInHand' /\ BehindOnlyCapped'
    BY <1>2 DEF PersistFails, GoTo, TypeOK, SlotsAreRuns, PublishedIsInHand,
                BehindOnlyCapped
  <2>3. CacheMatchesStore'
    BY <1>2 DEF PersistFails, GoTo, TypeOK, CacheMatchesStore
  <2> QED
    BY <2>1, <2>2, <2>3
<1>3. CASE Restart
  <2>1. latest_status' \in [Check -> Published] /\ apart' \subseteq Check
    BY <1>3 DEF Restart, TypeOK, Published
  <2>2. online' \in BOOLEAN /\ failed_rounds' \in 0 .. GraceRounds
    BY <1>3, SchedulerAssumption DEF Restart
  <2>3. TypeOK'
    BY <1>1, <1>3, <2>1, <2>2 DEF Restart, worldVars, TypeOK, Verdict
  <2>4. SlotsAreRuns' /\ PublishedIsInHand' /\ BehindOnlyCapped'
    BY <1>3 DEF Restart, SlotsAreRuns, PublishedIsInHand, BehindOnlyCapped
  <2>5. CacheMatchesStore'
    BY <1>3 DEF Restart, CacheMatchesStore
  <2> QED
    BY <2>3, <2>4, <2>5
<1> QED
  BY <1>2, <1>3 DEF Fault

\* The probe and the world do not touch the tasks.
LEMMA WorldPreserves ==
  ASSUME SInv, Probe \/ UplinkToggles \/ \E c \in Check : BreakOrRepair(c)
  PROVE  SInv'
<1> USE DEF SInv
<1>1. UNCHANGED <<taskVars, stored, apart, faults>>
  BY DEF Probe, UplinkToggles, BreakOrRepair
<1>2. online' \in BOOLEAN /\ failed_rounds' \in 0 .. GraceRounds
  <2>1. CASE Probe
    <3>1. failed_rounds' \in 0 .. GraceRounds
      BY <2>1, SchedulerAssumption DEF Probe, TypeOK
    <3>2. online' \in BOOLEAN
      BY <2>1 DEF Probe, TypeOK
    <3> QED
      BY <3>1, <3>2
  <2>2. CASE UNCHANGED netVars
    BY <2>2 DEF netVars, TypeOK
  <2> QED
    BY <2>1, <2>2 DEF UplinkToggles, BreakOrRepair
<1>3. broken' \subseteq Check /\ linked' \in BOOLEAN
  BY SchedulerAssumption DEF Probe, UplinkToggles, BreakOrRepair, worldVars, TypeOK
<1>4. TypeOK'
  BY <1>1, <1>2, <1>3 DEF taskVars, TypeOK
<1>5. SlotsAreRuns' /\ PublishedIsInHand' /\ CacheMatchesStore' /\ BehindOnlyCapped'
  BY <1>1 DEF taskVars, SlotsAreRuns, PublishedIsInHand, CacheMatchesStore,
              BehindOnlyCapped
<1> QED
  BY <1>4, <1>5

LEMMA NextPreserves == SInv /\ [Next]_vars => SInv'
<1> SUFFICES ASSUME SInv, [Next]_vars PROVE SInv'
  OBVIOUS
<1>1. ASSUME NEW c \in Check, Task(c) \/ Observe(c) PROVE SInv'
  BY <1>1, WaitingPreserves, ObservePreserves, PublishPreserves, PersistPreserves DEF Task
<1>2. CASE Probe \/ UplinkToggles \/ \E c \in Check : BreakOrRepair(c)
  BY <1>2, WorldPreserves
<1>3. CASE Fault
  BY <1>3, FaultPreserves
<1>4. CASE UNCHANGED vars
  BY <1>4 DEF vars, taskVars, netVars, worldVars, SInv, TypeOK, SlotsAreRuns,
              PublishedIsInHand, CacheMatchesStore, BehindOnlyCapped
<1> QED
  BY <1>1, <1>2, <1>3, <1>4 DEF Next

LEMMA Invariance == Spec => []SInv
<1>1. Init => SInv
  BY InitSInv
<1>2. SInv /\ [Next]_vars => SInv'
  BY NextPreserves
<1> QED
  BY <1>1, <1>2, PTL DEF Spec

-----------------------------------------------------------------------------
(* The theorems *)

\* The scheduler's state keeps its types.
THEOREM SchedulerTypeCorrect == Spec => []TypeOK
<1>1. SInv => TypeOK
  BY DEF SInv
<1> QED
  BY <1>1, Invariance, PTL

\* _running holds exactly the runs in flight, restarts and hanging runs included:
\* the gate waits for nothing that is over and overlooks nothing that is not.
THEOREM SlotsNeverLeak == Spec => []SlotsAreRuns
<1>1. SInv => SlotsAreRuns
  BY DEF SInv
<1> QED
  BY <1>1, Invariance, PTL

\* _latest_status and the latest rows of check_runs agree between two runs of a
\* check, however often writes fail and the process restarts, except where the
\* last write of that check or the seeding query failed.
THEOREM CacheFollowsStore == Spec => []CacheMatchesStore
<1>1. SInv => CacheMatchesStore
  BY DEF SInv
<1> QED
  BY <1>1, Invariance, PTL

\* Whatever the graph, cycles included: a failure that is published has no
\* upstream the cache knows to fail, and no upstream run it should have waited
\* for, unless it waited out the cap.
THEOREM PublishedRedIsNotCollateral == Spec => RedIsNotCollateral
<1> DEFINE Red(c) == pc[c] = "observed" /\ pc'[c] = "persist" /\ result'[c] = "fail"
<1>1. ASSUME SInv, [Next]_vars, NEW c \in Check, Red(c)
      PROVE  /\ \A d \in TransitiveDeps(c) : latest_status[d] # "fail"
             /\ c \notin capped => behind[c] = {}
  <2>1. Publish(c)
    <3>1. /\ pc[c] = "observed" /\ pc'[c] = "persist"
          /\ pc \in [Check -> {"boot", "gate", "running", "observed", "persist", "sleep"}]
      BY <1>1 DEF SInv, TypeOK
    <3>2. ASSUME NEW d \in Check, Task(d) \/ Observe(d) PROVE Publish(c)
      <4>1. Boot(d) \/ StartRun(d) \/ StartCapped(d) \/ Observe(d) => pc'[c] # "persist"
        BY <3>1 DEF Boot, StartRun, StartCapped, TakeSlot, Observe, GoTo
      <4>2. Persist(d) \/ Wake(d) => pc'[c] # "persist"
        BY <3>1 DEF Persist, Wake, GoTo
      <4>3. Publish(d) => d = c
        BY <3>1 DEF Publish, PublishAs, GoTo
      <4> QED
        BY <3>1, <3>2, <4>1, <4>2, <4>3 DEF Task
    <3>3. ASSUME NEW d \in Check PROVE ~PersistFails(d)
      BY <3>1 DEF PersistFails, GoTo
    <3>4. ~Restart
      BY <3>1 DEF Restart
    <3>5. ~(Probe \/ UplinkToggles \/ UNCHANGED vars)
      BY <3>1 DEF Probe, UplinkToggles, taskVars, vars
    <3>6. ASSUME NEW d \in Check PROVE ~BreakOrRepair(d)
      BY <3>1 DEF BreakOrRepair, taskVars
    <3> QED
      BY <1>1, <3>2, <3>3, <3>4, <3>5, <3>6 DEF Next, Fault
  <2>2. result'[c] = Verdict_of(c)
    BY <1>1, <2>1 DEF Publish, PublishAs, SInv, TypeOK
  <2>3. \A d \in TransitiveDeps(c) : latest_status[d] # "fail"
    BY <1>1, <2>2, FailureIsNotDemoted
  <2> QED
    BY <1>1, <2>3 DEF SInv, BehindOnlyCapped
<1>2. SInv /\ [Next]_vars =>
        [\A c \in Check : pc[c] = "observed" /\ pc'[c] = "persist" /\ result'[c] = "fail" =>
           /\ \A d \in TransitiveDeps(c) : latest_status[d] # "fail"
           /\ c \notin capped => behind[c] = {}]_vars
  BY <1>1
<1> QED
  BY <1>2, Invariance, PTL DEF Spec, RedIsNotCollateral
=============================================================================

----------------------------- MODULE Scheduler ------------------------------
(***************************************************************************)
(* The scheduler (backend/scheduler.py): one task per check that waits for *)
(* its upstream, runs the check, demotes the failures it does not believe, *)
(* publishes and persists the verdict, hands it to the alarm engine and    *)
(* sleeps; with the NetworkMonitor (backend/checks/network.py) that tells  *)
(* it whether our own uplink is the one that is broken.                    *)
(*                                                                         *)
(* The world is part of the model: what a run observes depends on which    *)
(* monitored things are broken and on whether the uplink works, at one     *)
(* moment of the run.  Verdicts are those of AlarmStore, without "warn",   *)
(* which the scheduler treats like "ok".  What the alarm engine makes of a *)
(* verdict is AlarmEvaluate; here it is a step that takes time.            *)
(***************************************************************************)
EXTENDS Dependencies

CONSTANTS
  Exempt,       \* the checks named layer0.net.*, which are never muzzled
  Control,      \* those of them that report what the NetworkMonitor knows
  MayHang,      \* checks whose run may take forever
  GraceRounds,  \* GRACE_ROUNDS
  Breakable,    \* bound: the checks whose target may break
  MaxFaults     \* bound: failed writes and restarts in a behaviour

ASSUME SchedulerAssumption ==
  /\ Control \subseteq Exempt /\ Exempt \subseteq Check
  /\ MayHang \subseteq Check /\ Breakable \subseteq Check \ Control
  /\ GraceRounds \in Nat \ {0}
  /\ MaxFaults \in Nat

VARIABLES
  pc,             \* where the task of each check stands
  running,        \* Scheduler._running: the checks in flight
  latest_status,  \* Scheduler._latest_status: the cache of published verdicts
  result,         \* the result each task has in hand
  stored,         \* the latest row of each check in check_runs
  online,         \* NetworkMonitor.online
  failed_rounds,  \* NetworkMonitor._consecutive_fail, counted to GraceRounds
  broken,         \* the world: the checks whose target is broken
  linked,         \* the world: does our own uplink work?
  capped,         \* history: the checks whose run began by waiting out the cap
  behind,         \* history: upstream runs in flight when this run began, and still
  apart,          \* history: checks whose cache and row differ after a failure
  faults          \* failed writes and restarts so far

taskVars == <<pc, running, latest_status, result, capped, behind>>
netVars == <<online, failed_rounds>>
worldVars == <<broken, linked>>
vars == <<taskVars, stored, netVars, worldVars, apart, faults>>

Verdict == {"ok", "held", "fail"}
Raw == {"ok", "fail", "dns"}
Published == Verdict \cup {"none"}

TypeOK ==
  /\ pc \in [Check -> {"boot", "gate", "running", "observed", "persist", "sleep"}]
  /\ running \subseteq Check
  /\ latest_status \in [Check -> Published]
  /\ result \in [Check -> Verdict \cup Raw]
  /\ stored \in [Check -> Published]
  /\ online \in BOOLEAN /\ failed_rounds \in 0 .. GraceRounds
  /\ broken \subseteq Check /\ linked \in BOOLEAN
  /\ capped \subseteq Check /\ behind \in [Check -> SUBSET Check]
  /\ apart \subseteq Check
  /\ faults \in 0 .. MaxFaults

Init ==
  /\ pc = [c \in Check |-> "boot"]
  /\ running = {}
  /\ latest_status = [c \in Check |-> "none"]
  /\ result = [c \in Check |-> "ok"]
  /\ stored = [c \in Check |-> "none"]
  /\ online = TRUE /\ failed_rounds = 0
  /\ broken = {} /\ linked = TRUE
  /\ capped = {} /\ behind = [c \in Check |-> {}]
  /\ apart = {}
  /\ faults = 0

-----------------------------------------------------------------------------
(* One task of the scheduler: _loop *)

\* The checks c waits for: _transitive_deps.
Upstream(c) == TransitiveDeps(c)

GoTo(c, label) == pc' = [pc EXCEPT ![c] = label]

\* The topological stagger: the initial delays of a check and of its upstream
\* never overlap.  (Those of unrelated checks do not either; no matter here.)
Boot(c) ==
  /\ pc[c] = "boot"
  /\ \A d \in Upstream(c) : pc[d] # "boot"
  /\ GoTo(c, "gate")
  /\ UNCHANGED <<running, latest_status, result, capped, behind, stored, netVars, worldVars,
                 apart, faults>>

\* _await_upstream_settled returns, and the run takes its slot, with no await in
\* between.
TakeSlot(c) ==
  /\ GoTo(c, "running")
  /\ running' = running \cup {c}
  /\ behind' = [behind EXCEPT ![c] = Upstream(c) \cap running]
  /\ UNCHANGED <<latest_status, result, stored, netVars, worldVars, apart, faults>>

\* Mutants: only the direct dependencies are waited for; there is no cap.
Settled_direct(c) == DependsOn[c] \cap running = {}
StartCapped_never(c) == pc[c] = "gate" /\ FALSE

Settled(c) == Upstream(c) \cap running = {}

StartRun(c) ==
  pc[c] = "gate" /\ Settled(c) /\ TakeSlot(c) /\ UNCHANGED capped

\* The 10 s cap: the run goes ahead although an upstream run is in flight.
StartCapped(c) ==
  pc[c] = "gate" /\ ~Settled(c) /\ TakeSlot(c) /\ capped' = capped \cup {c}

\* What a run may find at this moment.  A broken upstream need not show in c.
Observable(c) ==
  IF c \in Control THEN IF online THEN {"ok"} ELSE {"fail"}
  ELSE IF c \in broken THEN {"fail"}
  ELSE IF ~linked THEN {"fail", "dns"}
  ELSE IF Upstream(c) \cap broken # {} THEN {"ok", "fail"}
  ELSE {"ok"}

Observe(c) ==
  /\ pc[c] = "running"
  /\ \E r \in Observable(c) : result' = [result EXCEPT ![c] = r]
  /\ GoTo(c, "observed")
  /\ UNCHANGED <<running, latest_status, capped, behind, stored, netVars, worldVars, apart,
                 faults>>

\* _maybe_downgrade_for_dns_summary (and the resolver errors caught in _loop),
\* _maybe_downgrade_for_network, _maybe_demote_for_unhealthy_dep.
LocalDnsError(c) == result[c] = "dns" /\ c \notin Exempt
LocalNetworkOffline(c) == ~online /\ c \notin Exempt
\* Mutants: no cascade demote; the reason is stored as the status.
UpstreamUnhealthy_never(c) == c \notin Check
Verdict_of_reason(c) ==
  IF LocalDnsError(c) THEN "dns" ELSE IF result[c] = "ok" THEN "ok" ELSE "fail"

UpstreamUnhealthy(c) ==
  NearestAncestors(c, {d \in Check : latest_status[d] = "fail"}) # {}

Verdict_of(c) ==
  IF result[c] = "ok" THEN "ok"
  ELSE IF LocalDnsError(c) \/ LocalNetworkOffline(c) \/ UpstreamUnhealthy(c)
       THEN "held" ELSE "fail"

\* check.run returned or raised: the demotions, the cache and the slot, up to
\* the next await.
PublishAs(c, cached, slots) ==
  /\ pc[c] = "observed"
  /\ result' = [result EXCEPT ![c] = Verdict_of(c)]
  /\ latest_status' = [latest_status EXCEPT ![c] = cached]
  /\ running' = slots
  /\ capped' = capped \ {c}
  /\ behind' = [d \in Check |-> IF d = c THEN {} ELSE behind[d] \ {c}]
  /\ GoTo(c, "persist")
  /\ UNCHANGED <<stored, netVars, worldVars, apart, faults>>

\* Mutants: the slot is not released; the cache takes the verdict before the
\* demotions; the cache is not told of a recovery.
Publish_keeps_slot(c) == PublishAs(c, Verdict_of(c), running)
Publish_raw(c) == PublishAs(c, IF result[c] = "ok" THEN "ok" ELSE "fail", running \ {c})
Publish_bad_only(c) ==
  PublishAs(c, IF Verdict_of(c) = "ok" THEN latest_status[c] ELSE Verdict_of(c),
            running \ {c})

Publish(c) == PublishAs(c, Verdict_of(c), running \ {c})

Persist(c) ==
  /\ pc[c] = "persist"
  /\ stored' = [stored EXCEPT ![c] = result[c]]
  /\ apart' = apart \ {c}
  /\ GoTo(c, "sleep")
  /\ UNCHANGED <<running, latest_status, result, capped, behind, netVars, worldVars, faults>>

\* A failed write is logged; the task goes on.
PersistFails(c) ==
  /\ pc[c] = "persist"
  /\ apart' = apart \cup {c}
  /\ GoTo(c, "sleep")
  /\ UNCHANGED <<running, latest_status, result, capped, behind, stored, netVars, worldVars>>

\* The alarm engine, the broadcast, the rest of the cadence.
Wake(c) ==
  /\ pc[c] = "sleep"
  /\ GoTo(c, "gate")
  /\ UNCHANGED <<running, latest_status, result, capped, behind, stored, netVars, worldVars,
                 apart, faults>>

Task(c) == \/ Boot(c) \/ StartRun(c) \/ StartCapped(c) \/ Publish(c) \/ Persist(c)
           \/ Wake(c)

-----------------------------------------------------------------------------
(* The network monitor, and the world *)

\* _probe_once: all endpoints fail, or some answer.
Probe ==
  /\ failed_rounds' = IF linked THEN 0
                      ELSE IF failed_rounds = GraceRounds THEN failed_rounds
                      ELSE failed_rounds + 1
  /\ online' = IF linked THEN TRUE
               ELSE IF failed_rounds' >= GraceRounds THEN FALSE ELSE online
  /\ UNCHANGED <<taskVars, stored, worldVars, apart, faults>>

BreakOrRepair(c) ==
  /\ c \in Breakable
  /\ broken' = IF c \in broken THEN broken \ {c} ELSE broken \cup {c}
  /\ UNCHANGED <<taskVars, stored, netVars, linked, apart, faults>>

UplinkToggles ==
  /\ linked' = ~linked
  /\ UNCHANGED <<taskVars, stored, netVars, broken, apart, faults>>

\* The process stops anywhere and starts again.  The cache is seeded from the
\* latest rows, unless that query raises; the monitor has probed once.
Restart ==
  /\ pc' = [c \in Check |-> "boot"]
  /\ running' = {}
  /\ result' = [c \in Check |-> "ok"]
  /\ capped' = {} /\ behind' = [c \in Check |-> {}]
  /\ \/ latest_status' = stored /\ apart' = {}
     \/ /\ latest_status' = [c \in Check |-> "none"]
        /\ apart' = {c \in Check : stored[c] # "none"}
  /\ failed_rounds' = IF linked THEN 0 ELSE 1
  /\ online' = (linked \/ GraceRounds > 1)
  /\ UNCHANGED <<stored, worldVars>>

Fault ==
  /\ faults < MaxFaults
  /\ faults' = faults + 1
  /\ Restart \/ \E c \in Check : PersistFails(c)

Next ==
  \/ \E c \in Check : Task(c) \/ Observe(c)
  \/ Probe
  \/ \E c \in Check : BreakOrRepair(c)
  \/ UplinkToggles
  \/ Fault

Spec == Init /\ [][Next]_vars

\* Tasks and the monitor are scheduled fairly; a check outside MayHang returns
\* (its HTTP calls time out).
FairSpec ==
  /\ Spec
  /\ \A c \in Check : WF_vars(Task(c))
  /\ \A c \in Check \ MayHang : WF_vars(Observe(c))
  /\ WF_vars(Probe)

-----------------------------------------------------------------------------
(* Safety *)

\* The slots of _running are exactly the runs in flight, so no downstream check
\* waits for a run that is over, nor misses one.
SlotsAreRuns == running = {c \in Check : pc[c] \in {"running", "observed"}}

\* Between two runs of a check the cache says what the table says, across
\* restarts, unless a write or the seeding query failed.
CacheMatchesStore ==
  \A c \in Check \ apart : pc[c] # "persist" => latest_status[c] = stored[c]

\* A failure is published as such only when no upstream is known to fail, and,
\* unless the run waited out the cap, every upstream run that was in flight when
\* it began has had its say.
RedIsNotCollateral ==
  [][\A c \in Check : pc[c] = "observed" /\ pc'[c] = "persist" /\ result'[c] = "fail" =>
       /\ \A d \in TransitiveDeps(c) : latest_status[d] # "fail"
       /\ c \notin capped => behind[c] = {}]_vars

-----------------------------------------------------------------------------
(* Liveness *)

\* Whatever hangs or keeps running upstream, a check keeps being run.
EveryCheckKeepsRunning ==
  \A c \in Check \ MayHang : []<>(pc[c] = "observed")

\* An upstream check that is red for good turns everything downstream of it
\* from red to skipped, also when it is the only one still reporting.
CascadeSettles ==
  \A c \in Check \ MayHang : \A d \in TransitiveDeps(c) :
    <>[](latest_status[d] = "fail") => <>[](stored[c] # "fail")

\* Once everything works again for good, so does every cell: no skip and no
\* failure outlives its cause, in the cache or in the table (short of a run that
\* never returns).
RecoverySettles ==
  /\ <>[](broken = {} /\ linked)
  /\ \A d \in MayHang : []<>(pc[d] = "observed")
  => <>[](\A c \in Check : latest_status[c] = "ok" /\ stored[c] = "ok")

-----------------------------------------------------------------------------
(* What a comment says and the code does not do *)

\* scheduler.py: by the time a result is demoted, any upstream run going on at
\* the same time has already updated the cache (short of the cap).
DemoteSeesSettledUpstream ==
  [][\A c \in Check \ capped : pc[c] = "observed" /\ pc'[c] = "persist" => Settled(c)]_vars
=============================================================================

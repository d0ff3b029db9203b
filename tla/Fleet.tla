------------------------------- MODULE Fleet --------------------------------
(***************************************************************************)
(* One event or five: the fleet checks, over the verdicts the radar checks *)
(* publish in memory (checks/layer2_radar.py for the web tier, and, with   *)
(* the same latch, checks/layer2_backend_radar.py for the backend).  A     *)
(* failing fleet check suppresses the alarms of its radars, and suppression*)
(* is only looked at when an alarm opens, one hold-down after the radar    *)
(* went red: what the fleet check said before has to last until then.      *)
(* Time is in minutes; a check runs when its cadence is up, in any order.  *)
(***************************************************************************)
EXTENDS Integers, FiniteSets

CONSTANTS
  Radar,
  Family,                 \* which of the two fleets, "xband" or "backend"
  FLEET_SYSTEMIC_ENTER, FLEET_SYSTEMIC_EXIT,
  FLEET_MIN_DWELL,        \* minutes a systemic verdict lasts at least
  HoldDownMinutes         \* hold_down of the alarms

\* The dwell covers the hold-down and the cadence of a radar's check, two
\* minutes at most (layer2_radar.py:170-172).
ASSUME FleetAssumption ==
  /\ IsFiniteSet(Radar) /\ "fleet" \notin Radar
  /\ Family \subseteq {"xband", "backend"}
  /\ {FLEET_SYSTEMIC_ENTER, FLEET_SYSTEMIC_EXIT, FLEET_MIN_DWELL} \subseteq Nat
  /\ HoldDownMinutes \in Nat \ {0} /\ HoldDownMinutes + 2 <= FLEET_MIN_DWELL

VARIABLES
  family,
  verdict,  \* _last_verdict: radar -> its verdict, and how old it is
  due,      \* minutes until the check runs next, the fleet's own under "fleet"
  clean,    \* minutes since the radar's last clean run
  open,     \* is an alarm of the radar open?
  fleet,    \* the latch, the age of its last systemic reading, the last status
  named     \* history: was the radar among the systemic reading of its red spell?

fleetVars == <<family, verdict, due, clean, open, fleet, named>>

_VERDICT_TTL == 5     \* minutes a verdict of the web tier stays usable
_LB_VERDICT_TTL == 3  \* and one of the backend
RadarCadence == IF family = "xband" THEN 2 ELSE 1
FleetCadence == 2
Older(n, bound) == IF n < bound THEN n + 1 ELSE n

FleetInit ==
  /\ family \in Family
  /\ verdict = [r \in Radar |-> [is |-> "none", age |-> 0]]
  /\ due \in [Radar \cup {"fleet"} -> 0..1]
  /\ clean = [r \in Radar |-> HoldDownMinutes]
  /\ open = [r \in Radar |-> FALSE]
  /\ fleet = [systemic |-> FALSE, since |-> 0, status |-> "none"]
  /\ named = [r \in Radar |-> FALSE]

\* Every check that is due runs before the minute is over.
Minute ==
  /\ \A c \in DOMAIN due : due[c] > 0
  /\ due' = [c \in DOMAIN due |-> due[c] - 1]
  /\ verdict' = [r \in Radar |-> [verdict[r] EXCEPT !.age = Older(@, _VERDICT_TTL + 1)]]
  /\ clean' = [r \in Radar |-> Older(clean[r], HoldDownMinutes)]
  /\ fleet' = [fleet EXCEPT !.since = Older(@, FLEET_MIN_DWELL)]
  /\ UNCHANGED <<family, open, named>>

-----------------------------------------------------------------------------
(* A radar check, and what the alarm engine makes of its result *)

Ran(c, cadence) == due[c] = 0 /\ due' = [due EXCEPT ![c] = cadence]

_publish_verdict(r, v) ==
  family = "xband" /\ verdict' = [verdict EXCEPT ![r] = [is |-> v, age |-> 0]]

_lb_publish_verdict(r, v) ==
  family = "backend" /\ verdict' = [verdict EXCEPT ![r] = [is |-> v, age |-> 0]]

\* A clean run closes the radar's alarm; a red one opens it once no clean run is
\* younger than the hold-down.
Alarmed(r, red) ==
  /\ clean' = [clean EXCEPT ![r] = IF red THEN @ ELSE 0]
  /\ open' = [open EXCEPT ![r] = red /\ (@ \/ clean[r] >= HoldDownMinutes)]
  /\ named' = [named EXCEPT ![r] = red /\ @]
  /\ UNCHANGED <<family, fleet>>

\* Declared up or down, with fresh images or without.  (A stuck flag counts as
\* CONFIRMED_DOWN does, images that cannot be asked for as GHOST_UP.)
Radar2Run(r) ==
  /\ Ran(r, RadarCadence)
  /\ \E v \in {"HEALTHY", "GHOST_UP", "CONFIRMED_DOWN"} :
       _publish_verdict(r, v) /\ Alarmed(r, v # "HEALTHY")

\* radar-status gives no answer: red, and returned before anything is published.
Radar2Unknown(r) ==
  /\ family = "xband" /\ Ran(r, RadarCadence)
  /\ Alarmed(r, TRUE) /\ UNCHANGED verdict

\* Every outcome of the backend's check is published.
RadarB2Run(r) ==
  /\ Ran(r, RadarCadence)
  /\ \E v \in {"ARRIVING", "SILENT", "UNREADABLE", "CONFIG_ERROR"} :
       _lb_publish_verdict(r, v) /\ Alarmed(r, v # "ARRIVING")

-----------------------------------------------------------------------------
(* The fleet checks *)

SYSTEMIC_VERDICTS == {"GHOST_UP", "OBSERVED_API_ERROR"}
LB_SYSTEMIC_VERDICTS == {"SILENT", "UNREADABLE"}

_fresh_verdicts == {r \in Radar : verdict[r].is # "none" /\ verdict[r].age <= _VERDICT_TTL}
_not_reporting_xband == {r \in _fresh_verdicts : verdict[r].is \in SYSTEMIC_VERDICTS}

_lb_fresh == {r \in Radar : verdict[r].is # "none" /\ verdict[r].age <= _LB_VERDICT_TTL}
_lb_not_arriving == {r \in _lb_fresh : verdict[r].is \in LB_SYSTEMIC_VERDICTS}

\* Mutant of Latch: a reading below the exit clears the verdict at once.
LatchWithoutDwell(n) ==
  IF n >= FLEET_SYSTEMIC_ENTER THEN [systemic |-> TRUE, since |-> 0, status |-> "fail"]
  ELSE IF fleet.systemic /\ n > FLEET_SYSTEMIC_EXIT THEN [fleet EXCEPT !.status = "fail"]
  ELSE [systemic |-> FALSE, since |-> 0, status |-> "pass"]

\* Entered at ENTER, and re-armed by every such reading; left at EXIT, and not
\* before the dwell is over.
Latch(n) ==
  IF n >= FLEET_SYSTEMIC_ENTER THEN [systemic |-> TRUE, since |-> 0, status |-> "fail"]
  ELSE IF fleet.systemic /\ ~(n <= FLEET_SYSTEMIC_EXIT /\ fleet.since >= FLEET_MIN_DWELL)
       THEN [fleet EXCEPT !.status = "fail"]
  ELSE [systemic |-> FALSE, since |-> 0, status |-> "pass"]

\* Too few verdicts are known: a skip, and the latch is left as it is.
Tally(known, bad) ==
  /\ Ran("fleet", FleetCadence)
  /\ fleet' = IF Cardinality(known) < FLEET_SYSTEMIC_ENTER
              THEN [fleet EXCEPT !.status = "skip"]
              ELSE Latch(Cardinality(bad))
  /\ named' = [r \in Radar |->
       named[r] \/ (r \in bad /\ Cardinality(bad) >= FLEET_SYSTEMIC_ENTER)]
  /\ UNCHANGED <<family, verdict, clean, open>>

Layer2XbandFleet == family = "xband" /\ Tally(_fresh_verdicts, _not_reporting_xband)
Layer2BackendFleet == family = "backend" /\ Tally(_lb_fresh, _lb_not_arriving)

FleetNext ==
  \/ Minute \/ Layer2XbandFleet \/ Layer2BackendFleet
  \/ \E r \in Radar : Radar2Run(r) \/ Radar2Unknown(r) \/ RadarB2Run(r)

-----------------------------------------------------------------------------
(* Properties *)

\* A radar that was counted into a systemic reading while it was red, and stays
\* red for its hold-down, opens an alarm the fleet check suppresses: the verdict
\* outlasts the hold-down, whatever the other radars do.  Where too few verdicts
\* were fresh the check skips instead, but it has not cleared (layer2_radar.py:162-171).
EpisodeSuppresses ==
  [][\A r \in Radar : open'[r] /\ ~open[r] /\ named[r] =>
       fleet.systemic /\ fleet.status \in {"fail", "skip"}]_fleetVars
=============================================================================

---------------------------- MODULE AlarmTicker -----------------------------
(***************************************************************************)
(* AlarmEngine._tick (backend/alarms/engine.py): the one background task   *)
(* that re-examines every open alarm: stale-acked sweep, suppression,      *)
(* silences, severity, acks, escalation steps, dispatch.                   *)
(*                                                                         *)
(* A tick works on what it read when it began: the open rows, the active   *)
(* silences, the tier switches and the latest verdicts.  Everything else   *)
(* goes on meanwhile.  Of an alarm row the columns read later are written  *)
(* by this task alone, so the copy it holds can only be wrong about        *)
(* whether the alarm is still open.                                        *)
(***************************************************************************)
EXTENDS AlarmEvaluate

CONSTANTS
  Receiver,      \* receivers of a step (a channel each)
  Scheduled,     \* those of them that may be off duty
  StepDelay,     \* step -> age of the alarm at which it comes due
  Repeat,        \* repeat_interval of the route, 0 = none
  PromoteAfter,  \* PROMOTE_AFTER_S
  AtLeast,       \* severity_at_least of the route ("info" = none)
  Routed,        \* the checks whose alarms some route matches
  CleanWindow,   \* AUTOCLOSE_CLEAN_S
  SweepCadence   \* AUTOCLOSE_CADENCE_S

ASSUME TickerAssumption ==
  /\ StepDelay \in [Step -> Nat]
  /\ {Repeat, PromoteAfter, CleanWindow, SweepCadence} \subseteq Nat
  /\ AtLeast \in Severity
  /\ Routed \subseteq Check
  /\ Scheduled \subseteq Receiver

VARIABLES
  silences,    \* the checks an active silence covers
  tiers_off,   \* the checks whose tier is switched off
  tick,        \* where the ticker stands and what it has read
  last_sweep,  \* AlarmEngine._last_autoclose, in memory
  sent         \* history: messages sent per alarm, step and receiver (0 .. 2)

tickerVars == <<silences, tiers_off, tick, last_sweep, sent>>
engineVars == <<storeVars, eval, opened>>

\* The stages of a tick with a row in hand, and all of them.
Processing == {"cause", "severity", "ack", "covers", "lapse", "step", "withhold",
               "dispatch", "record"}
TickPc == {"idle", "sweep", "sweeping", "gates", "latest", "next"} \cup Processing

\* todo: rows still to process; stale: rows the sweep has still to close;
\* alarm, step: in hand; left: receivers of the step still to serve; silenced,
\* off, latest: what this tick read.  Mutant: the steps counted from the second.
IdleTick_skips_one == [pc |-> "idle", todo |-> {}, stale |-> {}, silenced |-> {},
             off |-> {}, latest |-> [c \in Check |-> "none"],
             alarm |-> NoAlarm, step |-> 2, left |-> {}]

IdleTick == [pc |-> "idle", todo |-> {}, stale |-> {}, silenced |-> {},
             off |-> {}, latest |-> [c \in Check |-> "none"],
             alarm |-> NoAlarm, step |-> 1, left |-> {}]

NothingSent == [s \in Step |-> [r \in Receiver |-> 0]]

TickState == [pc : TickPc, todo : SUBSET Alarm, stale : SUBSET Alarm,
              silenced : SUBSET Check, off : SUBSET Check,
              latest : [Check -> Verdict \cup {"none"}],
              alarm : Alarm \cup {NoAlarm}, step : Nat, left : SUBSET Receiver]

TickTypeOK ==
  /\ silences \subseteq Check
  /\ tiers_off \subseteq Check
  /\ tick \in TickState
  /\ last_sweep \in AgeOrNever
  /\ sent \in [Alarm -> [Step -> [Receiver -> 0 .. 2]]]

TickInit ==
  /\ silences = {}
  /\ tiers_off = {}
  /\ tick = IdleTick
  /\ last_sweep = Never
  /\ sent = [a \in Alarm |-> NothingSent]

\* Most steps of a tick only move the tick on.
GoTo(pc) == tick' = [tick EXCEPT !.pc = pc]
ProcessNext == tick' = [tick EXCEPT !.pc = "next", !.alarm = NoAlarm, !.step = 1,
                                    !.left = {}]

Current == alarms[tick.alarm]

-----------------------------------------------------------------------------
(* The start of a tick *)

SweepDue == last_sweep = Never \/ last_sweep >= SweepCadence

\* list_open_alarms.
TickBegin ==
  /\ tick.pc = "idle"
  /\ tick' = [IdleTick EXCEPT !.pc = IF SweepDue THEN "sweep" ELSE "gates",
                              !.todo = {a \in Alarm : IsOpen(a)}]
  /\ UNCHANGED <<engineVars, silences, tiers_off, last_sweep, sent>>

\* The rows _close_stale_acked selects: acked at some time, no run but clean
\* ones in the window, and at least one.
IsStale(a) ==
  LET runs == check_runs[alarms[a].check]
  IN  /\ IsOpen(a)
      /\ alarm_acks[a].ever
      /\ runs.unclean = Never \/ runs.unclean >= CleanWindow
      /\ runs.clean # Never /\ runs.clean < CleanWindow

SweepSelect ==
  /\ tick.pc = "sweep"
  /\ tick' = [tick EXCEPT !.pc = "sweeping", !.stale = {a \in Alarm : IsStale(a)}]
  /\ UNCHANGED <<engineVars, silences, tiers_off, last_sweep, sent>>

SweepClose(a) ==
  /\ tick.pc = "sweeping"
  /\ a \in tick.stale
  /\ close_alarm(a)
  /\ tick' = [tick EXCEPT !.stale = @ \ {a}]
  /\ UNCHANGED <<check_runs, alarm_acks, notification_log, eval, opened, silences,
                 tiers_off, last_sweep, sent>>

\* The sweep is stamped as done whether it ended or raised.
SweepStamp ==
  /\ last_sweep' = 0
  /\ GoTo("gates")
  /\ UNCHANGED <<engineVars, silences, tiers_off, sent>>

SweepDone == tick.pc = "sweeping" /\ tick.stale = {} /\ SweepStamp
SweepRaises == tick.pc \in {"sweep", "sweeping"} /\ SweepStamp

\* list_active_silences and tiers.load; the tick ends here if no row was open.
TickReadGates ==
  /\ tick.pc = "gates"
  /\ tick' = IF tick.todo = {} THEN IdleTick
             ELSE [tick EXCEPT !.pc = "latest", !.stale = {},
                               !.silenced = silences, !.off = tiers_off]
  /\ UNCHANGED <<engineVars, silences, tiers_off, last_sweep, sent>>

TickReadLatest ==
  /\ tick.pc = "latest"
  /\ tick' = [tick EXCEPT !.pc = "next", !.latest = latest_per_check_map]
  /\ UNCHANGED <<engineVars, silences, tiers_off, last_sweep, sent>>

\* The snapshot query raised: the tick goes on with an empty one.
TickReadLatestFails ==
  /\ tick.pc = "latest"
  /\ GoTo("next")
  /\ UNCHANGED <<engineVars, silences, tiers_off, last_sweep, sent>>

\* Mutant: the suppression column is not looked at.
TickTake_suppressed(a) ==
  /\ tick.pc = "next"
  /\ a \in tick.todo
  /\ tick' = [tick EXCEPT !.todo = @ \ {a}, !.alarm = a, !.pc = "severity"]
  /\ UNCHANGED <<engineVars, silences, tiers_off, last_sweep, sent>>

\* The loop over the rows (newest first in the code; no property depends on it).
TickTake(a) ==
  /\ tick.pc = "next"
  /\ a \in tick.todo
  /\ tick' = [tick EXCEPT !.todo = @ \ {a}, !.alarm = a,
       !.pc = IF alarms[a].suppressed_by = NoCheck THEN "severity" ELSE "cause"]
  /\ UNCHANGED <<engineVars, silences, tiers_off, last_sweep, sent>>

TickEnd ==
  /\ tick.pc = "next"
  /\ tick.todo = {}
  /\ tick' = IdleTick
  /\ UNCHANGED <<engineVars, silences, tiers_off, last_sweep, sent>>

-----------------------------------------------------------------------------
(* _process: one row *)

\* Mutant: the attribution is frozen at what it was when the alarm opened.
FrozenSuppressedBy == {Current.suppressed_by}

\* Columns written by nobody else while the row is in hand.
StillSuppressedBy == compute_suppression(Current.check, tick.latest)
EmptySnapshot == \A c \in Check : tick.latest[c] = "none"

StaysSuppressed ==
  /\ tick.pc = "cause"
  /\ \/ EmptySnapshot /\ UNCHANGED alarms
     \/ /\ ~EmptySnapshot
        /\ \E d \in StillSuppressedBy : update_alarm_suppression(tick.alarm, d)
  /\ ProcessNext
  /\ UNCHANGED <<check_runs, alarm_acks, notification_log, eval, opened, silences,
                 tiers_off, last_sweep, sent>>

\* The cause has recovered, the alarm stands: process it as any other.
Unsuppress ==
  /\ tick.pc = "cause"
  /\ ~EmptySnapshot
  /\ StillSuppressedBy = {}
  /\ update_alarm_suppression(tick.alarm, NoCheck)
  /\ GoTo("severity")
  /\ UNCHANGED <<check_runs, alarm_acks, notification_log, eval, opened, silences,
                 tiers_off, last_sweep, sent>>

(* router.compute_severity *)

MaxSev(a, b) == IF SevRank[a] >= SevRank[b] THEN a ELSE b

StatusNow == IF tick.latest[Current.check] = "none" THEN Current.at_open
             ELSE tick.latest[Current.check]

Broken == "fail" \in {Current.at_open, StatusNow}

\* Mutant: the severity follows the snapshot down again.
compute_severity_no_ratchet ==
  MaxSev(AtLeast, IF Current.age >= PromoteAfter /\ StatusNow = "fail" THEN "critical"
                  ELSE severity_for_status(StatusNow))

compute_severity ==
  LET observed == MaxSev(severity_for_status(Current.at_open),
                         severity_for_status(StatusNow))
      promoted == IF Current.age >= PromoteAfter /\ Broken THEN "critical"
                  ELSE observed
  IN  MaxSev(MaxSev(AtLeast, promoted), Current.severity)

\* A silenced or unrouted alarm is left alone, its severity included.
Skipped ==
  /\ tick.pc = "severity"
  /\ Current.check \in tick.silenced \/ Current.check \notin Routed
  /\ ProcessNext
  /\ UNCHANGED <<engineVars, silences, tiers_off, last_sweep, sent>>

Reassess ==
  /\ tick.pc = "severity"
  /\ Current.check \notin tick.silenced /\ Current.check \in Routed
  /\ update_alarm_severity(tick.alarm, compute_severity)
  /\ GoTo("ack")
  /\ UNCHANGED <<check_runs, alarm_acks, notification_log, eval, opened, silences,
                 tiers_off, last_sweep, sent>>

(* The ack, and whether it still covers the condition *)

ReadAck ==
  /\ tick.pc = "ack"
  /\ GoTo(IF is_acked(tick.alarm) THEN "covers" ELSE "step")
  /\ UNCHANGED <<engineVars, silences, tiers_off, last_sweep, sent>>

\* _ack_still_covers: the ack is outgrown when the severity, or the verdict in
\* this tick's snapshot, is above what was on record when it was placed.
\* An ack without a recorded status is compared by severity alone.
Outgrown(ack, severity, status) ==
  \/ SevRank[severity] > SevRank[ack.severity]
  \/ /\ "none" \notin {ack.status, status}
     /\ StatusRank[status] > StatusRank[ack.status]

\* Mutant: only the status is compared, not the severity.
AckLapses_status_only ==
  /\ is_acked(tick.alarm)
  /\ "none" \notin {alarm_acks[tick.alarm].status, tick.latest[Current.check]}
  /\ StatusRank[tick.latest[Current.check]] > StatusRank[alarm_acks[tick.alarm].status]

AckLapses ==
  /\ is_acked(tick.alarm)
  /\ Outgrown(alarm_acks[tick.alarm], Current.severity, tick.latest[Current.check])

AckHonored ==
  /\ tick.pc = "covers"
  /\ ~AckLapses
  /\ ProcessNext
  /\ UNCHANGED <<engineVars, silences, tiers_off, last_sweep, sent>>

\* Mutant: the outgrown ack is ignored, and left standing.
AckOutgrown_left ==
  /\ tick.pc = "covers"
  /\ AckLapses
  /\ GoTo("step")
  /\ UNCHANGED <<engineVars, silences, tiers_off, last_sweep, sent>>

AckOutgrown ==
  /\ tick.pc = "covers"
  /\ AckLapses
  /\ GoTo("lapse")
  /\ UNCHANGED <<engineVars, silences, tiers_off, last_sweep, sent>>

\* The ack_state lookup raised: the ack is honored.
AckUnreadable ==
  /\ tick.pc = "covers"
  /\ ProcessNext
  /\ UNCHANGED <<engineVars, silences, tiers_off, last_sweep, sent>>

LapseAck ==
  /\ tick.pc = "lapse"
  /\ unack_alarm(tick.alarm)
  /\ GoTo("step")
  /\ UNCHANGED <<check_runs, alarms, notification_log, eval, opened, silences,
                 tiers_off, last_sweep, sent>>

-----------------------------------------------------------------------------
(* The escalation steps *)

\* Mutant: without a repeat_interval, always due again.
StepIsDone_repeats ==
  LET last == notification_log[tick.alarm][tick.step]
  IN  last # Never /\ last < Repeat

StepIsDue == tick.step \in Step /\ Current.age >= StepDelay[tick.step]

\* Fired already, and no repeat is due.
StepIsDone ==
  LET last == notification_log[tick.alarm][tick.step]
  IN  last # Never /\ (Repeat = 0 \/ last < Repeat)

NextStep == tick' = [tick EXCEPT !.pc = "step", !.step = @ + 1, !.left = {}]

StepsEnd ==
  /\ tick.pc = "step"
  /\ ~StepIsDue
  /\ ProcessNext
  /\ UNCHANGED <<engineVars, silences, tiers_off, last_sweep, sent>>

StepSkip ==
  /\ tick.pc = "step" /\ StepIsDue /\ StepIsDone
  /\ NextStep
  /\ UNCHANGED <<engineVars, silences, tiers_off, last_sweep, sent>>

StepFire ==
  /\ tick.pc = "step" /\ StepIsDue /\ ~StepIsDone
  /\ tick' = IF Current.check \in tick.off THEN [tick EXCEPT !.pc = "withhold"]
             ELSE [tick EXCEPT !.pc = "dispatch", !.left = Receiver]
  /\ UNCHANGED <<engineVars, silences, tiers_off, last_sweep, sent>>

\* The tier is off: the step is recorded as tier-disabled and so consumed.
Withhold ==
  /\ tick.pc = "withhold"
  /\ write_notification(tick.alarm, tick.step)
  /\ NextStep
  /\ UNCHANGED <<check_runs, alarms, alarm_acks, eval, opened, silences, tiers_off,
                 last_sweep, sent>>

(* _dispatch: the receivers of the step, one after the other *)

\* Every group of the receiver is off duty, or its addresses were served by an
\* earlier receiver of the step: nothing is sent and nothing recorded.
ReceiverSkipped(r) ==
  /\ tick.pc = "dispatch"
  /\ r \in tick.left \cap Scheduled
  /\ tick' = [tick EXCEPT !.left = @ \ {r}]
  /\ UNCHANGED <<engineVars, silences, tiers_off, last_sweep, sent>>

\* sink.send returned.
Send(r) ==
  /\ tick.pc = "dispatch"
  /\ r \in tick.left
  /\ tick' = [tick EXCEPT !.pc = "record", !.left = @ \ {r}]
  /\ sent' = [sent EXCEPT ![tick.alarm][tick.step][r] = IF @ = 2 THEN 2 ELSE @ + 1]
  /\ UNCHANGED <<engineVars, silences, tiers_off, last_sweep>>

\* Mutant: a failed send leaves no row.
SendFails_unrecorded(r) ==
  /\ tick.pc = "dispatch"
  /\ r \in tick.left
  /\ tick' = [tick EXCEPT !.left = @ \ {r}]
  /\ UNCHANGED <<engineVars, silences, tiers_off, last_sweep, sent>>

\* The sink is missing or raised: nothing went out, a failed row is written.
SendFails(r) ==
  /\ tick.pc = "dispatch"
  /\ r \in tick.left
  /\ tick' = [tick EXCEPT !.pc = "record", !.left = @ \ {r}]
  /\ UNCHANGED <<engineVars, silences, tiers_off, last_sweep, sent>>

Record ==
  /\ tick.pc = "record"
  /\ write_notification(tick.alarm, tick.step)
  /\ GoTo("dispatch")
  /\ UNCHANGED <<check_runs, alarms, alarm_acks, eval, opened, silences, tiers_off,
                 last_sweep, sent>>

StepServed ==
  /\ tick.pc = "dispatch"
  /\ tick.left = {}
  /\ NextStep
  /\ UNCHANGED <<engineVars, silences, tiers_off, last_sweep, sent>>

\* An await of _process raised: the alarm is logged and left, the loop goes on.
ProcessRaises ==
  /\ tick.pc \in Processing
  /\ ProcessNext
  /\ UNCHANGED <<engineVars, silences, tiers_off, last_sweep, sent>>
=============================================================================

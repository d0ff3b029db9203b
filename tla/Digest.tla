------------------------------- MODULE Digest -------------------------------
(***************************************************************************)
(* The task that mails the daily report (digest.py, DigestTask) and the    *)
(* page that saves its schedule (routes/digest.py).  The schedule is an    *)
(* hour in a time zone; the claim that a date has been sent is a row of    *)
(* `settings`, so that it outlives the process; a new schedule releases    *)
(* it, at the next tick, through a flag held in memory.                    *)
(*                                                                         *)
(* The clock counts hours; a day has HoursPerDay of them, and a zone is    *)
(* ahead of the clock by a number of hours.  The task ticks many times an  *)
(* hour, so an hour does not pass without a tick that began in it.         *)
(***************************************************************************)
EXTENDS Integers, FiniteSetsExt, Sequences

CONSTANTS
  HoursPerDay,
  Zone,         \* time zones, as hours ahead of the clock
  MaxHour,      \* bound: the clock
  MaxVersion,   \* bound: changes of the schedule
  MaxUpsets     \* bound: restarts and failed statements

ASSUME DigestAssumption ==
  /\ HoursPerDay \in Nat \ {0} /\ MaxHour \in Nat /\ MaxVersion \in Nat /\ MaxUpsets \in Nat
  /\ Zone \subseteq Nat

VARIABLES
  clock,
  ticked,    \* has a tick begun in this hour?
  cfg,       \* DigestTask.cfg: the schedule in force
  setting,   \* the stored schedule
  unapplied, \* put_config stored a schedule the task has not been told of
  release,   \* DigestTask._release_claim
  claim,     \* last_sent_date
  tick,      \* the tick in flight
  reports,   \* the reports sent, in order: date, and version it was due under
  version,   \* history: which schedule is in force
  started,   \* history: the hour in which it came into force
  upset      \* history: did anything go wrong under it? and how often at all?


digestVars == <<clock, ticked, cfg, setting, unapplied, release, claim, tick, reports, version,
                started, upset>>

Schedule == [enabled : BOOLEAN, hour : 0..HoursPerDay - 1, tz : Zone]
Unclaimed == -1
NoTick == [pc |-> "idle", date |-> 0, hour |-> 0, version |-> 0]

Date(t, tz) == (t + tz) \div HoursPerDay
Hour(t, tz) == (t + tz) % HoursPerDay

DigestInit ==
  /\ clock = 0 /\ ticked = FALSE
  /\ setting \in Schedule /\ cfg = setting /\ unapplied = FALSE
  /\ release = FALSE /\ claim = Unclaimed /\ tick = NoTick /\ reports = <<>>
  /\ version = 0 /\ started = -1 /\ upset = [now |-> FALSE, count |-> 0]

Upset == /\ upset.count < MaxUpsets
         /\ upset' = [now |-> TRUE, count |-> upset.count + 1]

-----------------------------------------------------------------------------
(* _tick *)

HourPasses ==
  /\ clock < MaxHour /\ ticked
  /\ clock' = clock + 1 /\ ticked' = FALSE
  /\ UNCHANGED <<cfg, setting, unapplied, release, claim, tick, reports, version, started, upset>>

\* With the hour read and no statement in between, on to the claim.
AtTheHour(t) == [t EXCEPT !.pc = IF t.hour = cfg.hour THEN "claim" ELSE "idle"]

TickBegins ==
  LET now == [pc |-> "release", version |-> version,
              date |-> Date(clock, cfg.tz), hour |-> Hour(clock, cfg.tz)]
  IN
  /\ tick.pc = "idle"
  /\ ticked' = TRUE
  /\ release' = (release /\ ~cfg.enabled)
  /\ tick' = IF ~cfg.enabled THEN tick ELSE IF release THEN now ELSE AtTheHour(now)
  /\ UNCHANGED <<clock, cfg, setting, unapplied, claim, reports, version, started, upset>>

\* The flag is down whatever becomes of the statement.
_release ==
  /\ tick.pc = "release"
  /\ tick' = AtTheHour(tick)
  /\ \/ claim' = Unclaimed /\ UNCHANGED upset
     \/ claim' = claim /\ Upset
  /\ UNCHANGED <<clock, ticked, cfg, setting, unapplied, release, reports, version, started>>

\* One conditional upsert.
_claim ==
  /\ tick.pc = "claim"
  /\ claim' = tick.date
  /\ tick' = [tick EXCEPT !.pc = IF claim = tick.date THEN "idle" ELSE "send"]
  /\ UNCHANGED <<clock, ticked, cfg, setting, unapplied, release, reports, version, started, upset>>

ClaimFails ==
  /\ tick.pc = "claim" /\ Upset
  /\ claim' \in {claim, tick.date}
  /\ tick' = NoTick
  /\ UNCHANGED <<clock, ticked, cfg, setting, unapplied, release, reports, version, started>>

send ==
  /\ tick.pc = "send"
  /\ reports' = Append(reports, [date |-> tick.date, version |-> tick.version])
  /\ tick' = NoTick
  /\ UNCHANGED <<clock, ticked, cfg, setting, unapplied, release, claim, version, started, upset>>

\* The report cannot be computed, or no mail leaves: the loop logs it.
SendFails ==
  /\ tick.pc = "send" /\ Upset
  /\ tick' = NoTick
  /\ UNCHANGED <<clock, ticked, cfg, setting, unapplied, release, claim, reports, version, started>>

-----------------------------------------------------------------------------
(* put_config, and restarts *)

InForce(s) ==
  /\ cfg' = s
  /\ IF s = cfg THEN UNCHANGED <<version, started>>
     ELSE version' = version + 1 /\ started' = clock

\* Stored; validation has passed.  A save may leave the schedule as it is.
put_config ==
  /\ ~unapplied /\ unapplied' = TRUE
  /\ setting' \in IF version < MaxVersion THEN Schedule ELSE {cfg}
  /\ UNCHANGED <<clock, ticked, cfg, release, claim, tick, reports, version, started, upset>>

\* Mutants: the claim is released by every save, or not by a new zone or by enabling.
Changed_always(s) == TRUE
Changed_hour(s) == s.hour # cfg.hour

Changed(s) == s # cfg

reload ==
  /\ unapplied /\ unapplied' = FALSE
  /\ release' = (release \/ Changed(setting))
  /\ InForce(setting)
  /\ upset' = IF setting = cfg THEN upset ELSE [upset EXCEPT !.now = FALSE]
  /\ UNCHANGED <<clock, ticked, setting, claim, tick, reports>>

\* The task starts from the stored schedule; the flag is gone with the process.
RestartTask ==
  /\ Upset /\ InForce(setting)
  /\ release' = FALSE /\ unapplied' = FALSE /\ tick' = NoTick
  /\ UNCHANGED <<clock, ticked, setting, claim, reports>>

DigestNext ==
  \/ HourPasses \/ TickBegins \/ _release \/ _claim \/ ClaimFails \/ send \/ SendFails
  \/ put_config \/ reload \/ RestartTask

-----------------------------------------------------------------------------

\* One report a day: whatever restarts and fails, and whenever the schedule is
\* saved, a date is reported on at most once under one schedule (the docstring of
\* DigestTask: a restart inside the hour does not send again).
OneReportPerSchedule ==
  \A i, j \in 1..Len(reports) : reports[i] = reports[j] => i = j

\* And no day is skipped: once the hour of the schedule has passed, the day has its
\* report under that schedule, also when an earlier schedule had sent that day's
\* (the comment in reload), unless something failed since.
EveryDayReported ==
  \A t \in started + 1 .. clock - 1 :
    /\ cfg.enabled /\ Hour(t, cfg.tz) = cfg.hour /\ ~upset.now /\ tick.pc = "idle"
    => \E i \in 1..Len(reports) : reports[i] = [date |-> Date(t, cfg.tz), version |-> version]
=============================================================================

----------------------------- MODULE AlarmStore -----------------------------
(***************************************************************************)
(* The tables the alarm engine lives on, and the one-statement operations  *)
(* of backend/db/store.py on them.  Every operation below is one SQL       *)
(* statement, hence one atomic step of whoever calls it.                   *)
(*                                                                         *)
(* A check stands for its (check_id, target) pair.  A verdict is what a    *)
(* run of it concluded, up to what the engine can tell apart:              *)
(*   "ok"    pass, or an intrinsic skip (the check ran, nothing to assess) *)
(*   "held"  an inconclusive skip: we declined to judge                    *)
(*   "warn"  degraded                                                      *)
(*   "fail"  fail or error, which every rule of the engine treats alike    *)
(*                                                                         *)
(* Times are ages: time units since the event, counted up to MaxAge, so    *)
(* that the model needs no absolute clock.                                 *)
(***************************************************************************)
EXTENDS Dependencies

CONSTANTS
  Alarm,      \* identities of rows of the alarms table
  Step,       \* indices of the escalation steps of the policy, 1 .. n
  NoCheck,    \* suppressed_by IS NULL
  NoAlarm,    \* no row
  MaxAge      \* bound: ages are counted up to this

ASSUME StoreAssumption ==
  /\ NoCheck \notin Check
  /\ NoAlarm \notin Alarm
  /\ MaxAge \in Nat \ {0}
  /\ Step \subseteq Nat \ {0}

VARIABLES
  check_runs,       \* per check, what the queries on its run history return
  alarms,           \* per row, its columns
  alarm_acks,       \* per alarm row, its unrevoked ack (the newest one)
  notification_log  \* per alarm row and step, age of the newest entry

storeVars == <<check_runs, alarms, alarm_acks, notification_log>>

-----------------------------------------------------------------------------

Never == -1
Age == 0 .. MaxAge
AgeOrNever == Age \cup {Never}

\* One time unit later.
Older(n) == IF n = Never \/ n = MaxAge THEN n ELSE n + 1

Verdict == {"ok", "held", "warn", "fail"}
Unhealthy == {"fail"}
Severity == {"info", "warn", "critical"}

\* router._SEV_RANK and AlarmEngine._STATUS_RANK.
SevRank == [s \in Severity |->
              IF s = "info" THEN 0 ELSE IF s = "warn" THEN 1 ELSE 2]
StatusRank == [v \in Verdict |->
                 IF v \in {"ok", "held"} THEN 0 ELSE IF v = "warn" THEN 1 ELSE 2]

NoAck == [ever |-> FALSE, live |-> FALSE, severity |-> "info", status |-> "none"]

Row == [state : {"open", "closed", "unused"}, check : Check \cup {NoCheck},
        at_open : {"warn", "fail"}, severity : Severity, age : Age,
        suppressed_by : Check \cup {NoCheck}]

UnusedRow == [state |-> "unused", check |-> NoCheck, at_open |-> "warn",
              severity |-> "info", age |-> 0, suppressed_by |-> NoCheck]

IsOpen(a) == alarms[a].state = "open"
OpenFor(c) == {a \in Alarm : IsOpen(a) /\ alarms[a].check = c}

StoreTypeOK ==
  /\ check_runs \in [Check -> [latest : Verdict \cup {"none"}, streak : AgeOrNever,
                               clean : AgeOrNever, unclean : AgeOrNever]]
  /\ alarms \in [Alarm -> Row]
  /\ alarm_acks \in [Alarm -> [ever : BOOLEAN, live : BOOLEAN, severity : Severity,
                               status : Verdict \cup {"none"}]]
  /\ notification_log \in [Alarm -> [Step -> AgeOrNever]]

StoreInit ==
  /\ check_runs = [c \in Check |-> [latest |-> "none", streak |-> Never,
                                    clean |-> Never, unclean |-> Never]]
  /\ alarms = [a \in Alarm |-> UnusedRow]
  /\ alarm_acks = [a \in Alarm |-> NoAck]
  /\ notification_log = [a \in Alarm |-> [s \in Step |-> Never]]

-----------------------------------------------------------------------------
(* check_runs *)

\* The history of c is kept as the four things the engine asks of it: the
\* latest verdict, the start of the non-pass streak (min(finished_at) after
\* the last pass or conclusive skip), and the ages of its last clean and its
\* last other run.
RecordRun(c, v, streak) ==
  check_runs' = [check_runs EXCEPT ![c] =
    [latest  |-> v,
     streak  |-> streak,
     clean   |-> IF v = "ok" THEN 0 ELSE @.clean,
     unclean |-> IF v = "ok" THEN @.unclean ELSE 0]]

StreakOn(c) == IF check_runs[c].streak = Never THEN 0 ELSE check_runs[c].streak

\* Mutants: the streak survives a clean run; every run begins a new streak.
write_check_run_no_reset(c, v) ==
  RecordRun(c, v, IF v = "ok" THEN check_runs[c].streak ELSE StreakOn(c))
write_check_run_last_bad(c, v) == RecordRun(c, v, IF v = "ok" THEN Never ELSE 0)

write_check_run(c, v) == RecordRun(c, v, IF v = "ok" THEN Never ELSE StreakOn(c))

non_pass_streak_start(c) == check_runs[c].streak

latest_per_check_map == [c \in Check |-> check_runs[c].latest]

(* alarms *)

\* Mutant: an ack outlives the alarm it was for.
open_alarm_keeps_ack(a, c, v, sev, cause) ==
  /\ alarms' = [alarms EXCEPT ![a] =
       [state |-> "open", check |-> c, at_open |-> v, severity |-> sev,
        age |-> 0, suppressed_by |-> cause]]
  /\ notification_log' = [notification_log EXCEPT ![a] = [s \in Step |-> Never]]
  /\ UNCHANGED alarm_acks

\* INSERT INTO alarms.  The identity a is fresh: no ack and no notification
\* refers to it.
open_alarm(a, c, v, sev, cause) ==
  /\ alarms' = [alarms EXCEPT ![a] =
       [state |-> "open", check |-> c, at_open |-> v, severity |-> sev,
        age |-> 0, suppressed_by |-> cause]]
  /\ alarm_acks' = [alarm_acks EXCEPT ![a] = NoAck]
  /\ notification_log' = [notification_log EXCEPT ![a] = [s \in Step |-> Never]]

\* UPDATE ... WHERE closed_at IS NULL: closing twice changes nothing.
close_alarm(a) ==
  alarms' = IF IsOpen(a) THEN [alarms EXCEPT ![a].state = "closed"] ELSE alarms

\* The two updates below have no closed_at condition in the code either.
update_alarm_severity(a, sev) == alarms' = [alarms EXCEPT ![a].severity = sev]
update_alarm_suppression(a, cause) ==
  alarms' = [alarms EXCEPT ![a].suppressed_by = cause]

(* alarm_acks *)

\* Records the severity and the check's latest status as the state acked.
ack_alarm(a) ==
  alarm_acks' = [alarm_acks EXCEPT ![a] =
    [ever |-> TRUE, live |-> TRUE, severity |-> alarms[a].severity,
     status |-> check_runs[alarms[a].check].latest]]

\* Revokes every unrevoked ack of the alarm, whichever it is.
unack_alarm(a) == alarm_acks' = [alarm_acks EXCEPT ![a].live = FALSE]

is_acked(a) == alarm_acks[a].live

(* notification_log *)

write_notification(a, s) ==
  notification_log' = [notification_log EXCEPT ![a][s] = 0]

-----------------------------------------------------------------------------

\* One time unit passes.  A closed row is forgotten: no task holds one then.
StoreElapse ==
  /\ check_runs' = [c \in Check |->
       [check_runs[c] EXCEPT !.streak = Older(@), !.clean = Older(@),
                             !.unclean = Older(@)]]
  /\ alarms' = [a \in Alarm |->
       IF IsOpen(a) THEN [alarms[a] EXCEPT !.age = Older(@)] ELSE UnusedRow]
  /\ alarm_acks' = [a \in Alarm |-> IF IsOpen(a) THEN alarm_acks[a] ELSE NoAck]
  /\ notification_log' = [a \in Alarm |-> [s \in Step |->
       IF IsOpen(a) THEN Older(notification_log[a][s]) ELSE Never]]
=============================================================================

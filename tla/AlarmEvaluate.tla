--------------------------- MODULE AlarmEvaluate ----------------------------
(***************************************************************************)
(* AlarmEngine.evaluate (backend/alarms/engine.py): what the engine does   *)
(* with the result of one run of a check.  The scheduler calls it from the *)
(* task of that check, after persisting the run, so there is at most one   *)
(* evaluation of a check in progress; evaluations of different checks, the *)
(* ticker and the API interleave at every await, one per action here.      *)
(***************************************************************************)
EXTENDS AlarmStore

CONSTANTS
  HoldDown    \* check -> hold-down of the route its result matches, 0 = none

ASSUME EvaluateAssumption == HoldDown \in [Check -> Nat]

VARIABLES
  eval,    \* per check, where its evaluation stands
  opened   \* alarm rows whose alarm_open event went to the listeners

EvalPc == {"idle", "find", "close", "hold", "latest", "open", "emit"}

IdleEval == [pc |-> "idle", verdict |-> "ok", degraded |-> FALSE,
             alarm |-> NoAlarm, suppressed_by |-> NoCheck]

EvalState == [pc : EvalPc, verdict : Verdict, degraded : BOOLEAN,
              alarm : Alarm \cup {NoAlarm}, suppressed_by : Check \cup {NoCheck}]

EvalTypeOK ==
  /\ eval \in [Check -> EvalState]
  /\ opened \subseteq Alarm

EvalInit ==
  /\ eval = [c \in Check |-> IdleEval]
  /\ opened = {}

-----------------------------------------------------------------------------
(* suppression.py, router.severity_for_status *)

\* The candidates for suppressed_by: the unhealthy ancestors the walk meets
\* first.  Which of several is the order of declaration.
compute_suppression(c, latest) ==
  NearestAncestors(c, {d \in Check : latest[d] \in Unhealthy})

\* Mutants: the status itself as a severity; a failure critical from the start.
severity_is_status(v) == v
severity_fail_critical(v) == IF v = "fail" THEN "critical" ELSE "info"

severity_for_status(v) == IF v = "fail" THEN "warn" ELSE "info"

is_inconclusive(v) == v = "held"

-----------------------------------------------------------------------------

\* The scheduler persists the result, then calls evaluate.  A failed write is
\* logged and the evaluation goes on without the row.
Result(c, v) ==
  /\ eval[c].pc = "idle"
  /\ eval' = [eval EXCEPT ![c] = [IdleEval EXCEPT !.pc = "find", !.verdict = v]]
  /\ write_check_run(c, v)
  /\ UNCHANGED <<alarms, alarm_acks, notification_log, opened>>

ResultNotPersisted(c, v) ==
  /\ eval[c].pc = "idle"
  /\ eval' = [eval EXCEPT ![c] =
       [IdleEval EXCEPT !.pc = "find", !.verdict = v, !.degraded = TRUE]]
  /\ UNCHANGED <<storeVars, opened>>

\* find_open_alarm, and the returns that need no further await: an inconclusive
\* run, a clean run with nothing to close, a bad run whose alarm is open already.
EvalIgnore(c) ==
  LET v == eval[c].verdict
  IN  /\ eval[c].pc = "find"
      /\ \/ is_inconclusive(v)
         \/ v = "ok" /\ OpenFor(c) = {}
         \/ v \in {"warn", "fail"} /\ OpenFor(c) # {}
      /\ eval' = [eval EXCEPT ![c] = IdleEval]
      /\ UNCHANGED <<storeVars, opened>>

\* Mutants: an inconclusive skip closes like a pass; find_open_alarm forgotten.
EvalFindToClose_on_skip(c) ==
  /\ eval[c].pc = "find"
  /\ eval[c].verdict \in {"ok", "held"}
  /\ \E a \in OpenFor(c) :
       eval' = [eval EXCEPT ![c] = [@ EXCEPT !.pc = "close", !.alarm = a]]
  /\ UNCHANGED <<storeVars, opened>>
EvalFindNone_unasked(c) ==
  /\ eval[c].pc = "find"
  /\ eval[c].verdict \in {"warn", "fail"}
  /\ eval' = [eval EXCEPT ![c] = [@ EXCEPT !.pc = "hold"]]
  /\ UNCHANGED <<storeVars, opened>>

EvalFindToClose(c) ==
  /\ eval[c].pc = "find"
  /\ eval[c].verdict = "ok"
  /\ \E a \in OpenFor(c) :
       eval' = [eval EXCEPT ![c] = [@ EXCEPT !.pc = "close", !.alarm = a]]
  /\ UNCHANGED <<storeVars, opened>>

EvalFindNone(c) ==
  /\ eval[c].pc = "find"
  /\ eval[c].verdict \in {"warn", "fail"}
  /\ OpenFor(c) = {}
  /\ eval' = [eval EXCEPT ![c] = [@ EXCEPT !.pc = "hold"]]
  /\ UNCHANGED <<storeVars, opened>>

EvalClose(c) ==
  /\ eval[c].pc = "close"
  /\ close_alarm(eval[c].alarm)
  /\ eval' = [eval EXCEPT ![c] = IdleEval]
  /\ UNCHANGED <<check_runs, alarm_acks, notification_log, opened>>

\* The hold-down: a condition shorter than the route's hold-down opens
\* nothing.  Without a streak to measure there is nothing to hold down.
EvalHoldDown(c) ==
  LET started == non_pass_streak_start(c)
      held == HoldDown[c] > 0 /\ started # Never /\ started < HoldDown[c]
  IN /\ eval[c].pc = "hold"
     /\ eval' = [eval EXCEPT ![c] =
          IF held THEN IdleEval ELSE [@ EXCEPT !.pc = "latest"]]
     /\ UNCHANGED <<storeVars, opened>>

\* The streak lookup raised: the alarm opens anyway.
EvalHoldDownFails(c) ==
  /\ eval[c].pc = "hold"
  /\ HoldDown[c] > 0
  /\ eval' = [eval EXCEPT ![c] = [@ EXCEPT !.pc = "latest", !.degraded = TRUE]]
  /\ UNCHANGED <<storeVars, opened>>

EvalLatest(c) ==
  LET causes == compute_suppression(c, latest_per_check_map)
  IN /\ eval[c].pc = "latest"
     /\ \E d \in IF causes = {} THEN {NoCheck} ELSE causes :
          eval' = [eval EXCEPT ![c] = [@ EXCEPT !.pc = "open", !.suppressed_by = d]]
     /\ UNCHANGED <<storeVars, opened>>

\* The alarm row is inserted on what was read before: that no alarm of c is
\* open is not checked again.
EvalOpen(c, a) ==
  /\ eval[c].pc = "open"
  /\ open_alarm(a, c, eval[c].verdict, severity_for_status(eval[c].verdict),
                eval[c].suppressed_by)
  /\ eval' = [eval EXCEPT ![c] = [@ EXCEPT !.pc = "emit", !.alarm = a]]
  /\ opened' = opened \ {a}
  /\ UNCHANGED check_runs

\* alarm_open goes to every listener, suppressed or not.
EvalEmit(c) ==
  /\ eval[c].pc = "emit"
  /\ opened' = opened \cup {eval[c].alarm}
  /\ eval' = [eval EXCEPT ![c] = IdleEval]
  /\ UNCHANGED storeVars

\* Any await above may raise; the scheduler logs it and carries on.
EvalRaises(c) ==
  /\ eval[c].pc # "idle"
  /\ eval' = [eval EXCEPT ![c] = IdleEval]
  /\ UNCHANGED <<storeVars, opened>>
=============================================================================

----------------------------- MODULE AlarmEngine ----------------------------
(***************************************************************************)
(* The alarm engine in its surroundings: evaluations of the results the    *)
(* scheduler delivers (AlarmEvaluate), the ticker (AlarmTicker), people    *)
(* acking, silencing and switching tiers through the API, exceptions, and  *)
(* a restart of the process, all interleaved at every await.               *)
(*                                                                         *)
(* Time: the unit of the ages is coarser than one evaluation or one tick,  *)
(* so it passes only between them.  A tick still sees any number of runs,  *)
(* acks and closings go by.                                                *)
(***************************************************************************)
EXTENDS AlarmTicker

CONSTANTS
  Outcome,    \* bound: the verdicts that runs have
  MaxFaults,  \* bound: exceptions and restarts in a behaviour
  Acking,     \* may people ack and unack?
  Silencing,  \* may people create and delete silences?
  Tiering     \* may people switch tiers?

ASSUME EngineAssumption ==
  /\ Outcome \subseteq Verdict
  /\ MaxFaults \in Nat
  /\ {Acking, Silencing, Tiering} \subseteq BOOLEAN

VARIABLES
  faults,  \* exceptions and restarts so far
  fresh,   \* history: alarms acked since the current tick began
  blamed   \* history: alarms whose upstream cause has not recovered since they opened

vars == <<storeVars, eval, opened, tickerVars, faults, fresh, blamed>>

TypeOK ==
  /\ StoreTypeOK
  /\ EvalTypeOK
  /\ TickTypeOK
  /\ faults \in 0 .. MaxFaults
  /\ fresh \subseteq Alarm /\ blamed \subseteq Alarm

Init ==
  /\ StoreInit
  /\ EvalInit
  /\ TickInit
  /\ faults = 0
  /\ fresh = {} /\ blamed = {}

-----------------------------------------------------------------------------
(* The tasks *)

\* A row identity stands for a new row when its former row is closed and
\* nobody holds it any more, so a few identities serve any number of alarms.
Reusable(a) ==
  /\ alarms[a].state # "open"
  /\ a \notin tick.todo \cup tick.stale \cup {tick.alarm}
  /\ \A c \in Check : eval[c].alarm # a

\* An alarm opened as suppressed is blamed on its upstream until every upstream
\* check has been seen healthy in check_runs at the same time.
Blame ==
  blamed' = {a \in Alarm :
    /\ IF IsOpen(a) THEN a \in blamed
       ELSE alarms'[a].state = "open" /\ alarms'[a].suppressed_by # NoCheck
    /\ compute_suppression(alarms'[a].check,
                           [d \in Check |-> check_runs'[d].latest]) # {}}

InsertAlarm(c, a) ==
  /\ Reusable(a)
  /\ EvalOpen(c, a)
  /\ sent' = [sent EXCEPT ![a] = NothingSent]
  /\ fresh' = fresh \ {a}
  /\ Blame
  /\ UNCHANGED <<silences, tiers_off, tick, last_sweep, faults>>

Evaluation(c) ==
  \/ /\ \/ \E v \in Outcome : Result(c, v)
        \/ EvalIgnore(c) \/ EvalFindToClose(c) \/ EvalFindNone(c)
        \/ EvalClose(c) \/ EvalHoldDown(c) \/ EvalLatest(c) \/ EvalEmit(c)
     /\ Blame
     /\ UNCHANGED <<tickerVars, faults, fresh>>
  \/ \E a \in Alarm : InsertAlarm(c, a)

Tick ==
  \/ TickBegin /\ fresh' = {} /\ UNCHANGED <<faults, blamed>>
  \/ /\ \/ SweepSelect \/ (\E a \in Alarm : SweepClose(a)) \/ SweepDone
        \/ TickReadGates \/ TickReadLatest
        \/ (\E a \in Alarm : TickTake(a)) \/ TickEnd
        \/ StaysSuppressed \/ Unsuppress
        \/ Skipped \/ Reassess
        \/ ReadAck \/ AckHonored \/ AckOutgrown \/ LapseAck
        \/ StepsEnd \/ StepSkip \/ StepFire \/ Withhold
        \/ (\E r \in Receiver : ReceiverSkipped(r) \/ Send(r) \/ SendFails(r))
        \/ Record \/ StepServed
     /\ UNCHANGED <<faults, fresh, blamed>>

-----------------------------------------------------------------------------
(* The people, through the API *)

\* POST /api/alarms/{id}/ack and the link in the mail: any existing alarm.
UserAck(a) ==
  /\ Acking
  /\ alarms[a].state # "unused"
  /\ ack_alarm(a)
  /\ fresh' = fresh \cup {a}
  /\ UNCHANGED <<check_runs, alarms, notification_log, eval, opened, tickerVars, faults,
                 blamed>>

UserUnack(a) ==
  /\ Acking
  /\ alarms[a].state # "unused"
  /\ unack_alarm(a)
  /\ UNCHANGED <<check_runs, alarms, notification_log, eval, opened, tickerVars,
                 faults, fresh, blamed>>

\* A silence covering c is created; it ends or is deleted.
ToggleSilence(c) ==
  /\ Silencing
  /\ silences' = IF c \in silences THEN silences \ {c} ELSE silences \cup {c}
  /\ UNCHANGED <<engineVars, tiers_off, tick, last_sweep, sent, faults, fresh, blamed>>

ToggleTier(c) ==
  /\ Tiering
  /\ tiers_off' = IF c \in tiers_off THEN tiers_off \ {c} ELSE tiers_off \cup {c}
  /\ UNCHANGED <<engineVars, silences, tick, last_sweep, sent, faults, fresh, blamed>>

-----------------------------------------------------------------------------
(* What goes wrong *)

Raise ==
  \/ /\ \E c \in Check :
          \/ \E v \in Outcome : ResultNotPersisted(c, v)
          \/ EvalHoldDownFails(c)
          \/ EvalRaises(c)
     /\ UNCHANGED tickerVars
  \/ SweepRaises \/ TickReadLatestFails \/ AckUnreadable \/ ProcessRaises

\* The process stops anywhere and starts again: the tables survive.
Restart ==
  /\ eval' = [c \in Check |-> IdleEval]
  /\ tick' = IdleTick
  /\ last_sweep' = Never
  /\ UNCHANGED <<storeVars, opened, silences, tiers_off, sent>>

Fault ==
  /\ faults < MaxFaults
  /\ faults' = faults + 1
  /\ Raise \/ Restart
  /\ UNCHANGED <<fresh, blamed>>

Elapse ==
  /\ tick.pc = "idle"
  /\ \A c \in Check : eval[c].pc = "idle"
  /\ StoreElapse
  /\ last_sweep' = Older(last_sweep)
  /\ opened' = {a \in opened : IsOpen(a)}
  /\ sent' = [a \in Alarm |-> IF IsOpen(a) THEN sent[a] ELSE NothingSent]
  /\ fresh' = {}
  /\ blamed' = {a \in blamed : IsOpen(a)}
  /\ UNCHANGED <<eval, silences, tiers_off, tick, faults>>

Next ==
  \/ \E c \in Check : Evaluation(c)
  \/ Tick
  \/ \E a \in Alarm : UserAck(a) \/ UserUnack(a)
  \/ \E c \in Check : ToggleSilence(c) \/ ToggleTier(c)
  \/ Fault
  \/ Elapse

Spec == Init /\ [][Next]_vars

\* Evaluations take milliseconds and ticks at most seconds, against cadences of
\* half a minute and more: moments with neither in progress keep coming, and
\* time passes in them.  Every task that can go on goes on.
Quiet == tick.pc = "idle" /\ \A c \in Check : eval[c].pc = "idle"

FairSpec ==
  /\ Spec
  /\ \A c \in Check : WF_vars(Evaluation(c))
  /\ WF_vars(Tick)
  /\ SF_vars(Elapse)
  /\ []<>Quiet

-----------------------------------------------------------------------------
(* Safety *)

\* At most one alarm is open per check and target, although no constraint of
\* the table says so and evaluate inserts on a read several awaits old.
OneOpenAlarm ==
  \A a, b \in Alarm : IsOpen(a) /\ IsOpen(b) /\ alarms[a].check = alarms[b].check
                       => a = b

\* The hold-down: short of a failed write or lookup, an alarm is about to open
\* only if the check has had no clean run for the length of the hold-down,
\* whatever inconclusive runs came in between.
HeldDown ==
  \A c \in Check :
    eval[c].pc \in {"latest", "open"} /\ ~eval[c].degraded /\ HoldDown[c] > 0
      => \/ check_runs[c].clean = Never
         \/ check_runs[c].clean >= HoldDown[c]

\* Without faults an evaluation closes an alarm only while the last conclusive
\* run of its check is a clean one: an inconclusive skip never closes it.  (The
\* steps that leave the tick alone are all but those of the sweep.)
ClosedOnRecovery ==
  [][faults' = 0 /\ tick' = tick =>
       \A a \in Alarm : IsOpen(a) /\ alarms'[a].state = "closed"
         => check_runs[alarms[a].check].streak = Never]_vars

\* The severity of an alarm never falls while it is open, whatever the check
\* does, and in spite of the snapshots it is computed from.
SeverityRatchet ==
  [][\A a \in Alarm : IsOpen(a) /\ alarms'[a].state = "open"
       => SevRank[alarms'[a].severity] >= SevRank[alarms[a].severity]]_vars

\* No message goes out for an alarm under an ack that stood when the tick
\* began: such an ack either covers the condition, or was revoked first.
NoPageUnderStandingAck ==
  tick.pc = "dispatch" /\ alarm_acks[tick.alarm].live => tick.alarm \in fresh

\* An alarm that opened as the consequence of an upstream outage pages nobody
\* before that outage has been over at least for a moment.
SilentWhileBlamed == tick.pc = "dispatch" => tick.alarm \notin blamed

\* Without repeats, a receiver gets a step twice only if something failed
\* between sending and recording.
NoDuplicatePage ==
  Repeat = 0 /\ faults = 0 =>
    \A a \in Alarm, s \in Step, r \in Receiver : sent[a][s][r] <= 1

\* Steps go out in order: a later step only after the earlier one was recorded
\* for the same alarm, as long as some receiver is always on duty.
StepsInOrder ==
  tick.pc = "dispatch" /\ tick.step > 1 /\ Receiver \ Scheduled # {} =>
    notification_log[tick.alarm][tick.step - 1] # Never

\* The engine implements AlarmLifecycle.
Standing(c) ==
  IF OpenFor(c) = {}
  THEN [alarm |-> FALSE, severity |-> 0, acked |-> FALSE, cause |-> NoCheck]
  ELSE LET a == CHOOSE a \in OpenFor(c) : TRUE
       IN  [alarm |-> TRUE, severity |-> SevRank[alarms[a].severity],
            acked |-> is_acked(a), cause |-> alarms[a].suppressed_by]

Lifecycle == INSTANCE AlarmLifecycle WITH standing <- [c \in Check |-> Standing(c)]

\* Every step of the engine, seen from outside, is one of AlarmLifecycle or none.
ImplementsLifecycle == Lifecycle!Spec

-----------------------------------------------------------------------------
(* Liveness *)

\* A check that from some time on only fails has an alarm open at last and from then
\* on, whatever alarms it had before: the hold-down delays it, and neither inconclusive
\* runs in the past nor a former alarm, closed at a wrong moment, prevent it.
FailureOpensAlarm ==
  \A c \in Check :
    <>[](check_runs[c].latest = "fail") => <>[](OpenFor(c) # {})

\* An alarm that stays open, unacked, unsuppressed, unsilenced and routed has its own
\* first step recorded at last, whatever was recorded for an alarm before it.
FirstStepGoesOut ==
  \A a \in Alarm :
    <>[](/\ IsOpen(a) /\ ~is_acked(a)
         /\ alarms[a].suppressed_by = NoCheck
         /\ alarms[a].check \in Routed \ silences)
      => <>[](notification_log[a][1] # Never)

\* An ack that the condition has outgrown for good is revoked: acking the
\* degraded thing does not mean going deaf to what it becomes.
OutgrownAckLapses ==
  \A a \in Alarm :
    ~<>[](/\ IsOpen(a) /\ is_acked(a)
          /\ alarms[a].suppressed_by = NoCheck
          /\ alarms[a].check \in Routed \ silences
          /\ Outgrown(alarm_acks[a], alarms[a].severity,
                      check_runs[alarms[a].check].latest))

\* A suppression whose cause is gone for good does not hold the alarm silent.
SuppressionClears ==
  \A a \in Alarm :
    ~<>[](/\ IsOpen(a) /\ alarms[a].suppressed_by # NoCheck
          /\ compute_suppression(alarms[a].check, latest_per_check_map) = {})

-----------------------------------------------------------------------------
(* What a docstring says and the code does not do *)

\* _ack_still_covers: an ack lapses when the status or the severity has risen
\* above what was on record at ack time.
LapseOnlyIfOutgrown ==
  tick.pc = "lapse" /\ is_acked(tick.alarm) =>
    Outgrown(alarm_acks[tick.alarm], Current.severity,
             check_runs[Current.check].latest)
=============================================================================

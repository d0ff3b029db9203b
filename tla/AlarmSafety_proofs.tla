------------------------- MODULE AlarmSafety_proofs -------------------------
(***************************************************************************)
(* The safety properties of AlarmEngine, for any values of its constants,  *)
(* from the inductive invariant of AlarmEngine_proofs and what each of     *)
(* them needs besides.                                                     *)
(***************************************************************************)
EXTENDS AlarmEngine_proofs

-----------------------------------------------------------------------------
(* The severity of an open alarm never falls *)

SeverityKept ==
  \A a \in Alarm : IsOpen(a) /\ alarms'[a].state = "open"
    => SevRank[alarms'[a].severity] >= SevRank[alarms[a].severity]

LEMMA SameSeverity ==
  ASSUME alarms \in [Alarm -> Row],
         \A a \in Alarm : alarms'[a].severity = alarms[a].severity
  PROVE  SeverityKept
<1>1. \A s \in Severity : SevRank[s] >= SevRank[s]
  BY DEF SevRank, Severity
<1> QED
  BY <1>1 DEF SeverityKept, Row

LEMMA SeverityStep == IInv /\ [Next]_vars => SeverityKept
<1> SUFFICES ASSUME IInv, [Next]_vars PROVE SeverityKept
  OBVIOUS
<1>a. alarms \in [Alarm -> Row] /\ TypeOK /\ EvalKnows /\ TickHoldsRows
  BY DEF IInv, TypeOK, StoreTypeOK
<1>b. UNCHANGED alarms => SeverityKept
  BY <1>a, SameSeverity
<1>c. ASSUME NEW a, close_alarm(a) PROVE SeverityKept
  BY <1>a, <1>c, SameSeverity DEF close_alarm, Row
<1>1. ASSUME EvaluationStep PROVE SeverityKept
  <2>1. PICK c \in Check : UNCHANGED alarms \/ close_alarm(eval[c].alarm)
    BY <1>1 DEF EvaluationStep, EvaluationButInsert, Result, ResultNotPersisted, EvalIgnore,
      EvalFindToClose, EvalFindNone, EvalClose, EvalHoldDown, EvalHoldDownFails, EvalLatest,
      EvalEmit, EvalRaises, storeVars
  <2> QED BY <1>b, <1>c, <2>1
<1>2. ASSUME InsertStep PROVE SeverityKept
  <2>1. PICK a \in Alarm : ~IsOpen(a) /\ \A b \in Alarm \ {a} : alarms'[b] = alarms[b]
    BY <1>2, <1>a DEF InsertStep, InsertAlarm, Reusable, EvalOpen, open_alarm, IsOpen
  <2>2. \A s \in Severity : SevRank[s] >= SevRank[s]
    BY DEF SevRank, Severity
  <2> QED BY <1>a, <2>1, <2>2 DEF SeverityKept, Row
<1>3. ASSUME TickerStep PROVE SeverityKept
  <2>1. ASSUME NEW a \in Alarm, SweepClose(a) PROVE SeverityKept
    BY <2>1, <1>c DEF SweepClose
  <2>2. ASSUME NEW d, update_alarm_suppression(tick.alarm, d) PROVE SeverityKept
    BY <2>2, <1>a, SameSeverity DEF update_alarm_suppression, Row
  <2>3. CASE Reassess
    <3>1. tick.alarm \in Alarm
      BY <1>a, <2>3 DEF Reassess, TickHoldsRows, Processing
    <3>2. SevRank[compute_severity] >= SevRank[alarms[tick.alarm].severity]
      BY <1>a, <3>1, SeverityComputed DEF Current
    <3>3. alarms' = [alarms EXCEPT ![tick.alarm].severity = compute_severity]
      BY <2>3 DEF Reassess, update_alarm_severity
    <3>4. alarms'[tick.alarm].severity = compute_severity
      BY <1>a, <3>1, <3>3 DEF Row
    <3>5. \A b \in Alarm \ {tick.alarm} : alarms'[b] = alarms[b]
      BY <1>a, <3>1, <3>3
    <3>6. \A s \in Severity : SevRank[s] >= SevRank[s]
      BY DEF SevRank, Severity
    <3> QED BY <1>a, <3>1, <3>2, <3>4, <3>5, <3>6 DEF SeverityKept, Row
  <2>4. CASE UNCHANGED alarms
    BY <2>4, <1>b
  <2>5. \/ \E a \in Alarm : SweepClose(a)
        \/ \E d : update_alarm_suppression(tick.alarm, d)
        \/ Reassess
        \/ UNCHANGED alarms
    BY <1>3 DEF TickerStep, Tick, TickBegin, SweepSelect, SweepDone, SweepRaises,
      SweepStamp, TickReadGates, TickReadLatest, TickReadLatestFails, TickTake, TickEnd,
      StaysSuppressed, Unsuppress, Skipped, ReadAck, AckHonored, AckOutgrown,
      AckUnreadable, LapseAck, StepsEnd, StepSkip, StepFire, Withhold, ReceiverSkipped,
      Send, SendFails, Record, StepServed, ProcessRaises, engineVars, storeVars
  <2> QED BY <2>1, <2>2, <2>3, <2>4, <2>5
<1>4. ASSUME Elapse PROVE SeverityKept
  <2>1. ASSUME NEW a \in Alarm, IsOpen(a) PROVE alarms'[a].severity = alarms[a].severity
    <3>1. alarms'[a] = [alarms[a] EXCEPT !.age = Older(@)]
      BY <1>4, <2>1 DEF Elapse, StoreElapse
    <3> QED BY <1>a, <3>1 DEF Row
  <2>2. \A s \in Severity : SevRank[s] >= SevRank[s]
    BY DEF SevRank, Severity
  <2> QED BY <1>a, <2>1, <2>2 DEF SeverityKept, Row
<1>5. ASSUME AckStep \/ SwitchStep \/ RestartStep \/ UNCHANGED vars PROVE SeverityKept
  BY <1>5, <1>b DEF AckStep, UserAck, UserUnack, SwitchStep, ToggleSilence, ToggleTier,
                    RestartStep, Restart, engineVars, storeVars, vars
<1> QED
  BY <1>1, <1>2, <1>3, <1>4, <1>5, StepKinds

\* The severity of an alarm never falls while it is open, in spite of the
\* snapshots compute_severity works from.
THEOREM SeverityNeverFalls == Spec => SeverityRatchet
BY Inductive, SeverityStep, PTL DEF Spec, SeverityRatchet, SeverityKept

-----------------------------------------------------------------------------
(* Nothing goes out under an ack that stood when the tick began *)

\* Once a tick is past the ack of its row, an ack the row has is a new one.
AckPassed ==
  tick.pc \in {"step", "withhold", "dispatch", "record"} /\ alarm_acks[tick.alarm].live
    => tick.alarm \in fresh

LEMMA AckPassedStep == IInv /\ AckPassed /\ [Next]_vars => AckPassed'
<1> SUFFICES ASSUME IInv, AckPassed, [Next]_vars PROVE AckPassed'
  OBVIOUS
<1>a. /\ tick \in TickState /\ TickHoldsRows /\ eval \in [Check -> EvalState]
      /\ alarm_acks \in [Alarm -> [ever : BOOLEAN, live : BOOLEAN, severity : Severity,
                                   status : Verdict \cup {"none"}]]
  BY DEF IInv, TypeOK, StoreTypeOK, TickTypeOK, EvalTypeOK
<1> DEFINE Past == {"step", "withhold", "dispatch", "record"}
<1>b. ASSUME UNCHANGED <<alarm_acks, fresh>>, tick.pc \in Past, tick'.alarm = tick.alarm
      PROVE  AckPassed'
  BY <1>b DEF AckPassed
<1>c. ASSUME tick'.pc \notin Past PROVE AckPassed'
  BY <1>c DEF AckPassed
<1>d. tick.pc \in Processing => tick.alarm \in Alarm
  BY <1>a DEF TickHoldsRows
<1>1. ASSUME UNCHANGED <<tick, alarm_acks, fresh>> PROVE AckPassed'
  BY <1>1 DEF AckPassed
<1>2. ASSUME EvaluationStep \/ SwitchStep \/ UNCHANGED vars PROVE AckPassed'
  <2>1. UNCHANGED <<tick, alarm_acks, fresh>>
    BY <1>2 DEF EvaluationStep, EvaluationButInsert, Result, ResultNotPersisted, EvalIgnore,
      EvalFindToClose, EvalFindNone, EvalClose, EvalHoldDown, EvalHoldDownFails, EvalLatest,
      EvalEmit, EvalRaises, SwitchStep, ToggleSilence, ToggleTier, engineVars, tickerVars,
      storeVars, vars
  <2> QED BY <1>1, <2>1
<1>3. ASSUME InsertStep PROVE AckPassed'
  <2>1. PICK a \in Alarm : /\ a # tick.alarm /\ UNCHANGED tick /\ fresh' = fresh \ {a}
                           /\ alarm_acks' = [alarm_acks EXCEPT ![a] = NoAck]
    BY <1>3 DEF InsertStep, InsertAlarm, Reusable, EvalOpen, open_alarm
  <2>2. tick.pc \in Past => alarm_acks'[tick.alarm] = alarm_acks[tick.alarm]
    BY <1>a, <1>d, <2>1 DEF Processing
  <2> QED BY <2>1, <2>2 DEF AckPassed
<1>4. ASSUME TickerStep PROVE AckPassed'
  <2>1. CASE ReadAck
    <3>1. tick'.alarm = tick.alarm /\ UNCHANGED alarm_acks
      BY <1>a, <2>1 DEF ReadAck, GoTo, TickState, engineVars, storeVars
    <3>2. tick'.pc = IF is_acked(tick.alarm) THEN "covers" ELSE "step"
      BY <1>a, <2>1 DEF ReadAck, GoTo, TickState
    <3> QED BY <3>1, <3>2 DEF AckPassed, is_acked
  <2>2. CASE LapseAck
    <3>1. tick.alarm \in Alarm /\ tick'.alarm = tick.alarm
      BY <1>a, <1>d, <2>2 DEF LapseAck, GoTo, TickState, Processing
    <3>2. ~alarm_acks'[tick.alarm].live
      BY <1>a, <2>2, <3>1 DEF LapseAck, unack_alarm
    <3> QED BY <3>1, <3>2 DEF AckPassed
  <2>3. CASE \/ StepSkip \/ StepFire \/ Withhold \/ Record \/ StepServed
             \/ \E r \in Receiver : ReceiverSkipped(r) \/ Send(r) \/ SendFails(r)
    <3>1. tick.pc \in Past /\ UNCHANGED alarm_acks
      BY <2>3 DEF StepSkip, StepFire, Withhold, Record, StepServed, ReceiverSkipped, Send,
                  SendFails, engineVars, storeVars
    <3>2. tick'.alarm = tick.alarm
      BY <1>a, <2>3 DEF StepSkip, StepFire, Withhold, Record, StepServed, ReceiverSkipped,
                  Send, SendFails, NextStep, GoTo, TickState
    <3>3. UNCHANGED fresh
      BY <1>4, <3>1 DEF TickerStep, Tick, TickBegin
    <3> QED BY <1>b, <3>1, <3>2, <3>3
  <2>4. CASE \/ TickBegin \/ SweepSelect \/ (\E a \in Alarm : SweepClose(a))
             \/ SweepDone \/ SweepRaises \/ TickReadGates \/ TickReadLatest
             \/ TickReadLatestFails \/ (\E a \in Alarm : TickTake(a)) \/ TickEnd
    <3>1. CASE TickBegin \/ TickEnd \/ TickReadGates
      <4>1. CASE TickBegin
        BY <1>c, <4>1 DEF TickBegin, IdleTick
      <4>2. CASE TickEnd
        BY <1>c, <4>2 DEF TickEnd, IdleTick
      <4>3. CASE TickReadGates
        <5>1. tick' = IdleTick \/ tick'.pc = "latest"
          BY <1>a, <4>3 DEF TickReadGates, TickState
        <5> QED BY <1>c, <5>1 DEF IdleTick
      <4> QED BY <3>1, <4>1, <4>2, <4>3
    <3>2. CASE SweepDone \/ SweepRaises \/ TickReadLatestFails
      BY <1>a, <1>c, <3>2 DEF SweepDone, SweepRaises, SweepStamp, TickReadLatestFails, GoTo,
        TickState
    <3>3. CASE SweepSelect \/ TickReadLatest
      BY <1>a, <1>c, <3>3 DEF SweepSelect, TickReadLatest, TickState
    <3>4. CASE \E a \in Alarm : SweepClose(a)
      BY <1>a, <1>c, <3>4 DEF SweepClose, TickState
    <3>5. CASE \E a \in Alarm : TickTake(a)
      BY <1>a, <1>c, <3>5 DEF TickTake, TickState
    <3> QED BY <2>4, <3>1, <3>2, <3>3, <3>4, <3>5
  <2>5. CASE StaysSuppressed \/ Skipped \/ AckHonored \/ AckUnreadable \/ StepsEnd
             \/ ProcessRaises
    <3>1. ProcessNext
      BY <2>5 DEF StaysSuppressed, Skipped, AckHonored, AckUnreadable, StepsEnd, ProcessRaises
    <3>2. tick'.pc = "next"
      BY <1>a, <3>1 DEF ProcessNext, TickState
    <3> QED BY <1>c, <3>2
  <2>6. CASE Unsuppress \/ Reassess \/ AckOutgrown
    <3>1. tick'.pc \in {"severity", "ack", "lapse"}
      BY <1>a, <2>6 DEF Unsuppress, Reassess, AckOutgrown, GoTo, TickState
    <3> QED BY <1>c, <3>1
  <2> QED
    BY <1>4, <2>1, <2>2, <2>3, <2>4, <2>5, <2>5, <2>6 DEF TickerStep, Tick
<1>5. ASSUME AckStep PROVE AckPassed'
  <2>1. PICK a \in Alarm : UserAck(a) \/ UserUnack(a)
    BY <1>5 DEF AckStep
  <2>2. UNCHANGED tick
    BY <2>1 DEF UserAck, UserUnack, tickerVars
  <2>3. CASE UserAck(a)
    BY <1>a, <1>d, <2>2, <2>3 DEF UserAck, ack_alarm, AckPassed, Processing
  <2>4. CASE UserUnack(a)
    BY <1>a, <1>d, <2>2, <2>4 DEF UserUnack, unack_alarm, AckPassed, Processing
  <2> QED BY <2>1, <2>3, <2>4
<1>6. ASSUME RestartStep \/ Elapse PROVE AckPassed'
  BY <1>6, <1>c DEF RestartStep, Restart, Elapse, IdleTick
<1> QED
  BY <1>2, <1>3, <1>4, <1>5, <1>6, StepKinds

\* No message goes out for an alarm under an ack that stood when the tick began.
THEOREM AcksAreHonored == Spec => []NoPageUnderStandingAck
<1>1. Init => AckPassed
  BY DEF Init, TickInit, IdleTick, AckPassed
<1>2. AckPassed => NoPageUnderStandingAck
  BY DEF AckPassed, NoPageUnderStandingAck
<1> QED
  BY Inductive, AckPassedStep, <1>1, <1>2, PTL DEF Spec

-----------------------------------------------------------------------------
(* The hold-down holds *)

\* The streak of a check began after its last clean run; while a run that
\* failed and was persisted is evaluated there is a streak; and an evaluation
\* past the hold-down has measured it.
Streaks ==
  \A c \in Check :
    /\ check_runs[c].streak # Never =>
         check_runs[c].clean = Never \/ check_runs[c].clean >= check_runs[c].streak
    /\ eval[c].pc \in {"find", "hold", "latest", "open"} =>
         \/ eval[c].degraded \/ eval[c].verdict \notin {"warn", "fail"}
         \/ check_runs[c].streak # Never
    /\ eval[c].pc \in {"latest", "open"} =>
         \/ eval[c].degraded \/ HoldDown[c] = 0
         \/ check_runs[c].streak >= HoldDown[c]

LEMMA OlderMonotone ==
  ASSUME NEW m \in AgeOrNever, NEW n \in AgeOrNever
  PROVE  /\ Older(n) = Never <=> n = Never
         /\ n # Never /\ m >= n => Older(m) >= Older(n)
BY StoreAssumption DEF AgeOrNever, Age, Never, Older

LEMMA StreaksStep == IInv /\ Streaks /\ [Next]_vars => Streaks'
<1> SUFFICES ASSUME IInv, Streaks, [Next]_vars PROVE Streaks'
  OBVIOUS
<1>a. /\ eval \in [Check -> EvalState] /\ EvalKnows
      /\ check_runs \in [Check -> [latest : Verdict \cup {"none"}, streak : AgeOrNever,
                                   clean : AgeOrNever, unclean : AgeOrNever]]
  BY DEF IInv, TypeOK, StoreTypeOK, EvalTypeOK
<1>b. UNCHANGED <<eval, check_runs>> => Streaks'
  BY DEF Streaks
<1> DEFINE Good(run, e, c) ==
      /\ run.streak # Never => run.clean = Never \/ run.clean >= run.streak
      /\ e.pc \in {"find", "hold", "latest", "open"} =>
           e.degraded \/ e.verdict \notin {"warn", "fail"} \/ run.streak # Never
      /\ e.pc \in {"latest", "open"} =>
           e.degraded \/ HoldDown[c] = 0 \/ run.streak >= HoldDown[c]
<1>c. /\ \A c \in Check : Good(check_runs[c], eval[c], c)
      /\ (\A c \in Check : Good(check_runs'[c], eval'[c], c)) => Streaks'
  BY DEF Streaks
<1>d. \A c \in Check : HoldDown[c] \in Nat
  BY EvaluateAssumption
<1>1. ASSUME EvaluationStep PROVE Streaks'
  <2>1. PICK c \in Check : EvaluationButInsert(c)
    BY <1>1 DEF EvaluationStep
  <2>2. \A d \in Check \ {c} : eval'[d] = eval[d] /\ check_runs'[d] = check_runs[d]
    BY <1>a, <2>1 DEF EvaluationButInsert, Result, ResultNotPersisted, EvalIgnore,
      EvalFindToClose, EvalFindNone, EvalClose, EvalHoldDown, EvalHoldDownFails, EvalLatest,
      EvalEmit, EvalRaises, write_check_run, RecordRun, storeVars
  <2>3. Good(check_runs'[c], eval'[c], c)
    <3>1. ASSUME NEW v \in Outcome, Result(c, v) PROVE Good(check_runs'[c], eval'[c], c)
      <4>1. /\ eval'[c].pc = "find" /\ eval'[c].verdict = v
            /\ check_runs'[c].streak = IF v = "ok" THEN Never ELSE StreakOn(c)
            /\ check_runs'[c].clean = IF v = "ok" THEN 0 ELSE check_runs[c].clean
        BY <1>a, <3>1 DEF Result, IdleEval, write_check_run, RecordRun
      <4>2. StreakOn(c) # Never
        BY DEF StreakOn, Never
      <4>3. v # "ok" => check_runs[c].clean = Never \/ check_runs[c].clean >= StreakOn(c)
        BY <1>a, <1>c DEF StreakOn, Never, AgeOrNever, Age
      <4> QED BY <4>1, <4>2, <4>3
    <3>2. ASSUME ~\E v \in Outcome : Result(c, v) PROVE check_runs' = check_runs
      BY <2>1, <3>2 DEF EvaluationButInsert, ResultNotPersisted, EvalIgnore,
        EvalFindToClose, EvalFindNone, EvalClose, EvalHoldDown, EvalHoldDownFails, EvalLatest,
        EvalEmit, EvalRaises, storeVars
    <3> DEFINE e == eval[c]
               f == eval'[c]
    <3>3. e \in EvalState
      BY <1>a
    <3>4. CASE \E v \in Outcome : ResultNotPersisted(c, v)
      <4>1. f.pc = "find" /\ f.degraded
        BY <1>a, <3>4 DEF ResultNotPersisted, IdleEval
      <4>2. check_runs' = check_runs
        BY <3>4 DEF ResultNotPersisted, storeVars
      <4> QED BY <1>c, <4>1, <4>2
    <3>5. CASE EvalIgnore(c) \/ EvalClose(c) \/ EvalEmit(c) \/ EvalRaises(c)
      <4>1. f.pc = "idle"
        BY <1>a, <3>5 DEF EvalIgnore, EvalClose, EvalEmit, EvalRaises, IdleEval
      <4>2. check_runs' = check_runs
        BY <3>5 DEF EvalIgnore, EvalClose, EvalEmit, EvalRaises, storeVars
      <4> QED BY <1>c, <4>1, <4>2
    <3>6. CASE EvalFindToClose(c) \/ EvalFindNone(c)
      <4>1. /\ e.pc = "find" /\ f.pc \in {"close", "hold"}
            /\ f.verdict = e.verdict /\ f.degraded = e.degraded
        <5>1. CASE EvalFindToClose(c)
          BY <1>a, <5>1 DEF EvalFindToClose, EvalState
        <5>2. CASE EvalFindNone(c)
          BY <1>a, <5>2 DEF EvalFindNone, EvalState
        <5> QED BY <3>6, <5>1, <5>2
      <4>2. check_runs' = check_runs
        BY <3>6 DEF EvalFindToClose, EvalFindNone, storeVars
      <4> QED BY <1>c, <4>1, <4>2
    <3>7. CASE EvalHoldDown(c)
      <4>1. /\ e.pc = "hold"
            /\ f = IF /\ HoldDown[c] > 0 /\ check_runs[c].streak # Never
                      /\ check_runs[c].streak < HoldDown[c]
                   THEN IdleEval ELSE [e EXCEPT !.pc = "latest"]
        BY <1>a, <3>7 DEF EvalHoldDown, non_pass_streak_start
      <4>2. check_runs' = check_runs
        BY <3>7 DEF EvalHoldDown, storeVars
      <4>3. e.degraded \/ check_runs[c].streak # Never
        BY <1>a, <1>c, <4>1 DEF EvalKnows
      <4>4. check_runs[c].streak \in AgeOrNever
        BY <1>a
      <4>5. CASE f = IdleEval
        BY <1>c, <4>2, <4>5 DEF IdleEval
      <4>6. CASE f # IdleEval
        <5>1. f.pc = "latest" /\ f.verdict = e.verdict /\ f.degraded = e.degraded
          BY <3>3, <4>1, <4>6 DEF EvalState
        <5>2. e.degraded \/ HoldDown[c] = 0 \/ check_runs[c].streak >= HoldDown[c]
          BY <1>d, <4>1, <4>3, <4>4, <4>6 DEF AgeOrNever, Age, Never
        <5> QED BY <1>c, <4>2, <4>3, <5>1, <5>2
      <4> QED BY <4>5, <4>6
    <3>8. CASE EvalHoldDownFails(c)
      <4>1. f.degraded
        BY <1>a, <3>8 DEF EvalHoldDownFails, EvalState
      <4>2. check_runs' = check_runs
        BY <3>8 DEF EvalHoldDownFails, storeVars
      <4> QED BY <1>c, <4>1, <4>2
    <3>9. CASE EvalLatest(c)
      <4>1. /\ e.pc = "latest" /\ f.pc = "open"
            /\ f.verdict = e.verdict /\ f.degraded = e.degraded
        BY <1>a, <3>9 DEF EvalLatest, EvalState
      <4>2. check_runs' = check_runs
        BY <3>9 DEF EvalLatest, storeVars
      <4> QED BY <1>c, <4>1, <4>2
    <3> QED BY <2>1, <3>1, <3>4, <3>5, <3>6, <3>7, <3>8, <3>9 DEF EvaluationButInsert
  <2>4. \A d \in Check : Good(check_runs'[d], eval'[d], d)
    BY <1>c, <2>2, <2>3
  <2> QED BY <1>c, <2>4
<1>2. ASSUME InsertStep PROVE Streaks'
  <2>1. PICK c \in Check : /\ check_runs' = check_runs /\ eval'[c].pc = "emit"
                           /\ \A d \in Check \ {c} : eval'[d] = eval[d]
    BY <1>2, <1>a DEF InsertStep, InsertAlarm, EvalOpen, EvalState
  <2>2. \A d \in Check : Good(check_runs'[d], eval'[d], d)
    BY <1>c, <2>1
  <2> QED BY <1>c, <2>2
<1>3. ASSUME TickerStep PROVE Streaks'
  <2>1. UNCHANGED check_runs
    BY <1>3 DEF TickerStep, Tick, TickBegin, SweepSelect, SweepClose, SweepDone, SweepRaises,
      SweepStamp, TickReadGates, TickReadLatest, TickReadLatestFails, TickTake, TickEnd,
      StaysSuppressed, Unsuppress, Skipped, Reassess, ReadAck, AckHonored, AckOutgrown,
      AckUnreadable, LapseAck, StepsEnd, StepSkip, StepFire, Withhold, ReceiverSkipped,
      Send, SendFails, Record, StepServed, ProcessRaises, engineVars, storeVars
  <2>2. UNCHANGED eval
    BY <1>3, TickerKeepsRows DEF IInv
  <2> QED BY <1>b, <2>1, <2>2
<1>4. ASSUME AckStep \/ SwitchStep \/ UNCHANGED vars PROVE Streaks'
  BY <1>4, <1>b DEF AckStep, UserAck, UserUnack, SwitchStep, ToggleSilence, ToggleTier,
                    engineVars, storeVars, vars
<1>5. ASSUME RestartStep PROVE Streaks'
  <2>1. check_runs' = check_runs /\ \A c \in Check : eval'[c].pc = "idle"
    BY <1>5 DEF RestartStep, Restart, IdleEval, storeVars
  <2>2. \A d \in Check : Good(check_runs'[d], eval'[d], d)
    BY <1>c, <2>1
  <2> QED BY <1>c, <2>2
<1>6. ASSUME Elapse PROVE Streaks'
  <2>1. ASSUME NEW c \in Check PROVE Good(check_runs'[c], eval'[c], c)
    <3>1. eval'[c].pc = "idle"
      BY <1>6 DEF Elapse
    <3>2. /\ check_runs'[c].streak = Older(check_runs[c].streak)
          /\ check_runs'[c].clean = Older(check_runs[c].clean)
      BY <1>6, <1>a DEF Elapse, StoreElapse
    <3>3. check_runs[c].streak \in AgeOrNever /\ check_runs[c].clean \in AgeOrNever
      BY <1>a
    <3> QED BY <1>c, <3>1, <3>2, <3>3, OlderMonotone
  <2> QED BY <1>c, <2>1
<1> QED
  BY <1>1, <1>2, <1>3, <1>4, <1>5, <1>6, StepKinds

\* An alarm is about to open only after the hold-down: short of a failed write
\* or lookup, the check has had no clean run for that long.
THEOREM HoldDownHolds == Spec => []HeldDown
<1>1. Init => Streaks
  BY DEF Init, StoreInit, EvalInit, IdleEval, Streaks
<1>2. IInv /\ Streaks => HeldDown
  <2> SUFFICES ASSUME IInv, Streaks, NEW c \in Check,
                      eval[c].pc \in {"latest", "open"}, ~eval[c].degraded, HoldDown[c] > 0
               PROVE  check_runs[c].clean = Never \/ check_runs[c].clean >= HoldDown[c]
    BY DEF HeldDown
  <2>1. eval[c].verdict \in {"warn", "fail"}
    BY DEF IInv, EvalKnows
  <2>2. check_runs[c].streak \in AgeOrNever /\ check_runs[c].clean \in AgeOrNever
    BY DEF IInv, TypeOK, StoreTypeOK
  <2>3. HoldDown[c] \in Nat
    BY EvaluateAssumption
  <2> QED BY <2>1, <2>2, <2>3 DEF Streaks, AgeOrNever, Age, Never
<1> QED
  BY Inductive, StreaksStep, <1>1, <1>2, PTL DEF Spec

-----------------------------------------------------------------------------
(* An evaluation closes an alarm only on recovery *)

\* Without faults, an evaluation that found a clean run to close its alarm on
\* still sees that run as the last conclusive one: nobody else writes the runs
\* of its check.
Recovered ==
  faults = 0 =>
    \A c \in Check :
      /\ eval[c].pc = "find" /\ eval[c].verdict = "ok" => check_runs[c].streak = Never
      /\ eval[c].pc = "close" => /\ check_runs[c].streak = Never
                                 /\ alarms[eval[c].alarm].check = c

\* The steps of an evaluation in which nothing raises.
CleanEvaluation(c) ==
  \/ \E v \in Outcome : Result(c, v)
  \/ EvalIgnore(c) \/ EvalFindToClose(c) \/ EvalFindNone(c)
  \/ EvalClose(c) \/ EvalHoldDown(c) \/ EvalLatest(c) \/ EvalEmit(c)

\* A step after which there has been no fault.
LEMMA CleanKinds ==
  ASSUME TypeOK, [Next]_vars, faults' = 0
  PROVE  /\ faults = 0
         /\ \/ \E c \in Check : CleanEvaluation(c) /\ UNCHANGED tickerVars
            \/ InsertStep \/ Tick \/ AckStep \/ SwitchStep \/ Elapse \/ UNCHANGED vars
<1>1. ~Fault
  BY DEF Fault, TypeOK
<1>2. ASSUME NEW c \in Check, Evaluation(c)
      PROVE  faults' = faults /\ ((CleanEvaluation(c) /\ UNCHANGED tickerVars) \/ InsertStep)
  BY <1>2 DEF Evaluation, CleanEvaluation, InsertAlarm, InsertStep
<1>3. ASSUME Tick PROVE faults' = faults
  BY <1>3 DEF Tick
<1>4. ASSUME NEW a \in Alarm, UserAck(a) \/ UserUnack(a) PROVE faults' = faults /\ AckStep
  BY <1>4 DEF UserAck, UserUnack, AckStep
<1>5. ASSUME NEW c \in Check, ToggleSilence(c) \/ ToggleTier(c)
      PROVE  faults' = faults /\ SwitchStep
  BY <1>5 DEF ToggleSilence, ToggleTier, SwitchStep
<1>6. ASSUME Elapse PROVE faults' = faults
  BY <1>6 DEF Elapse
<1>7. ASSUME UNCHANGED vars PROVE faults' = faults
  BY <1>7 DEF vars
<1> QED
  BY <1>1, <1>2, <1>3, <1>4, <1>5, <1>6, <1>7 DEF Next

LEMMA RecoveredStep == IInv /\ Recovered /\ [Next]_vars => Recovered'
<1> SUFFICES ASSUME IInv, Recovered, [Next]_vars, faults' = 0 PROVE Recovered'
  BY DEF Recovered
<1>a. /\ eval \in [Check -> EvalState] /\ alarms \in [Alarm -> Row] /\ EvalKnows /\ TypeOK
      /\ check_runs \in [Check -> [latest : Verdict \cup {"none"}, streak : AgeOrNever,
                                   clean : AgeOrNever, unclean : AgeOrNever]]
  BY DEF IInv, TypeOK, StoreTypeOK, EvalTypeOK
<1> DEFINE Sound(run, e, rows, c) ==
      /\ e.pc = "find" /\ e.verdict = "ok" => run.streak = Never
      /\ e.pc = "close" => run.streak = Never /\ rows[e.alarm].check = c
<1>b. /\ \A c \in Check : Sound(check_runs[c], eval[c], alarms, c)
      /\ (\A c \in Check : Sound(check_runs'[c], eval'[c], alarms', c)) => Recovered'
  BY <1>a, CleanKinds DEF Recovered
<1>c. \A c \in Check : eval[c].pc = "close" => eval[c].alarm \in Alarm
  BY <1>a DEF EvalKnows
<1>d. ASSUME UNCHANGED <<eval, check_runs>>, RowsKept PROVE Recovered'
  BY <1>b, <1>c, <1>d DEF RowsKept
<1>1. ASSUME NEW c \in Check, CleanEvaluation(c) PROVE Recovered'
  <2>1. EvaluationButInsert(c)
    BY <1>1 DEF CleanEvaluation, EvaluationButInsert
  <2>2. RowsKept
    BY <1>a, <2>1, EvaluationKeepsRows
  <2>3. \A d \in Check \ {c} : eval'[d] = eval[d] /\ check_runs'[d] = check_runs[d]
    BY <1>a, <1>1 DEF CleanEvaluation, Result, EvalIgnore, EvalFindToClose, EvalFindNone,
      EvalClose, EvalHoldDown, EvalLatest, EvalEmit, write_check_run, RecordRun, storeVars
  <2>4. Sound(check_runs'[c], eval'[c], alarms', c)
    <3>1. CASE \E v \in Outcome : Result(c, v)
      <4>1. PICK v \in Outcome : /\ eval'[c].pc = "find" /\ eval'[c].verdict = v
                                 /\ v = "ok" => check_runs'[c].streak = Never
        BY <1>a, <3>1 DEF Result, IdleEval, write_check_run, RecordRun
      <4> QED BY <4>1
    <3>2. CASE EvalFindToClose(c)
      <4>1. PICK a \in OpenFor(c) :
              eval' = [eval EXCEPT ![c] = [@ EXCEPT !.pc = "close", !.alarm = a]]
        BY <3>2 DEF EvalFindToClose
      <4>2. eval'[c].pc = "close" /\ eval'[c].alarm = a
        BY <1>a, <4>1 DEF EvalState
      <4>3. check_runs'[c].streak = Never
        BY <1>b, <3>2 DEF EvalFindToClose, storeVars
      <4>4. alarms'[a].check = c
        BY <2>2, <4>1 DEF OpenFor, RowsKept
      <4> QED BY <4>2, <4>3, <4>4
    <3>3. CASE EvalIgnore(c) \/ EvalClose(c) \/ EvalEmit(c)
      BY <1>a, <3>3 DEF EvalIgnore, EvalClose, EvalEmit, IdleEval
    <3>4. CASE EvalHoldDown(c)
      BY <1>a, <3>4 DEF EvalHoldDown, EvalState, IdleEval
    <3>5. CASE EvalFindNone(c)
      BY <1>a, <3>5 DEF EvalFindNone, EvalState
    <3>6. CASE EvalLatest(c)
      BY <1>a, <3>6 DEF EvalLatest, EvalState
    <3> QED BY <1>1, <3>1, <3>2, <3>3, <3>4, <3>5, <3>6 DEF CleanEvaluation
  <2>5. \A d \in Check \ {c} : Sound(check_runs'[d], eval'[d], alarms', d)
    BY <1>b, <1>c, <2>2, <2>3 DEF RowsKept
  <2> QED BY <1>b, <2>4, <2>5
<1>2. ASSUME InsertStep PROVE Recovered'
  <2>1. PICK c \in Check, a \in Alarm : InsertAlarm(c, a)
    BY <1>2 DEF InsertStep
  <2>2. /\ check_runs' = check_runs /\ eval'[c].pc = "emit"
        /\ \A d \in Check \ {c} : eval'[d] = eval[d]
    BY <1>a, <2>1 DEF InsertAlarm, EvalOpen, EvalState
  <2>3. /\ \A d \in Check : eval[d].alarm # a
        /\ \A b \in Alarm \ {a} : alarms'[b] = alarms[b]
    BY <1>a, <2>1 DEF InsertAlarm, Reusable, EvalOpen, open_alarm
  <2>4. \A d \in Check : Sound(check_runs'[d], eval'[d], alarms', d)
    BY <1>b, <1>c, <2>2, <2>3
  <2> QED BY <1>b, <2>4
<1>3. ASSUME Tick PROVE Recovered'
  <2>1. RowsKept /\ UNCHANGED eval
    BY <1>3, TickerKeepsRows DEF IInv, TickerStep
  <2>2. UNCHANGED check_runs
    BY <1>3 DEF Tick, TickBegin, SweepSelect, SweepClose, SweepDone, SweepStamp,
      TickReadGates, TickReadLatest, TickTake, TickEnd,
      StaysSuppressed, Unsuppress, Skipped, Reassess, ReadAck, AckHonored, AckOutgrown,
      LapseAck, StepsEnd, StepSkip, StepFire, Withhold, ReceiverSkipped,
      Send, SendFails, Record, StepServed, engineVars, storeVars
  <2> QED BY <1>d, <2>1, <2>2
<1>4. ASSUME AckStep \/ SwitchStep \/ UNCHANGED vars PROVE Recovered'
  <2>1. UNCHANGED <<eval, check_runs, alarms>>
    BY <1>4 DEF AckStep, UserAck, UserUnack, SwitchStep, ToggleSilence, ToggleTier,
                engineVars, storeVars, vars
  <2> QED BY <1>d, <2>1, SameRows
<1>5. ASSUME Elapse PROVE Recovered'
  <2>1. \A c \in Check : eval'[c].pc = "idle"
    BY <1>5 DEF Elapse
  <2> QED BY <1>b, <2>1
<1> QED
  BY <1>1, <1>2, <1>3, <1>4, <1>5, CleanKinds, <1>a

\* Without faults an evaluation closes an alarm only while the last conclusive
\* run of its check is a clean one.
THEOREM EvaluateClosesOnRecovery == Spec => ClosedOnRecovery
<1>1. Init => Recovered
  BY DEF Init, EvalInit, IdleEval, Recovered
<1>2. ASSUME IInv, Recovered, [Next]_vars, faults' = 0, tick' = tick,
             NEW a \in Alarm, IsOpen(a), alarms'[a].state = "closed"
      PROVE  check_runs[alarms[a].check].streak = Never
  <2>a. /\ alarms \in [Alarm -> Row] /\ TypeOK /\ EvalKnows /\ TickHoldsRows
        /\ tick \in TickState /\ faults = 0
    BY <1>2, CleanKinds DEF IInv, TypeOK, StoreTypeOK, TickTypeOK
  <2>b. alarms'[a].state # alarms[a].state
    BY <1>2 DEF IsOpen
  <2>1. ASSUME NEW c \in Check, CleanEvaluation(c)
        PROVE  check_runs[alarms[a].check].streak = Never
    <3>1. UNCHANGED alarms \/ EvalClose(c)
      BY <2>1 DEF CleanEvaluation, Result, EvalIgnore, EvalFindToClose, EvalFindNone,
        EvalHoldDown, EvalLatest, EvalEmit, storeVars
    <3>2. EvalClose(c)
      BY <2>b, <3>1
    <3>3. eval[c].alarm \in Alarm /\ eval[c].pc = "close" /\ close_alarm(eval[c].alarm)
      BY <2>a, <3>2 DEF EvalClose, EvalKnows
    <3>4. a = eval[c].alarm
      BY <2>a, <2>b, <3>3 DEF close_alarm
    <3> QED BY <1>2, <2>a, <3>3, <3>4 DEF Recovered
  <2>2. ~InsertStep
    <3> SUFFICES ASSUME InsertStep PROVE FALSE
      OBVIOUS
    <3>1. PICK b \in Alarm : /\ alarms'[b].state = "open"
                             /\ \A d \in Alarm \ {b} : alarms'[d] = alarms[d]
      BY <2>a DEF InsertStep, InsertAlarm, EvalOpen, open_alarm
    <3> QED BY <1>2, <2>b, <3>1
  <2>3. ~Elapse
    <3> SUFFICES ASSUME Elapse PROVE FALSE
      OBVIOUS
    <3>1. alarms'[a] = [alarms[a] EXCEPT !.age = Older(@)]
      BY <1>2 DEF Elapse, StoreElapse
    <3> QED BY <2>a, <2>b, <3>1 DEF Row
  <2>4. ~(AckStep \/ SwitchStep \/ UNCHANGED vars)
    BY <2>b DEF AckStep, UserAck, UserUnack, SwitchStep, ToggleSilence, ToggleTier,
                engineVars, storeVars, vars
  <2>5. ~Tick
    <3> SUFFICES ASSUME Tick PROVE FALSE
      OBVIOUS
    <3>1. ASSUME NEW b \in Alarm, SweepClose(b) PROVE FALSE
      BY <1>2, <2>a, <3>1 DEF SweepClose, TickState
    <3>2. CASE StaysSuppressed \/ Unsuppress \/ Reassess
      <4>1. tick.alarm \in Alarm
        BY <2>a, <3>2 DEF StaysSuppressed, Unsuppress, Reassess, TickHoldsRows, Processing
      <4>2. \/ UNCHANGED alarms
            \/ \E d : alarms' = [alarms EXCEPT ![tick.alarm].suppressed_by = d]
            \/ \E s : alarms' = [alarms EXCEPT ![tick.alarm].severity = s]
        BY <3>2 DEF StaysSuppressed, Unsuppress, Reassess, update_alarm_suppression,
                    update_alarm_severity
      <4>3. ASSUME NEW d, alarms' = [alarms EXCEPT ![tick.alarm].suppressed_by = d]
            PROVE  alarms'[a].state = alarms[a].state
        BY <2>a, <4>1, <4>3 DEF Row
      <4>4. ASSUME NEW s, alarms' = [alarms EXCEPT ![tick.alarm].severity = s]
            PROVE  alarms'[a].state = alarms[a].state
        BY <2>a, <4>1, <4>4 DEF Row
      <4> QED BY <2>b, <4>2, <4>3, <4>4
    <3>3. CASE UNCHANGED alarms
      BY <2>b, <3>3
    <3>4. \/ \E b \in Alarm : SweepClose(b)
          \/ StaysSuppressed \/ Unsuppress \/ Reassess
          \/ UNCHANGED alarms
      BY DEF Tick, TickBegin, SweepSelect, SweepDone,
        SweepStamp, TickReadGates, TickReadLatest, TickTake, TickEnd,
        Skipped, ReadAck, AckHonored, AckOutgrown,
        LapseAck, StepsEnd, StepSkip, StepFire, Withhold, ReceiverSkipped,
        Send, SendFails, Record, StepServed, engineVars, storeVars
    <3> QED BY <3>1, <3>2, <3>3, <3>4
  <2> QED BY <1>2, <2>a, <2>1, <2>2, <2>3, <2>4, <2>5, CleanKinds
<1>3. IInv /\ Recovered /\ [Next]_vars =>
        (faults' = 0 /\ tick' = tick =>
           \A a \in Alarm : IsOpen(a) /\ alarms'[a].state = "closed"
             => check_runs[alarms[a].check].streak = Never)
  BY <1>2
<1> QED
  BY Inductive, RecoveredStep, <1>1, <1>3, PTL DEF Spec, ClosedOnRecovery

-----------------------------------------------------------------------------
(* The escalation steps: what the ticker does outside of their loop *)

Stepping == {"step", "withhold", "dispatch", "record"}

\* The loop over the steps of the row in hand.
LoopStep ==
  \/ StepSkip \/ StepFire \/ Withhold \/ Record \/ StepServed
  \/ \E r \in Receiver : ReceiverSkipped(r) \/ Send(r) \/ SendFails(r)

\* Outside of the loop nothing is sent or recorded, and the count of the steps
\* is taken back to the first, or stays there.
LEMMA OutsideTheLoop ==
  ASSUME IInv, TickerStep, ~LoopStep
  PROVE  /\ UNCHANGED <<notification_log, sent>>
         /\ tick'.pc \notin {"withhold", "dispatch", "record"}
         /\ tick'.step = 1 \/ (tick.pc \notin Stepping /\ tick'.step = tick.step)
         /\ Tick => tick.pc \notin {"withhold", "dispatch", "record"}
<1>a. tick \in TickState
  BY DEF IInv, TypeOK, TickTypeOK
<1> DEFINE Out == /\ UNCHANGED <<notification_log, sent>>
                  /\ tick'.pc \notin {"withhold", "dispatch", "record"}
                  /\ tick'.step = 1 \/ (tick.pc \notin Stepping /\ tick'.step = tick.step)
<1>1. ASSUME TickBegin PROVE Out
  <2>1. tick'.pc \in {"sweep", "gates"} /\ tick'.step = 1
    BY <1>1 DEF TickBegin, IdleTick
  <2> QED BY <1>1, <2>1 DEF TickBegin, engineVars, storeVars
<1>2. ASSUME TickEnd \/ TickReadGates PROVE Out
  <2>1. CASE tick' = IdleTick
    BY <1>2, <2>1 DEF TickEnd, TickReadGates, IdleTick, engineVars, storeVars
  <2>2. CASE tick' # IdleTick
    <3>1. tick.pc = "gates" /\ tick'.pc = "latest" /\ tick'.step = tick.step
      BY <1>a, <1>2, <2>2 DEF TickEnd, TickReadGates, TickState
    <3> QED BY <1>2, <3>1 DEF TickEnd, TickReadGates, engineVars, storeVars, Stepping
  <2> QED BY <2>1, <2>2
<1>3. ASSUME \/ SweepSelect \/ (\E a \in Alarm : SweepClose(a)) \/ SweepDone \/ SweepRaises
             \/ TickReadLatest \/ TickReadLatestFails \/ (\E a \in Alarm : TickTake(a))
      PROVE  Out
  <2>1. /\ tick.pc \in {"sweep", "sweeping", "latest", "next"} /\ tick'.step = tick.step
        /\ tick'.pc \in {"sweeping", "gates", "next", "severity", "cause"}
    BY <1>a, <1>3 DEF SweepSelect, SweepClose, SweepDone, SweepRaises, SweepStamp,
      TickReadLatest, TickReadLatestFails, TickTake, GoTo, TickState
  <2>2. UNCHANGED <<notification_log, sent>>
    BY <1>3 DEF SweepSelect, SweepClose, SweepDone, SweepRaises, SweepStamp,
      TickReadLatest, TickReadLatestFails, TickTake, engineVars, storeVars
  <2> QED BY <2>1, <2>2 DEF Stepping
<1>4. ASSUME Unsuppress \/ Reassess \/ ReadAck \/ AckOutgrown \/ LapseAck PROVE Out
  <2>1. /\ tick.pc \in {"cause", "severity", "ack", "covers", "lapse"}
        /\ tick'.pc \in {"severity", "ack", "covers", "lapse", "step"}
        /\ tick'.step = tick.step
    BY <1>a, <1>4 DEF Unsuppress, Reassess, ReadAck, AckOutgrown, LapseAck, GoTo, TickState
  <2>2. UNCHANGED <<notification_log, sent>>
    BY <1>4 DEF Unsuppress, Reassess, ReadAck, AckOutgrown, LapseAck, engineVars, storeVars
  <2> QED BY <2>1, <2>2 DEF Stepping
<1>5. ASSUME \/ StaysSuppressed \/ Skipped \/ AckHonored \/ AckUnreadable \/ StepsEnd
             \/ ProcessRaises
      PROVE  Out
  <2>1. ProcessNext /\ UNCHANGED <<notification_log, sent>>
    BY <1>5 DEF StaysSuppressed, Skipped, AckHonored, AckUnreadable, StepsEnd, ProcessRaises,
                engineVars, storeVars
  <2>2. tick'.pc = "next" /\ tick'.step = 1
    BY <1>a, <2>1 DEF ProcessNext, TickState
  <2> QED BY <2>1, <2>2
<1>6. Tick => tick.pc \notin {"withhold", "dispatch", "record"}
  BY DEF Tick, LoopStep, TickBegin, SweepSelect, SweepClose, SweepDone, TickReadGates,
    TickReadLatest, TickTake, TickEnd, StaysSuppressed, Unsuppress, Skipped, Reassess,
    ReadAck, AckHonored, AckOutgrown, LapseAck, StepsEnd
<1>7. Out
  BY <1>1, <1>2, <1>3, <1>4, <1>5 DEF TickerStep, Tick, LoopStep
<1> QED
  BY <1>6, <1>7

\* People and evaluations leave the log of the row in hand.
LEMMA OthersLeaveTheLog ==
  ASSUME IInv, \/ \E c \in Check : EvaluationButInsert(c) /\ UNCHANGED tickerVars
               \/ InsertStep \/ AckStep \/ SwitchStep \/ UNCHANGED vars
  PROVE  /\ UNCHANGED tick
         /\ \/ UNCHANGED <<notification_log, sent>>
            \/ \E a \in Alarm \ {tick.alarm} :
                 /\ notification_log' = [notification_log EXCEPT ![a] = [s \in Step |-> Never]]
                 /\ sent' = [sent EXCEPT ![a] = NothingSent]
<1>1. CASE InsertStep
  BY <1>1 DEF InsertStep, InsertAlarm, Reusable, EvalOpen, open_alarm
<1>2. CASE \E c \in Check : EvaluationButInsert(c) /\ UNCHANGED tickerVars
  BY <1>2 DEF EvaluationButInsert, Result, ResultNotPersisted, EvalIgnore,
      EvalFindToClose, EvalFindNone, EvalClose, EvalHoldDown, EvalHoldDownFails, EvalLatest,
      EvalEmit, EvalRaises, tickerVars, storeVars
<1>3. CASE SwitchStep \/ AckStep \/ UNCHANGED vars
  BY <1>3 DEF SwitchStep, ToggleSilence, ToggleTier, AckStep, UserAck, UserUnack,
      engineVars, tickerVars, storeVars, vars
<1> QED
  BY <1>1, <1>2, <1>3

-----------------------------------------------------------------------------
(* Steps go out in order, and once *)

\* The receivers somebody is always on duty for.
OnDuty == Receiver \ Scheduled

\* The steps before the one in hand were recorded; of the one in hand there is
\* a record as soon as a receiver on duty was served.
StepsRecorded ==
  /\ tick.pc \notin Stepping => tick.step = 1
  /\ tick.pc \in Stepping /\ tick.step # 1 =>
       /\ tick.step - 1 \in Step
       /\ OnDuty # {} => notification_log[tick.alarm][tick.step - 1] # Never
  /\ tick.pc = "dispatch" =>
       OnDuty \subseteq tick.left \/ notification_log[tick.alarm][tick.step] # Never

\* Without repeats and faults, what was sent is recorded, or is about to be; and
\* the receivers still to serve have not had the step.
SentOnce ==
  Repeat = 0 /\ faults = 0 =>
    /\ \A a \in Alarm, s \in Step, r \in Receiver :
         /\ sent[a][s][r] <= 1
         /\ sent[a][s][r] > 0 =>
              \/ notification_log[a][s] # Never
              \/ tick.pc = "record" /\ tick.alarm = a /\ tick.step = s
    /\ tick.pc \in {"dispatch", "record"} =>
         \A r \in tick.left : sent[tick.alarm][tick.step][r] = 0

\* What an entry in the log leaves of it.
LEMMA LogWritten ==
  ASSUME IInv, tick.alarm \in Alarm, tick.step \in Step,
         write_notification(tick.alarm, tick.step)
  PROVE  \A a \in Alarm, s \in Step :
           notification_log'[a][s] = IF a = tick.alarm /\ s = tick.step THEN 0
                                     ELSE notification_log[a][s]
<1>1. notification_log \in [Alarm -> [Step -> AgeOrNever]]
  BY DEF IInv, TypeOK, StoreTypeOK
<1> QED
  BY <1>1 DEF write_notification

\* Where the loop over the steps stands.
LEMMA InTheLoop ==
  ASSUME IInv, LoopStep
  PROVE  /\ tick.pc \in Stepping /\ tick.alarm \in Alarm /\ tick'.alarm = tick.alarm
         /\ tick.step \in Step /\ tick.step \in Nat /\ tick'.pc \in Stepping
<1>a. tick \in TickState /\ TickHoldsRows
  BY DEF IInv, TypeOK, TickTypeOK
<1>1. tick.pc \in Stepping /\ tick'.pc \in Stepping /\ tick'.alarm = tick.alarm
  <2>1. CASE StepSkip \/ Withhold \/ StepServed
    BY <1>a, <2>1 DEF StepSkip, Withhold, StepServed, NextStep, TickState, Stepping
  <2>2. CASE StepFire
    BY <1>a, <2>2 DEF StepFire, TickState, Stepping
  <2>3. CASE Record
    BY <1>a, <2>3 DEF Record, GoTo, TickState, Stepping
  <2>4. CASE \E r \in Receiver : ReceiverSkipped(r) \/ Send(r) \/ SendFails(r)
    BY <1>a, <2>4 DEF ReceiverSkipped, Send, SendFails, TickState, Stepping
  <2> QED BY <2>1, <2>2, <2>3, <2>4 DEF LoopStep
<1>2. tick.pc = "step" => tick.step \in Step
  BY DEF LoopStep, StepSkip, StepFire, Withhold, Record, StepServed, ReceiverSkipped,
    Send, SendFails, StepIsDue
<1> QED
  BY <1>a, <1>1, <1>2 DEF TickHoldsRows, Stepping, Processing, TickState

LEMMA LoopRecords ==
  ASSUME IInv, StepsRecorded, LoopStep
  PROVE  StepsRecorded'
<1>a. tick \in TickState
  BY DEF IInv, TypeOK, TickTypeOK
<1>b. /\ tick.pc \in Stepping /\ tick.alarm \in Alarm /\ tick'.alarm = tick.alarm
      /\ tick.step \in Step /\ tick.step \in Nat /\ tick'.pc \in Stepping
  BY InTheLoop
<1>c. ASSUME tick'.step = tick.step,
             UNCHANGED notification_log \/ write_notification(tick.alarm, tick.step),
             tick'.pc = "dispatch" => \/ OnDuty \subseteq tick'.left
                                      \/ notification_log'[tick.alarm][tick.step] # Never
      PROVE  StepsRecorded'
  <2>1. /\ tick.step # 1 => tick.step - 1 \in Step
        /\ tick.step # 1 /\ OnDuty # {} => notification_log[tick.alarm][tick.step - 1] # Never
    BY <1>b DEF StepsRecorded
  <2>2. tick.step # 1 /\ OnDuty # {} => notification_log'[tick.alarm][tick.step - 1] # Never
    BY <1>b, <1>c, <2>1, LogWritten
  <2> QED BY <1>b, <1>c, <2>1, <2>2 DEF StepsRecorded
<1>d. ASSUME tick'.step = tick.step + 1, tick'.pc = "step",
             OnDuty # {} => notification_log'[tick.alarm][tick.step] # Never
      PROVE  StepsRecorded'
  <2>1. tick'.step # 1 => tick'.step - 1 = tick.step
    BY <1>b, <1>d
  <2> QED BY <1>b, <1>d, <2>1 DEF StepsRecorded
<1>1. CASE StepSkip
  <2>1. /\ tick'.step = tick.step + 1 /\ tick'.pc = "step"
        /\ notification_log'[tick.alarm][tick.step] # Never
    BY <1>a, <1>1 DEF StepSkip, NextStep, StepIsDone, TickState, engineVars, storeVars
  <2> QED BY <1>d, <2>1
<1>2. CASE StepFire
  <2>1. /\ tick'.step = tick.step /\ UNCHANGED notification_log
        /\ tick'.pc = "dispatch" => tick'.left = Receiver
    BY <1>a, <1>2 DEF StepFire, TickState, engineVars, storeVars
  <2> QED BY <1>c, <2>1 DEF OnDuty
<1>3. CASE Withhold
  <2>1. tick'.step = tick.step + 1 /\ tick'.pc = "step"
    BY <1>a, <1>3 DEF Withhold, NextStep, TickState
  <2>2. notification_log'[tick.alarm][tick.step] = 0
    BY <1>b, <1>3, LogWritten DEF Withhold
  <2> QED BY <1>d, <2>1, <2>2 DEF Never
<1>4. ASSUME NEW r \in Receiver, ReceiverSkipped(r) PROVE StepsRecorded'
  <2>1. /\ tick.pc = "dispatch" /\ tick'.step = tick.step /\ UNCHANGED notification_log
        /\ tick'.left = tick.left \ {r} /\ r \in Scheduled
    BY <1>a, <1>4 DEF ReceiverSkipped, TickState, engineVars, storeVars
  <2>2. \/ OnDuty \subseteq tick'.left
        \/ notification_log'[tick.alarm][tick.step] # Never
    BY <2>1 DEF StepsRecorded, OnDuty
  <2> QED BY <1>c, <2>1, <2>2
<1>5. ASSUME NEW r \in Receiver, Send(r) \/ SendFails(r) PROVE StepsRecorded'
  <2>1. tick'.step = tick.step /\ UNCHANGED notification_log /\ tick'.pc = "record"
    BY <1>a, <1>5 DEF Send, SendFails, TickState, engineVars, storeVars
  <2> QED BY <1>c, <2>1
<1>6. CASE Record
  <2>1. tick'.step = tick.step
    BY <1>a, <1>6 DEF Record, GoTo, TickState
  <2>2. write_notification(tick.alarm, tick.step)
    BY <1>6 DEF Record
  <2>3. notification_log'[tick.alarm][tick.step] = 0
    BY <1>b, <2>2, LogWritten
  <2> QED BY <1>c, <2>1, <2>2, <2>3 DEF Never
<1>7. CASE StepServed
  <2>1. /\ tick'.step = tick.step + 1 /\ tick'.pc = "step" /\ UNCHANGED notification_log
        /\ tick.pc = "dispatch" /\ tick.left = {}
    BY <1>a, <1>7 DEF StepServed, NextStep, TickState, engineVars, storeVars
  <2>2. OnDuty # {} => notification_log'[tick.alarm][tick.step] # Never
    BY <2>1 DEF StepsRecorded
  <2> QED BY <1>d, <2>1, <2>2
<1> QED
  BY <1>1, <1>2, <1>3, <1>4, <1>5, <1>6, <1>7 DEF LoopStep

LEMMA LoopSendsOnce ==
  ASSUME IInv, SentOnce, LoopStep, Repeat = 0, faults = 0
  PROVE  SentOnce'
<1>a. /\ tick \in TickState
      /\ sent \in [Alarm -> [Step -> [Receiver -> 0 .. 2]]]
  BY DEF IInv, TypeOK, TickTypeOK
<1>b. /\ tick.pc \in Stepping /\ tick.alarm \in Alarm /\ tick'.alarm = tick.alarm
      /\ tick.step \in Step /\ tick.step \in Nat /\ tick'.pc \in Stepping
  BY InTheLoop
<1>c. /\ \A a \in Alarm, s \in Step, r \in Receiver :
           /\ sent[a][s][r] <= 1
           /\ sent[a][s][r] > 0 =>
                \/ notification_log[a][s] # Never
                \/ tick.pc = "record" /\ tick.alarm = a /\ tick.step = s
      /\ tick.pc \in {"dispatch", "record"} =>
           \A r \in tick.left : sent[tick.alarm][tick.step][r] = 0
  BY DEF SentOnce
<1>d. ASSUME UNCHANGED <<sent, notification_log>>, tick.pc # "record",
             tick'.pc \in {"dispatch", "record"} =>
               \A r \in tick'.left : sent[tick.alarm][tick'.step][r] = 0
      PROVE  SentOnce'
  BY <1>b, <1>c, <1>d DEF SentOnce
<1>1. CASE StepSkip \/ StepServed
  <2>1. UNCHANGED <<sent, notification_log>> /\ tick.pc # "record" /\ tick'.pc = "step"
    BY <1>a, <1>1 DEF StepSkip, StepServed, NextStep, TickState, engineVars, storeVars
  <2> QED BY <1>d, <2>1
<1>2. CASE StepFire
  <2>1. /\ UNCHANGED <<sent, notification_log>> /\ tick.pc = "step"
        /\ tick'.step = tick.step /\ tick'.pc # "record"
        /\ tick'.pc = "dispatch" => tick'.left = Receiver
    BY <1>a, <1>2 DEF StepFire, TickState, engineVars, storeVars
  <2>2. notification_log[tick.alarm][tick.step] = Never
    BY <1>2 DEF StepFire, StepIsDone
  <2>3. \A r \in Receiver : sent[tick.alarm][tick.step][r] = 0
    BY <1>a, <1>b, <1>c, <2>1, <2>2
  <2> QED BY <1>d, <2>1, <2>3
<1>3. ASSUME write_notification(tick.alarm, tick.step), UNCHANGED sent, tick'.pc # "record",
             tick'.pc = "dispatch" => /\ tick.pc = "record" /\ tick'.step = tick.step
                                      /\ tick'.left = tick.left
      PROVE  SentOnce'
  <2>1. \A a \in Alarm, s \in Step :
          /\ notification_log[a][s] # Never => notification_log'[a][s] # Never
          /\ tick.alarm = a /\ tick.step = s => notification_log'[a][s] # Never
    BY <1>3, <1>b, LogWritten DEF Never
  <2> QED BY <1>b, <1>c, <1>3, <2>1 DEF SentOnce
<1>4. CASE Withhold
  BY <1>a, <1>3, <1>4 DEF Withhold, NextStep, TickState
<1>5. CASE Record
  BY <1>a, <1>3, <1>5 DEF Record, GoTo, TickState
<1>6. ASSUME NEW r \in Receiver, ReceiverSkipped(r) \/ SendFails(r) PROVE SentOnce'
  <2>1. /\ UNCHANGED <<sent, notification_log>> /\ tick.pc = "dispatch"
        /\ tick'.step = tick.step /\ tick'.left \subseteq tick.left
    <3>1. CASE ReceiverSkipped(r)
      BY <1>a, <3>1 DEF ReceiverSkipped, TickState, engineVars, storeVars
    <3>2. CASE SendFails(r)
      BY <1>a, <3>2 DEF SendFails, TickState, engineVars, storeVars
    <3> QED BY <1>6, <3>1, <3>2
  <2> QED BY <1>c, <1>d, <2>1
<1>7. ASSUME NEW r \in Receiver, Send(r) PROVE SentOnce'
  <2>1. /\ UNCHANGED notification_log /\ tick.pc = "dispatch" /\ tick'.pc = "record"
        /\ tick'.step = tick.step /\ tick'.left = tick.left \ {r} /\ r \in tick.left
        /\ sent' = [sent EXCEPT ![tick.alarm][tick.step][r] = IF @ = 2 THEN 2 ELSE @ + 1]
    BY <1>a, <1>7 DEF Send, TickState, engineVars, storeVars
  <2>2. sent[tick.alarm][tick.step][r] = 0
    BY <1>c, <2>1
  <2>3. \A a \in Alarm, s \in Step, q \in Receiver :
          sent'[a][s][q] = IF a = tick.alarm /\ s = tick.step /\ q = r THEN 1
                           ELSE sent[a][s][q]
    BY <1>a, <1>b, <2>1, <2>2
  <2>4. \A q \in tick'.left : q \in Receiver /\ q # r /\ q \in tick.left
    BY <1>a, <2>1 DEF TickState
  <2> QED BY <1>b, <1>c, <2>1, <2>3, <2>4 DEF SentOnce
<1> QED
  BY <1>1, <1>2, <1>4, <1>5, <1>6, <1>7 DEF LoopStep

LEMMA StepsStep == IInv /\ StepsRecorded /\ [Next]_vars => StepsRecorded'
<1> SUFFICES ASSUME IInv, StepsRecorded, [Next]_vars PROVE StepsRecorded'
  OBVIOUS
<1>a. notification_log \in [Alarm -> [Step -> AgeOrNever]] /\ TickHoldsRows
  BY DEF IInv, TypeOK, StoreTypeOK
<1>1. ASSUME TickerStep, ~LoopStep PROVE StepsRecorded'
  <2>1. tick'.step = 1 /\ tick'.pc # "dispatch"
    BY <1>1, OutsideTheLoop DEF StepsRecorded
  <2> QED BY <2>1 DEF StepsRecorded
<1>2. ASSUME LoopStep PROVE StepsRecorded'
  BY <1>2, LoopRecords
<1>3. ASSUME \/ EvaluationStep \/ InsertStep \/ AckStep \/ SwitchStep \/ UNCHANGED vars
      PROVE  StepsRecorded'
  <2>1. /\ UNCHANGED tick
        /\ \/ UNCHANGED <<notification_log, sent>>
           \/ \E a \in Alarm \ {tick.alarm} :
                /\ notification_log' = [notification_log EXCEPT ![a] = [s \in Step |-> Never]]
                /\ sent' = [sent EXCEPT ![a] = NothingSent]
    BY <1>3, OthersLeaveTheLog DEF EvaluationStep
  <2>2. tick.alarm \in Alarm => notification_log'[tick.alarm] = notification_log[tick.alarm]
    BY <1>a, <2>1
  <2>3. tick.pc \in Stepping => tick.alarm \in Alarm
    BY <1>a DEF TickHoldsRows, Stepping, Processing
  <2>4. tick.pc \in Stepping => notification_log'[tick.alarm] = notification_log[tick.alarm]
    BY <2>2, <2>3
  <2> QED BY <2>1, <2>4 DEF StepsRecorded, Stepping
<1>4. ASSUME RestartStep \/ Elapse PROVE StepsRecorded'
  <2>1. tick' = IdleTick
    BY <1>4, <1>a DEF RestartStep, Restart, Elapse, TickHoldsRows
  <2>2. tick'.pc = "idle" /\ tick'.step = 1
    BY <2>1 DEF IdleTick
  <2> QED BY <2>2 DEF StepsRecorded, Stepping
<1> QED
  BY <1>1, <1>2, <1>3, <1>4, StepKinds

LEMMA SentOnceStep == IInv /\ SentOnce /\ [Next]_vars => SentOnce'
<1> SUFFICES ASSUME IInv, SentOnce, [Next]_vars, Repeat = 0, faults' = 0 PROVE SentOnce'
  BY DEF SentOnce
<1>a. /\ notification_log \in [Alarm -> [Step -> AgeOrNever]] /\ TickHoldsRows /\ TypeOK
      /\ sent \in [Alarm -> [Step -> [Receiver -> 0 .. 2]]]
  BY DEF IInv, TypeOK, StoreTypeOK, TickTypeOK
<1>b. /\ faults = 0
      /\ \/ \E c \in Check : EvaluationButInsert(c) /\ UNCHANGED tickerVars
         \/ Tick /\ TickerStep
         \/ InsertStep \/ AckStep \/ SwitchStep \/ Elapse \/ UNCHANGED vars
  BY <1>a, CleanKinds DEF CleanEvaluation, EvaluationButInsert, TickerStep
<1>c. /\ \A a \in Alarm, s \in Step, r \in Receiver :
           /\ sent[a][s][r] <= 1
           /\ sent[a][s][r] > 0 =>
                \/ notification_log[a][s] # Never
                \/ tick.pc = "record" /\ tick.alarm = a /\ tick.step = s
      /\ tick.pc \in {"dispatch", "record"} =>
           \A r \in tick.left : sent[tick.alarm][tick.step][r] = 0
  BY <1>b DEF SentOnce
<1>1. ASSUME Tick, TickerStep, ~LoopStep PROVE SentOnce'
  <2>1. /\ UNCHANGED <<notification_log, sent>>
        /\ tick.pc # "record" /\ tick'.pc \notin {"dispatch", "record"}
    BY <1>1, OutsideTheLoop
  <2> QED BY <1>c, <2>1 DEF SentOnce
<1>2. ASSUME LoopStep PROVE SentOnce'
  BY <1>2, <1>b, LoopSendsOnce
<1>3. ASSUME \/ \E c \in Check : EvaluationButInsert(c) /\ UNCHANGED tickerVars
             \/ InsertStep \/ AckStep \/ SwitchStep \/ UNCHANGED vars
      PROVE  SentOnce'
  <2>1. /\ UNCHANGED tick
        /\ \/ UNCHANGED <<notification_log, sent>>
           \/ \E a \in Alarm \ {tick.alarm} :
                /\ notification_log' = [notification_log EXCEPT ![a] = [s \in Step |-> Never]]
                /\ sent' = [sent EXCEPT ![a] = NothingSent]
    BY <1>3, OthersLeaveTheLog
  <2>2. CASE UNCHANGED <<notification_log, sent>>
    BY <1>c, <2>1, <2>2 DEF SentOnce
  <2>3. ASSUME NEW a \in Alarm \ {tick.alarm},
               notification_log' = [notification_log EXCEPT ![a] = [s \in Step |-> Never]],
               sent' = [sent EXCEPT ![a] = NothingSent]
        PROVE  SentOnce'
    <3>1. /\ \A b \in Alarm \ {a} : /\ notification_log'[b] = notification_log[b]
                                    /\ sent'[b] = sent[b]
          /\ \A s \in Step, r \in Receiver : sent'[a][s][r] = 0
      BY <1>a, <2>3 DEF NothingSent
    <3>2. tick.pc \in {"dispatch", "record"} => tick.alarm \in Alarm \ {a}
      BY <1>a, <2>3 DEF TickHoldsRows, Processing
    <3> QED BY <1>c, <2>1, <3>1, <3>2 DEF SentOnce
  <2> QED BY <2>1, <2>2, <2>3
<1>4. ASSUME Elapse PROVE SentOnce'
  <2>1. tick.pc = "idle" /\ tick'.pc = "idle"
    BY <1>4 DEF Elapse
  <2>2. ASSUME NEW a \in Alarm, NEW s \in Step, NEW r \in Receiver
        PROVE  /\ sent'[a][s][r] <= 1
               /\ sent'[a][s][r] > 0 => notification_log'[a][s] # Never
    <3>1. CASE IsOpen(a)
      <4>1. /\ sent'[a] = sent[a]
            /\ notification_log'[a][s] = Older(notification_log[a][s])
        BY <1>4, <3>1 DEF Elapse, StoreElapse
      <4>2. notification_log[a][s] # Never => notification_log'[a][s] # Never
        BY <1>a, <4>1, StoreAssumption DEF Older, Never, AgeOrNever, Age
      <4> QED BY <1>c, <2>1, <4>1, <4>2
    <3>2. CASE ~IsOpen(a)
      <4>1. sent'[a][s][r] = 0
        BY <1>4, <3>2 DEF Elapse, NothingSent
      <4> QED BY <4>1
    <3> QED BY <3>1, <3>2
  <2> QED BY <2>1, <2>2 DEF SentOnce
<1> QED
  BY <1>1, <1>2, <1>3, <1>4, <1>b

LEMMA DeliveryInit == Init => StepsRecorded /\ SentOnce
BY DEF Init, TickInit, StoreInit, IdleTick, NothingSent, StepsRecorded, SentOnce, Stepping

\* As long as some receiver is always on duty, a step goes out only after the
\* step before it has been recorded for the same alarm, whatever failed, was
\* withheld or was skipped meanwhile.
THEOREM StepsGoInOrder == Spec => []StepsInOrder
<1>1. IInv /\ StepsRecorded => StepsInOrder
  BY DEF StepsRecorded, StepsInOrder, Stepping, OnDuty
<1>2. Init => StepsRecorded
  BY DeliveryInit
<1> QED
  BY Inductive, StepsStep, <1>1, <1>2, PTL DEF Spec

\* Without repeats, and short of a fault between sending and recording, no
\* receiver gets the same step of an alarm twice, however many ticks see it due.
THEOREM NobodyIsPagedTwice == Spec => []NoDuplicatePage
<1>1. SentOnce => NoDuplicatePage
  BY DEF SentOnce, NoDuplicatePage
<1>2. Init => SentOnce
  BY DeliveryInit
<1> QED
  BY Inductive, SentOnceStep, <1>1, <1>2, PTL DEF Spec
=============================================================================

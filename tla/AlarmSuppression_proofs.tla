---------------------- MODULE AlarmSuppression_proofs -----------------------
(***************************************************************************)
(* An alarm that opened as the consequence of an upstream outage stays     *)
(* silent until that outage has been over at least for a moment, whatever  *)
(* snapshots the ticker works from.                                        *)
(***************************************************************************)
EXTENDS AlarmEngine_proofs

-----------------------------------------------------------------------------

\* The upstream checks blamed for c by the verdicts latest.
Causes(c, latest) == compute_suppression(c, latest)

\* The stages of a tick before it has read the latest verdicts.
BeforeSnapshot == {"idle", "sweep", "sweeping", "gates", "latest"}

NoVerdicts == [c \in Check |-> "none"]

\* A tick has no verdicts until it reads them.
SnapshotNotRead == tick.pc \in BeforeSnapshot => tick.latest = NoVerdicts

\* A blamed alarm is marked as suppressed, and check_runs shows a cause for it.
BlamedHasCause ==
  \A a \in blamed :
    /\ alarms[a].suppressed_by # NoCheck
    /\ Causes(alarms[a].check, latest_per_check_map) # {}

\* The snapshot of a tick shows a cause for every row it has to process that is
\* blamed: the row was, too, when the snapshot was read.
SnapshotHasCause ==
  tick.pc \notin BeforeSnapshot =>
    \A a \in blamed : a \in tick.todo \cup {tick.alarm} =>
      EmptySnapshot \/ Causes(alarms[a].check, tick.latest) # {}

\* Past the suppression of its row, the row is blamed no longer.
CausePassed == tick.pc \in Processing \ {"cause"} => tick.alarm \notin blamed

Attribution == SnapshotNotRead /\ BlamedHasCause /\ SnapshotHasCause /\ CausePassed

\* The conjuncts, as long as the tick stands still and no blamed row is touched.
LEMMA SameAttribution ==
  ASSUME Attribution, tick' = tick, blamed' \subseteq blamed,
         \A a \in blamed' : /\ alarms'[a].check = alarms[a].check
                            /\ alarms'[a].suppressed_by = alarms[a].suppressed_by
                            /\ Causes(alarms'[a].check, latest_per_check_map') # {}
  PROVE  Attribution'
<1>1. SnapshotNotRead' /\ CausePassed'
  BY DEF Attribution, SnapshotNotRead, CausePassed
<1>2. BlamedHasCause'
  BY DEF Attribution, BlamedHasCause
<1>3. SnapshotHasCause'
  BY DEF Attribution, SnapshotHasCause, EmptySnapshot
<1> QED BY <1>1, <1>2, <1>3 DEF Attribution

\* The steps of an evaluation.  A run is recorded together with Blame, which
\* drops the rows whose causes it has cured; no row is newly blamed.
LEMMA EvaluationAttribution ==
  ASSUME IInv, Attribution, EvaluationStep
  PROVE  Attribution'
<1>a. /\ alarms \in [Alarm -> Row] /\ TypeOK /\ EvalKnows /\ blamed \subseteq Alarm
  BY DEF IInv, TypeOK, StoreTypeOK
<1>1. PICK c \in Check : /\ EvaluationButInsert(c) /\ UNCHANGED tickerVars
                         /\ Blame \/ UNCHANGED <<check_runs, alarms, blamed>>
  BY DEF EvaluationStep
<1>2. RowsKept
  BY <1>a, <1>1, EvaluationKeepsRows
<1>3. tick' = tick
  BY <1>1 DEF tickerVars
<1>4. \A a \in Alarm : alarms'[a].suppressed_by = alarms[a].suppressed_by
  <2>1. UNCHANGED alarms \/ close_alarm(eval[c].alarm)
    BY <1>1 DEF EvaluationButInsert, Result, ResultNotPersisted, EvalIgnore,
      EvalFindToClose, EvalFindNone, EvalClose, EvalHoldDown, EvalHoldDownFails, EvalLatest,
      EvalEmit, EvalRaises, storeVars
  <2> QED BY <1>a, <2>1 DEF close_alarm, Row
<1>5. CASE Blame
  <2>1. blamed' \subseteq blamed
    BY <1>2, <1>5 DEF Blame, RowsKept, IsOpen
  <2>2. \A a \in blamed' : Causes(alarms'[a].check, latest_per_check_map') # {}
    BY <1>5 DEF Blame, Causes, latest_per_check_map
  <2>3. \A a \in blamed' : alarms'[a].check = alarms[a].check
    BY <1>2, <1>a, <2>1 DEF RowsKept
  <2> QED BY <1>3, <1>4, <1>a, <2>1, <2>2, <2>3, SameAttribution
<1>6. CASE UNCHANGED <<check_runs, alarms, blamed>>
  <2>1. \A a \in blamed' : Causes(alarms'[a].check, latest_per_check_map') # {}
    BY <1>6 DEF Attribution, BlamedHasCause, latest_per_check_map
  <2> QED BY <1>3, <1>6, <2>1, SameAttribution
<1> QED
  BY <1>1, <1>5, <1>6

\* The insertion: only the new row may be newly blamed, and no tick holds it.
LEMMA InsertAttribution ==
  ASSUME IInv, Attribution, InsertStep
  PROVE  Attribution'
<1>a. alarms \in [Alarm -> Row] /\ blamed \subseteq Alarm
  BY DEF IInv, TypeOK, StoreTypeOK
<1>1. PICK c \in Check, a \in Alarm : InsertAlarm(c, a)
  BY DEF InsertStep
<1>2. /\ tick' = tick /\ a \notin tick.todo \cup {tick.alarm}
      /\ \A b \in Alarm \ {a} : alarms'[b] = alarms[b]
      /\ ~IsOpen(a) /\ check_runs' = check_runs
  BY <1>a, <1>1 DEF InsertAlarm, Reusable, EvalOpen, open_alarm, IsOpen
<1>3. blamed' \subseteq blamed \cup {a}
  BY <1>1, <1>2 DEF InsertAlarm, Blame, IsOpen
<1>4. SnapshotNotRead' /\ CausePassed'
  BY <1>2, <1>3 DEF Attribution, SnapshotNotRead, CausePassed
<1>5. BlamedHasCause'
  <2>1. ASSUME NEW b \in blamed' PROVE alarms'[b].suppressed_by # NoCheck
    <3>1. CASE b = a
      BY <1>1, <1>2, <2>1, <3>1 DEF InsertAlarm, Blame
    <3>2. CASE b # a
      BY <1>a, <1>2, <1>3, <2>1, <3>2 DEF Attribution, BlamedHasCause
    <3> QED BY <3>1, <3>2
  <2>2. \A b \in blamed' : Causes(alarms'[b].check, latest_per_check_map') # {}
    BY <1>1 DEF InsertAlarm, Blame, Causes, latest_per_check_map
  <2> QED BY <2>1, <2>2 DEF BlamedHasCause
<1>6. SnapshotHasCause'
  <2>1. ASSUME tick.pc \notin BeforeSnapshot,
               NEW b \in blamed', b \in tick.todo \cup {tick.alarm}
        PROVE  EmptySnapshot \/ Causes(alarms'[b].check, tick.latest) # {}
    <3>1. b \in blamed /\ alarms'[b] = alarms[b]
      BY <1>a, <1>2, <1>3, <2>1
    <3> QED BY <2>1, <3>1 DEF Attribution, SnapshotHasCause
  <2>2. EmptySnapshot' <=> EmptySnapshot
    BY <1>2 DEF EmptySnapshot
  <2> QED BY <1>2, <2>1, <2>2 DEF SnapshotHasCause
<1> QED
  BY <1>4, <1>5, <1>6 DEF Attribution

\* What a step of the ticker keeps, whichever it is.
LEMMA TickerFrame ==
  ASSUME IInv, TickerStep
  PROVE  /\ UNCHANGED <<check_runs, blamed>> /\ RowsKept
         /\ \/ \A a \in Alarm : alarms'[a].suppressed_by = alarms[a].suppressed_by
            \/ StaysSuppressed \/ Unsuppress
<1>a. TypeOK /\ TickHoldsRows /\ alarms \in [Alarm -> Row]
  BY DEF IInv, TypeOK, StoreTypeOK
<1>1. RowsKept
  BY <1>a, TickerKeepsRows
<1>2. UNCHANGED check_runs
  BY DEF TickerStep, Tick, TickBegin, SweepSelect, SweepClose, SweepDone, SweepRaises,
    SweepStamp, TickReadGates, TickReadLatest, TickReadLatestFails, TickTake, TickEnd,
    StaysSuppressed, Unsuppress, Skipped, Reassess, ReadAck, AckHonored, AckOutgrown,
    AckUnreadable, LapseAck, StepsEnd, StepSkip, StepFire, Withhold, ReceiverSkipped,
    Send, SendFails, Record, StepServed, ProcessRaises, engineVars, storeVars
<1>3. UNCHANGED blamed
  BY DEF TickerStep, Tick
<1>4. \/ UNCHANGED alarms
      \/ \E a \in Alarm : close_alarm(a)
      \/ \E s : update_alarm_severity(tick.alarm, s)
      \/ StaysSuppressed \/ Unsuppress
  BY DEF TickerStep, Tick, TickBegin, SweepSelect, SweepClose, SweepDone, SweepRaises,
    SweepStamp, TickReadGates, TickReadLatest, TickReadLatestFails, TickTake, TickEnd,
    Skipped, Reassess, ReadAck, AckHonored, AckOutgrown,
    AckUnreadable, LapseAck, StepsEnd, StepSkip, StepFire, Withhold, ReceiverSkipped,
    Send, SendFails, Record, StepServed, ProcessRaises, engineVars, storeVars
<1>5. ASSUME NEW a \in Alarm, close_alarm(a)
      PROVE  \A b \in Alarm : alarms'[b].suppressed_by = alarms[b].suppressed_by
  BY <1>a, <1>5 DEF close_alarm, Row
<1>6. ASSUME NEW s, update_alarm_severity(tick.alarm, s)
      PROVE  \A b \in Alarm : alarms'[b].suppressed_by = alarms[b].suppressed_by
  BY <1>a, <1>6 DEF update_alarm_severity, Row
<1> QED
  BY <1>1, <1>2, <1>3, <1>4, <1>5, <1>6

\* The three ways in which a step of the ticker moves between the stages of a
\* tick: before the snapshot, at its reading, and after.
LEMMA TickerAttribution ==
  ASSUME IInv, Attribution, TickerStep
  PROVE  Attribution'
<1>a. /\ tick \in TickState /\ alarms \in [Alarm -> Row] /\ blamed \subseteq Alarm
      /\ NoAlarm \notin Alarm /\ TickHoldsRows
      /\ SnapshotNotRead /\ BlamedHasCause /\ SnapshotHasCause /\ CausePassed
  BY StoreAssumption DEF IInv, TypeOK, StoreTypeOK, TickTypeOK, Attribution
<1>b. UNCHANGED <<check_runs, blamed>> /\ \A a \in Alarm : alarms'[a].check = alarms[a].check
  BY TickerFrame DEF RowsKept
<1>c. Unsuppress => tick.alarm \notin blamed
  BY <1>a DEF Unsuppress, SnapshotHasCause, BeforeSnapshot, StillSuppressedBy, Causes, Current
<1>1. BlamedHasCause'
  <2>1. ASSUME NEW a \in blamed PROVE alarms'[a].suppressed_by # NoCheck
    <3>1. CASE StaysSuppressed
      <4>1. \/ UNCHANGED alarms
            \/ \E d \in Check : alarms' = [alarms EXCEPT ![tick.alarm].suppressed_by = d]
        BY <3>1, SuppressionInCheck DEF StaysSuppressed, StillSuppressedBy,
           update_alarm_suppression
      <4>2. ASSUME NEW d \in Check,
                   alarms' = [alarms EXCEPT ![tick.alarm].suppressed_by = d]
            PROVE  alarms'[a].suppressed_by \in {d, alarms[a].suppressed_by}
        BY <1>a, <4>2 DEF Row
      <4> QED BY <1>a, <2>1, <4>1, <4>2, StoreAssumption DEF BlamedHasCause
    <3>2. CASE Unsuppress
      <4>1. alarms'[a] = alarms[a]
        BY <1>a, <1>c, <3>2 DEF Unsuppress, update_alarm_suppression
      <4> QED BY <1>a, <4>1 DEF BlamedHasCause
    <3>3. CASE \A b \in Alarm : alarms'[b].suppressed_by = alarms[b].suppressed_by
      BY <1>a, <3>3 DEF BlamedHasCause
    <3> QED BY <3>1, <3>2, <3>3, TickerFrame
  <2>2. latest_per_check_map' = latest_per_check_map
    BY <1>b DEF latest_per_check_map
  <2>3. \A a \in blamed : Causes(alarms'[a].check, latest_per_check_map') # {}
    BY <1>a, <1>b, <2>2 DEF BlamedHasCause
  <2> QED BY <1>b, <2>1, <2>3 DEF BlamedHasCause
<1> DEFINE Moved == /\ tick.pc \notin BeforeSnapshot /\ tick'.pc \notin BeforeSnapshot
                    /\ tick'.latest = tick.latest /\ tick'.todo \subseteq tick.todo
                    /\ tick'.alarm \in tick.todo \cup {tick.alarm, NoAlarm}
<1>2. ASSUME tick'.pc \in BeforeSnapshot, tick'.latest = NoVerdicts PROVE Attribution'
  BY <1>1, <1>2 DEF Attribution, SnapshotNotRead, SnapshotHasCause, CausePassed,
                    BeforeSnapshot, Processing
<1>3. ASSUME Moved, CausePassed' PROVE Attribution'
  <2>1. SnapshotNotRead'
    BY <1>3 DEF SnapshotNotRead
  <2>2. SnapshotHasCause'
    <3>1. EmptySnapshot' <=> EmptySnapshot
      BY <1>3 DEF EmptySnapshot
    <3>2. ASSUME NEW a \in blamed, a \in tick'.todo \cup {tick'.alarm}
          PROVE  EmptySnapshot \/ Causes(alarms'[a].check, tick'.latest) # {}
      BY <1>a, <1>b, <1>3, <3>2 DEF SnapshotHasCause
    <3> QED BY <1>b, <3>1, <3>2 DEF SnapshotHasCause
  <2> QED BY <1>1, <1>3, <2>1, <2>2 DEF Attribution
<1>4. CASE TickBegin \/ TickEnd
  <2>1. tick'.pc \in BeforeSnapshot /\ tick'.latest = NoVerdicts
    <3>1. CASE TickBegin
      <4>1. tick'.pc \in {"sweep", "gates"}
        BY <3>1 DEF TickBegin, IdleTick
      <4>2. tick'.latest = NoVerdicts
        BY <3>1 DEF TickBegin, IdleTick, NoVerdicts
      <4> QED BY <4>1, <4>2 DEF BeforeSnapshot
    <3>2. CASE TickEnd
      BY <3>2 DEF TickEnd, IdleTick, BeforeSnapshot, NoVerdicts
    <3> QED BY <1>4, <3>1, <3>2
  <2> QED BY <1>2, <2>1
<1>5. CASE SweepSelect \/ (\E a \in Alarm : SweepClose(a))
  <2>1. /\ tick.pc \in BeforeSnapshot /\ tick'.latest = tick.latest
        /\ tick'.pc \in BeforeSnapshot
    <3>1. CASE SweepSelect
      BY <1>a, <3>1 DEF SweepSelect, TickState, BeforeSnapshot
    <3>2. CASE \E a \in Alarm : SweepClose(a)
      BY <1>a, <3>2 DEF SweepClose, TickState, BeforeSnapshot
    <3> QED BY <1>5, <3>1, <3>2
  <2> QED BY <1>a, <1>2, <2>1 DEF SnapshotNotRead
<1>6. CASE SweepDone \/ SweepRaises
  <2>1. tick.pc \in BeforeSnapshot /\ tick'.pc = "gates" /\ tick'.latest = tick.latest
    BY <1>a, <1>6 DEF SweepDone, SweepRaises, SweepStamp, GoTo, TickState, BeforeSnapshot
  <2> QED BY <1>a, <1>2, <2>1 DEF SnapshotNotRead, BeforeSnapshot
<1>7. CASE TickReadGates
  <2>1. CASE tick' = IdleTick
    BY <1>2, <2>1 DEF IdleTick, BeforeSnapshot, NoVerdicts
  <2>2. CASE tick' # IdleTick
    <3>1. tick.pc \in BeforeSnapshot /\ tick'.pc = "latest" /\ tick'.latest = tick.latest
      BY <1>a, <1>7, <2>2 DEF TickReadGates, TickState, BeforeSnapshot
    <3> QED BY <1>a, <1>2, <3>1 DEF SnapshotNotRead, BeforeSnapshot
  <2> QED BY <2>1, <2>2
<1>8. CASE TickReadLatest \/ TickReadLatestFails
  <2>1. /\ tick'.pc = "next" /\ tick'.todo = tick.todo /\ tick'.alarm = tick.alarm
        /\ tick.pc \in BeforeSnapshot
        /\ tick'.latest \in {latest_per_check_map, tick.latest}
    BY <1>a, <1>8 DEF TickReadLatest, TickReadLatestFails, GoTo, TickState, BeforeSnapshot
  <2>2. CASE tick'.latest = latest_per_check_map
    <3>1. \A a \in blamed : Causes(alarms'[a].check, tick'.latest) # {}
      BY <1>a, <1>b, <2>2 DEF BlamedHasCause
    <3> QED BY <1>1, <1>b, <2>1, <3>1 DEF Attribution, SnapshotNotRead, SnapshotHasCause,
              CausePassed, BeforeSnapshot, Processing
  <2>3. CASE tick'.latest = tick.latest
    <3>1. EmptySnapshot'
      BY <1>a, <2>1, <2>3 DEF SnapshotNotRead, EmptySnapshot, NoVerdicts
    <3> QED BY <1>1, <2>1, <3>1 DEF Attribution, SnapshotNotRead, SnapshotHasCause,
              CausePassed, BeforeSnapshot, Processing
  <2> QED BY <2>1, <2>2, <2>3
<1>9. ASSUME NEW a \in Alarm, TickTake(a) PROVE Attribution'
  <2>1. /\ tick.pc = "next" /\ tick'.latest = tick.latest /\ tick'.todo = tick.todo \ {a}
        /\ tick'.alarm = a /\ a \in tick.todo
        /\ tick'.pc = IF alarms[a].suppressed_by = NoCheck THEN "severity" ELSE "cause"
    BY <1>a, <1>9 DEF TickTake, TickState
  <2>2. CausePassed'
    BY <1>a, <1>b, <2>1 DEF CausePassed, BlamedHasCause
  <2> QED BY <1>3, <2>1, <2>2 DEF BeforeSnapshot
<1>10. CASE \/ StaysSuppressed \/ Skipped \/ AckHonored \/ AckUnreadable \/ StepsEnd
            \/ ProcessRaises
  <2>1. ProcessNext /\ tick.pc \notin BeforeSnapshot
    BY <1>10 DEF StaysSuppressed, Skipped, AckHonored, AckUnreadable, StepsEnd, ProcessRaises,
                 Processing, BeforeSnapshot
  <2>2. /\ tick'.pc = "next" /\ tick'.todo = tick.todo /\ tick'.alarm = NoAlarm
        /\ tick'.latest = tick.latest
    BY <1>a, <2>1 DEF ProcessNext, TickState
  <2> QED BY <1>3, <2>1, <2>2 DEF BeforeSnapshot, CausePassed, Processing
<1>11. CASE Unsuppress
  <2>1. /\ tick.pc = "cause" /\ tick'.pc = "severity" /\ tick'.todo = tick.todo
        /\ tick'.alarm = tick.alarm /\ tick'.latest = tick.latest
    BY <1>a, <1>11 DEF Unsuppress, GoTo, TickState
  <2> QED BY <1>b, <1>c, <1>3, <1>11, <2>1 DEF BeforeSnapshot, CausePassed, Processing
<1>12. CASE \/ Reassess \/ ReadAck \/ AckOutgrown \/ LapseAck \/ StepSkip \/ StepFire
            \/ Withhold \/ Record \/ StepServed
            \/ \E r \in Receiver : ReceiverSkipped(r) \/ Send(r) \/ SendFails(r)
  <2>1. tick.pc \in Processing \ {"cause"} /\ tick'.pc \in Processing
    BY <1>a, <1>12 DEF Reassess, ReadAck, AckOutgrown, LapseAck, StepSkip, StepFire,
      Withhold, Record, StepServed, ReceiverSkipped, Send, SendFails, GoTo, NextStep,
      TickState, Processing
  <2>2. /\ tick'.todo = tick.todo /\ tick'.alarm = tick.alarm /\ tick'.latest = tick.latest
    BY <1>a, <1>12 DEF Reassess, ReadAck, AckOutgrown, LapseAck, StepSkip, StepFire,
      Withhold, Record, StepServed, ReceiverSkipped, Send, SendFails, GoTo, NextStep,
      TickState
  <2>3. CausePassed'
    BY <1>a, <1>b, <2>1, <2>2 DEF CausePassed
  <2> QED BY <1>3, <2>1, <2>2, <2>3 DEF BeforeSnapshot, Processing
<1> QED
  BY <1>4, <1>5, <1>6, <1>7, <1>8, <1>9, <1>10, <1>11, <1>12 DEF TickerStep, Tick

LEMMA OthersAttribution ==
  ASSUME IInv, Attribution, AckStep \/ SwitchStep \/ RestartStep \/ Elapse \/ UNCHANGED vars
  PROVE  Attribution'
<1>a. alarms \in [Alarm -> Row] /\ blamed \subseteq Alarm
  BY DEF IInv, TypeOK, StoreTypeOK
<1>1. CASE AckStep \/ SwitchStep \/ UNCHANGED vars
  <2>1. UNCHANGED <<check_runs, alarms, tick, blamed>>
    BY <1>1 DEF AckStep, UserAck, UserUnack, SwitchStep, ToggleSilence, ToggleTier,
                engineVars, tickerVars, storeVars, vars
  <2> QED BY <2>1 DEF Attribution, SnapshotNotRead, BlamedHasCause, SnapshotHasCause,
                      CausePassed, EmptySnapshot, latest_per_check_map
<1>2. CASE RestartStep
  <2>1. UNCHANGED <<check_runs, alarms, blamed>> /\ tick' = IdleTick
    BY <1>2 DEF RestartStep, Restart, storeVars
  <2>2. BlamedHasCause'
    BY <2>1 DEF Attribution, BlamedHasCause, latest_per_check_map
  <2> QED BY <2>1, <2>2 DEF Attribution, SnapshotNotRead, SnapshotHasCause,
            CausePassed, IdleTick, NoVerdicts, BeforeSnapshot, Processing
<1>3. CASE Elapse
  <2>1. tick' = tick /\ blamed' \subseteq blamed /\ \A a \in blamed' : IsOpen(a)
    BY <1>3 DEF Elapse
  <2>2. latest_per_check_map' = latest_per_check_map
    <3>1. \A c \in Check : check_runs'[c].latest = check_runs[c].latest
      BY <1>3 DEF Elapse, StoreElapse, IInv, TypeOK, StoreTypeOK
    <3> QED BY <3>1 DEF latest_per_check_map
  <2>3. ASSUME NEW a \in blamed'
        PROVE  /\ alarms'[a].check = alarms[a].check
               /\ alarms'[a].suppressed_by = alarms[a].suppressed_by
    <3>1. a \in Alarm /\ alarms'[a] = [alarms[a] EXCEPT !.age = Older(@)]
      BY <1>3, <1>a, <2>1 DEF Elapse, StoreElapse
    <3> QED BY <1>a, <3>1 DEF Row
  <2>4. \A a \in blamed' : Causes(alarms'[a].check, latest_per_check_map') # {}
    BY <2>1, <2>2, <2>3 DEF Attribution, BlamedHasCause
  <2> QED BY <2>1, <2>3, <2>4, SameAttribution
<1> QED
  BY <1>1, <1>2, <1>3

\* An alarm that opened as the consequence of an upstream outage pages nobody
\* before check_runs has shown every upstream check healthy at the same time.
THEOREM BlamedStaysSilent == Spec => []SilentWhileBlamed
<1>1. Init => Attribution
  BY DEF Init, TickInit, IdleTick, Attribution, SnapshotNotRead, BlamedHasCause,
         SnapshotHasCause, CausePassed, BeforeSnapshot, NoVerdicts, Processing
<1>2. IInv /\ Attribution /\ [Next]_vars => Attribution'
  BY StepKinds, EvaluationAttribution, InsertAttribution, TickerAttribution,
     OthersAttribution
<1>3. Attribution => SilentWhileBlamed
  BY DEF Attribution, CausePassed, SilentWhileBlamed, Processing
<1> QED
  BY Inductive, <1>1, <1>2, <1>3, PTL DEF Spec
=============================================================================

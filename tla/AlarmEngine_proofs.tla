------------------------- MODULE AlarmEngine_proofs -------------------------
(***************************************************************************)
(* Proofs about AlarmEngine, for any set of checks, any dependency graph,  *)
(* any number of alarm rows and any values of the other constants.         *)
(***************************************************************************)
EXTENDS AlarmEngine, TLAPS

-----------------------------------------------------------------------------
(* The inductive invariant *)

\* A row in use is the alarm of some check.
RowsHaveChecks == \A a \in Alarm : alarms[a].state # "unused" => alarms[a].check \in Check

\* Between two ticks nothing is remembered; the rows a tick works on exist.
TickHoldsRows ==
  /\ tick.pc = "idle" => tick = IdleTick
  /\ tick.pc \in Processing => tick.alarm \in Alarm
  /\ tick.pc \in {"withhold", "dispatch", "record"} => tick.step \in Step
  /\ \A a \in Alarm : a \in tick.todo \cup tick.stale \cup {tick.alarm}
       => alarms[a].state # "unused"

\* What an evaluation has found out about its check: from the moment it saw no
\* open alarm until it inserts one, there is none, since nobody else opens
\* alarms of that check.
EvalKnows ==
  \A c \in Check :
    /\ eval[c].pc \in {"close", "emit"} => eval[c].alarm \in Alarm
    /\ eval[c].pc \in {"hold", "latest", "open"} =>
         eval[c].verdict \in {"warn", "fail"} /\ OpenFor(c) = {}

IInv == TypeOK /\ RowsHaveChecks /\ TickHoldsRows /\ EvalKnows /\ OneOpenAlarm

-----------------------------------------------------------------------------
(* Operators *)

\* The walk over depends_on returns checks.
LEMMA SuppressionInCheck ==
  ASSUME NEW c, NEW latest
  PROVE  compute_suppression(c, latest) \subseteq Check
BY DEF compute_suppression, NearestAncestors

\* An age stays an age when it grows.
LEMMA OlderType ==
  /\ \A n \in AgeOrNever : Older(n) \in AgeOrNever
  /\ \A n \in Age : Older(n) \in Age
BY StoreAssumption DEF AgeOrNever, Age, Never, Older

LEMMA SeverityType ==
  /\ \A v : severity_for_status(v) \in Severity
  /\ \A s, t \in Severity : MaxSev(s, t) \in Severity
BY DEF severity_for_status, MaxSev, Severity

\* The severity a tick computes for the row in hand is one, and is no lower
\* than the one the row has.
LEMMA SeverityComputed ==
  ASSUME TypeOK, tick.alarm \in Alarm
  PROVE  /\ compute_severity \in Severity
         /\ SevRank[compute_severity] >= SevRank[Current.severity]
<1>1. Current.severity \in Severity
  BY DEF TypeOK, StoreTypeOK, Row, Current
<1> DEFINE observed == MaxSev(severity_for_status(Current.at_open),
                              severity_for_status(StatusNow))
           promoted == IF Current.age >= PromoteAfter /\ Broken THEN "critical"
                       ELSE observed
           floored == MaxSev(AtLeast, promoted)
<1>2. observed \in Severity
  BY SeverityType
<1>3. promoted \in Severity
  BY <1>2 DEF Severity
<1>4. floored \in Severity
  BY <1>3, SeverityType, TickerAssumption
<1>5. compute_severity = MaxSev(floored, Current.severity)
  BY DEF compute_severity
<1>6. \A s, t \in Severity : SevRank[MaxSev(s, t)] >= SevRank[t]
  BY DEF MaxSev, SevRank, Severity
<1> QED
  BY <1>1, <1>4, <1>5, <1>6, SeverityType

-----------------------------------------------------------------------------
(* Type correctness, action by action *)

LEMMA InitType == Init => TypeOK
BY StoreAssumption, EngineAssumption
   DEF Init, TypeOK, StoreInit, EvalInit, TickInit, StoreTypeOK, EvalTypeOK, TickTypeOK,
       UnusedRow, Row, NoAck, IdleEval, EvalState, IdleTick, TickState, EvalPc, TickPc, Processing, NothingSent, AgeOrNever,
       Age, Never, Severity, Verdict

\* The two operations that write a whole row.
LEMMA WriteCheckRunType ==
  ASSUME StoreTypeOK, NEW c \in Check, NEW v \in Verdict, write_check_run(c, v)
  PROVE  check_runs' \in [Check -> [latest : Verdict \cup {"none"}, streak : AgeOrNever,
                                    clean : AgeOrNever, unclean : AgeOrNever]]
BY StoreAssumption DEF StoreTypeOK, write_check_run, RecordRun, StreakOn, AgeOrNever, Age, Never

LEMMA OpenAlarmType ==
  ASSUME StoreTypeOK, NEW a \in Alarm, NEW c \in Check, NEW v \in {"warn", "fail"},
         NEW sev \in Severity, NEW cause \in Check \cup {NoCheck},
         open_alarm(a, c, v, sev, cause)
  PROVE  /\ alarms' \in [Alarm -> Row]
         /\ alarm_acks' \in [Alarm -> [ever : BOOLEAN, live : BOOLEAN, severity : Severity,
                                       status : Verdict \cup {"none"}]]
         /\ notification_log' \in [Alarm -> [Step -> AgeOrNever]]
BY StoreAssumption
   DEF StoreTypeOK, open_alarm, Row, NoAck, Severity, Age, AgeOrNever, Never

LEMMA WriteNotificationType ==
  ASSUME notification_log \in [Alarm -> [Step -> AgeOrNever]], NEW a, NEW s,
         write_notification(a, s)
  PROVE  notification_log' \in [Alarm -> [Step -> AgeOrNever]]
<1>1. 0 \in AgeOrNever
  BY StoreAssumption DEF AgeOrNever, Age
<1>2. \A log \in [Step -> AgeOrNever] : [log EXCEPT ![s] = 0] \in [Step -> AgeOrNever]
  BY <1>1
<1> QED
  BY <1>2 DEF write_notification

LEMMA CountSendType ==
  ASSUME sent \in [Alarm -> [Step -> [Receiver -> 0 .. 2]]],
         NEW a \in Alarm, NEW s \in Step, NEW r \in Receiver,
         sent' = [sent EXCEPT ![a][s][r] = IF @ = 2 THEN 2 ELSE @ + 1]
  PROVE  sent' \in [Alarm -> [Step -> [Receiver -> 0 .. 2]]]
<1> DEFINE n == IF sent[a][s][r] = 2 THEN 2 ELSE sent[a][s][r] + 1
<1>1. n \in 0 .. 2
  <2>1. sent[a][s][r] \in 0 .. 2
    OBVIOUS
  <2> QED BY <2>1
<1>2. \A v \in 0 .. 2 : [sent EXCEPT ![a][s][r] = v] \in [Alarm -> [Step -> [Receiver -> 0 .. 2]]]
  OBVIOUS
<1>3. sent' = [sent EXCEPT ![a][s][r] = n]
  OBVIOUS
<1> QED BY <1>1, <1>2, <1>3

\* The operations that update one column of a row.
LEMMA UpdateAlarmType ==
  ASSUME alarms \in [Alarm -> Row], NEW a \in Alarm,
         \/ close_alarm(a)
         \/ \E sev \in Severity : update_alarm_severity(a, sev)
         \/ \E cause \in Check \cup {NoCheck} : update_alarm_suppression(a, cause)
  PROVE  alarms' \in [Alarm -> Row]
<1>1. \A r \in Row : [r EXCEPT !.state = "closed"] \in Row
  BY DEF Row
<1>2. \A r \in Row : \A sev \in Severity : [r EXCEPT !.severity = sev] \in Row
  BY DEF Row
<1>3. \A r \in Row : \A cause \in Check \cup {NoCheck} :
        [r EXCEPT !.suppressed_by = cause] \in Row
  BY DEF Row
<1> QED
  BY <1>1, <1>2, <1>3 DEF close_alarm, update_alarm_severity, update_alarm_suppression

\* Any one or two fields of an evaluation may change within their types.
LEMMA EvalStateType ==
  ASSUME NEW e \in EvalState
  PROVE  /\ e.pc \in EvalPc /\ e.verdict \in Verdict
         /\ e.alarm \in Alarm \cup {NoAlarm} /\ e.suppressed_by \in Check \cup {NoCheck}
         /\ \A p \in EvalPc :
              /\ [e EXCEPT !.pc = p] \in EvalState
              /\ [e EXCEPT !.pc = p, !.degraded = TRUE] \in EvalState
              /\ \A a \in Alarm : [e EXCEPT !.pc = p, !.alarm = a] \in EvalState
              /\ \A d \in Check \cup {NoCheck} :
                   [e EXCEPT !.pc = p, !.suppressed_by = d] \in EvalState
<1>1. /\ e.pc \in EvalPc /\ e.verdict \in Verdict
      /\ e.alarm \in Alarm \cup {NoAlarm} /\ e.suppressed_by \in Check \cup {NoCheck}
  BY DEF EvalState
<1>2. ASSUME NEW f \in EvalState, NEW p \in EvalPc PROVE [f EXCEPT !.pc = p] \in EvalState
  BY DEF EvalState
<1>3. ASSUME NEW f \in EvalState PROVE [f EXCEPT !.degraded = TRUE] \in EvalState
  BY DEF EvalState
<1>4. ASSUME NEW f \in EvalState, NEW a \in Alarm PROVE [f EXCEPT !.alarm = a] \in EvalState
  BY DEF EvalState
<1>5. ASSUME NEW f \in EvalState, NEW d \in Check \cup {NoCheck}
      PROVE [f EXCEPT !.suppressed_by = d] \in EvalState
  BY DEF EvalState
<1> QED
  BY <1>1, <1>2, <1>3, <1>4, <1>5

LEMMA IdleEvalType ==
  /\ IdleEval \in EvalState
  /\ \A v \in Verdict :
       /\ [IdleEval EXCEPT !.pc = "find", !.verdict = v] \in EvalState
       /\ [IdleEval EXCEPT !.pc = "find", !.verdict = v, !.degraded = TRUE] \in EvalState
BY DEF IdleEval, EvalState, EvalPc, Verdict

LEMMA TickStateType ==
  ASSUME NEW t \in TickState
  PROVE  /\ t.todo \subseteq Alarm /\ t.stale \subseteq Alarm /\ t.left \subseteq Receiver
         /\ t.latest \in [Check -> Verdict \cup {"none"}] /\ t.step \in Nat
         /\ \A p \in TickPc : [t EXCEPT !.pc = p] \in TickState
         /\ \A S \in SUBSET Alarm : [t EXCEPT !.todo = S] \in TickState
         /\ \A S \in SUBSET Alarm : [t EXCEPT !.stale = S] \in TickState
         /\ \A S \in SUBSET Check : [t EXCEPT !.silenced = S] \in TickState
         /\ \A S \in SUBSET Check : [t EXCEPT !.off = S] \in TickState
         /\ \A f \in [Check -> Verdict \cup {"none"}] : [t EXCEPT !.latest = f] \in TickState
         /\ \A a \in Alarm \cup {NoAlarm} : [t EXCEPT !.alarm = a] \in TickState
         /\ \A n \in Nat : [t EXCEPT !.step = n] \in TickState
         /\ \A S \in SUBSET Receiver : [t EXCEPT !.left = S] \in TickState
<1>1. /\ t.todo \subseteq Alarm /\ t.stale \subseteq Alarm /\ t.left \subseteq Receiver
      /\ t.latest \in [Check -> Verdict \cup {"none"}] /\ t.step \in Nat
  BY DEF TickState
<1>2. \A p \in TickPc : [t EXCEPT !.pc = p] \in TickState
  BY DEF TickState
<1>3. \A S \in SUBSET Alarm : [t EXCEPT !.todo = S] \in TickState
  BY DEF TickState
<1>4. \A S \in SUBSET Alarm : [t EXCEPT !.stale = S] \in TickState
  BY DEF TickState
<1>5. \A S \in SUBSET Check : [t EXCEPT !.silenced = S] \in TickState
  BY DEF TickState
<1>6. \A S \in SUBSET Check : [t EXCEPT !.off = S] \in TickState
  BY DEF TickState
<1>7. \A f \in [Check -> Verdict \cup {"none"}] : [t EXCEPT !.latest = f] \in TickState
  BY DEF TickState
<1>8. \A a \in Alarm \cup {NoAlarm} : [t EXCEPT !.alarm = a] \in TickState
  BY DEF TickState
<1>9. \A n \in Nat : [t EXCEPT !.step = n] \in TickState
  BY DEF TickState
<1>10. \A S \in SUBSET Receiver : [t EXCEPT !.left = S] \in TickState
  BY DEF TickState
<1> QED
  BY <1>1, <1>2, <1>3, <1>4, <1>5, <1>6, <1>7, <1>8, <1>9, <1>10

LEMMA IdleTickType == IdleTick \in TickState
BY DEF IdleTick, TickState, TickPc, Processing, Verdict

\* An evaluation keeps the tables and its own state well typed.
LEMMA EvaluationType ==
  ASSUME StoreTypeOK, EvalTypeOK, EvalKnows, NEW c \in Check,
         \/ \E v \in Outcome : Result(c, v) \/ ResultNotPersisted(c, v)
         \/ EvalIgnore(c) \/ EvalFindToClose(c) \/ EvalFindNone(c) \/ EvalClose(c)
         \/ EvalHoldDown(c) \/ EvalHoldDownFails(c) \/ EvalLatest(c)
         \/ (\E a \in Alarm : EvalOpen(c, a)) \/ EvalEmit(c) \/ EvalRaises(c)
  PROVE  StoreTypeOK' /\ EvalTypeOK'
<1> DEFINE e == eval[c]
<1>a. e \in EvalState /\ eval \in [Check -> EvalState] /\ opened \subseteq Alarm
  BY DEF EvalTypeOK
<1>b. ASSUME NEW r \in EvalState, eval' = [eval EXCEPT ![c] = r], opened' \subseteq Alarm
      PROVE EvalTypeOK'
  BY <1>a, <1>b DEF EvalTypeOK
<1>c. storeVars' = storeVars => StoreTypeOK'
  BY DEF storeVars, StoreTypeOK
<1>d. Outcome \subseteq Verdict
  BY EngineAssumption
<1>1. ASSUME NEW v \in Outcome, Result(c, v) PROVE StoreTypeOK' /\ EvalTypeOK'
  <2>1. StoreTypeOK'
    BY <1>1, <1>d, WriteCheckRunType DEF Result, StoreTypeOK
  <2>2. EvalTypeOK'
    BY <1>1, <1>a, <1>b, <1>d, IdleEvalType DEF Result
  <2> QED BY <2>1, <2>2
<1>2. ASSUME NEW v \in Outcome, ResultNotPersisted(c, v) PROVE StoreTypeOK' /\ EvalTypeOK'
  BY <1>2, <1>a, <1>b, <1>c, <1>d, IdleEvalType DEF ResultNotPersisted
<1>3. CASE EvalIgnore(c)
  BY <1>3, <1>a, <1>b, <1>c, IdleEvalType DEF EvalIgnore
<1>4. CASE EvalFindToClose(c)
  <2>1. PICK a \in Alarm : eval' = [eval EXCEPT ![c] = [e EXCEPT !.pc = "close", !.alarm = a]]
    BY <1>4 DEF EvalFindToClose, OpenFor
  <2>2. [e EXCEPT !.pc = "close", !.alarm = a] \in EvalState
    BY <1>a, EvalStateType DEF EvalPc
  <2> QED BY <1>4, <1>a, <1>b, <1>c, <2>1, <2>2 DEF EvalFindToClose
<1>5. CASE EvalFindNone(c)
  <2>1. [e EXCEPT !.pc = "hold"] \in EvalState
    BY <1>a, EvalStateType DEF EvalPc
  <2> QED BY <1>5, <1>a, <1>b, <1>c, <2>1 DEF EvalFindNone
<1>6. CASE EvalClose(c)
  <2>1. StoreTypeOK'
    BY <1>6, UpdateAlarmType DEF EvalClose, EvalKnows, StoreTypeOK
  <2> QED BY <1>6, <1>a, <1>b, <2>1, IdleEvalType DEF EvalClose
<1>7. CASE EvalHoldDown(c)
  <2>1. [e EXCEPT !.pc = "latest"] \in EvalState
    BY <1>a, EvalStateType DEF EvalPc
  <2> QED BY <1>7, <1>a, <1>b, <1>c, <2>1, IdleEvalType DEF EvalHoldDown
<1>8. CASE EvalHoldDownFails(c)
  <2>1. [e EXCEPT !.pc = "latest", !.degraded = TRUE] \in EvalState
    BY <1>a, EvalStateType DEF EvalPc
  <2> QED BY <1>8, <1>a, <1>b, <1>c, <2>1 DEF EvalHoldDownFails
<1>9. CASE EvalLatest(c)
  <2>1. PICK d \in Check \cup {NoCheck} :
          eval' = [eval EXCEPT ![c] = [e EXCEPT !.pc = "open", !.suppressed_by = d]]
    BY <1>9, SuppressionInCheck DEF EvalLatest
  <2>2. [e EXCEPT !.pc = "open", !.suppressed_by = d] \in EvalState
    BY <1>a, EvalStateType DEF EvalPc
  <2> QED BY <1>9, <1>a, <1>b, <1>c, <2>1, <2>2 DEF EvalLatest
<1>10. ASSUME NEW a \in Alarm, EvalOpen(c, a) PROVE StoreTypeOK' /\ EvalTypeOK'
  <2>1. e.verdict \in {"warn", "fail"} /\ e.suppressed_by \in Check \cup {NoCheck}
    BY <1>10, <1>a, EvalStateType DEF EvalOpen, EvalKnows
  <2>2. severity_for_status(e.verdict) \in Severity
    BY SeverityType
  <2>3. open_alarm(a, c, e.verdict, severity_for_status(e.verdict), e.suppressed_by)
    BY <1>10 DEF EvalOpen
  <2>4. StoreTypeOK'
    <3>1. check_runs' = check_runs
      BY <1>10 DEF EvalOpen
    <3>2. /\ alarms' \in [Alarm -> Row]
          /\ alarm_acks' \in [Alarm -> [ever : BOOLEAN, live : BOOLEAN, severity : Severity,
                                        status : Verdict \cup {"none"}]]
          /\ notification_log' \in [Alarm -> [Step -> AgeOrNever]]
      BY <2>1, <2>2, <2>3, OpenAlarmType
    <3> QED BY <3>1, <3>2 DEF StoreTypeOK
  <2>5. [e EXCEPT !.pc = "emit", !.alarm = a] \in EvalState
    BY <1>a, EvalStateType DEF EvalPc
  <2> QED BY <1>10, <1>a, <1>b, <2>4, <2>5 DEF EvalOpen
<1>11. CASE EvalEmit(c)
  <2>1. e.alarm \in Alarm
    BY <1>11 DEF EvalEmit, EvalKnows
  <2> QED BY <1>11, <1>a, <1>b, <1>c, <2>1, IdleEvalType DEF EvalEmit
<1>12. CASE EvalRaises(c)
  BY <1>12, <1>a, <1>b, <1>c, IdleEvalType DEF EvalRaises
<1> QED
  BY <1>1, <1>2, <1>3, <1>4, <1>5, <1>6, <1>7, <1>8, <1>9, <1>10, <1>11, <1>12

\* The three ways a tick moves on keep its state well typed.
LEMMA TickMovesType ==
  ASSUME tick \in TickState
  PROVE  /\ \A p \in TickPc : GoTo(p) => tick' \in TickState
         /\ ProcessNext => tick' \in TickState
         /\ NextStep => tick' \in TickState
<1>1. \A p \in TickPc : GoTo(p) => tick' \in TickState
  BY TickStateType DEF GoTo
<1>2. ASSUME ProcessNext PROVE tick' \in TickState
  <2> DEFINE t1 == [tick EXCEPT !.pc = "next"]
             t2 == [t1 EXCEPT !.alarm = NoAlarm]
             t3 == [t2 EXCEPT !.step = 1]
             t4 == [t3 EXCEPT !.left = {}]
  <2>1. t1 \in TickState
    BY TickStateType DEF TickPc, Processing
  <2>2. t2 \in TickState
    BY <2>1, TickStateType
  <2>3. t3 \in TickState
    BY <2>2, TickStateType
  <2>4. t4 \in TickState
    BY <2>3, TickStateType
  <2>5. tick' = t4
    BY <1>2 DEF ProcessNext
  <2> QED BY <2>4, <2>5
<1>3. ASSUME NextStep PROVE tick' \in TickState
  <2> DEFINE t1 == [tick EXCEPT !.pc = "step"]
             t2 == [t1 EXCEPT !.step = tick.step + 1]
             t3 == [t2 EXCEPT !.left = {}]
  <2>1. t1 \in TickState
    BY TickStateType DEF TickPc, Processing
  <2>2. tick.step + 1 \in Nat
    BY TickStateType
  <2>3. t2 \in TickState
    BY <2>1, <2>2, TickStateType
  <2>4. t3 \in TickState
    BY <2>3, TickStateType
  <2>5. tick' = t3
    BY <1>3 DEF NextStep
  <2> QED BY <2>4, <2>5
<1> QED
  BY <1>1, <1>2, <1>3

\* The start and the end of a tick, and the sweep.
LEMMA TickRoundType ==
  ASSUME StoreTypeOK, TickTypeOK,
         \/ TickBegin \/ SweepSelect \/ (\E a \in Alarm : SweepClose(a))
         \/ SweepDone \/ SweepRaises \/ TickReadGates \/ TickReadLatest
         \/ TickReadLatestFails \/ (\E a \in Alarm : TickTake(a)) \/ TickEnd
  PROVE  StoreTypeOK' /\ TickTypeOK'
<1>a. tick \in TickState
  BY DEF TickTypeOK
<1>b. ASSUME tick' \in TickState, UNCHANGED <<silences, tiers_off, last_sweep, sent>>
      PROVE  TickTypeOK'
  BY <1>b DEF TickTypeOK
<1>c. UNCHANGED engineVars => StoreTypeOK'
  BY DEF engineVars, storeVars, StoreTypeOK
<1>d. \A p \in TickPc : GoTo(p) => tick' \in TickState
  BY <1>a, TickMovesType
<1>e. {a \in Alarm : IsOpen(a)} \subseteq Alarm /\ {a \in Alarm : IsStale(a)} \subseteq Alarm
  OBVIOUS
<1>1. CASE TickBegin
  <2>1. PICK p \in TickPc : tick' = [IdleTick EXCEPT !.pc = p, !.todo = {a \in Alarm : IsOpen(a)}]
    BY <1>1 DEF TickBegin, TickPc, Processing
  <2>2. [IdleTick EXCEPT !.pc = p] \in TickState
    BY IdleTickType, TickStateType
  <2>3. [[IdleTick EXCEPT !.pc = p] EXCEPT !.todo = {a \in Alarm : IsOpen(a)}] \in TickState
    BY <2>2, <1>e, TickStateType
  <2> QED BY <1>1, <1>b, <1>c, <2>1, <2>3 DEF TickBegin
<1>2. CASE SweepSelect
  <2>1. [tick EXCEPT !.pc = "sweeping"] \in TickState
    BY <1>a, TickStateType DEF TickPc, Processing
  <2>2. [[tick EXCEPT !.pc = "sweeping"] EXCEPT !.stale = {a \in Alarm : IsStale(a)}] \in TickState
    BY <2>1, <1>e, TickStateType
  <2> QED BY <1>2, <1>b, <1>c, <2>2 DEF SweepSelect
<1>3. ASSUME NEW a \in Alarm, SweepClose(a) PROVE StoreTypeOK' /\ TickTypeOK'
  <2>1. alarms' \in [Alarm -> Row]
    BY <1>3, UpdateAlarmType DEF SweepClose, StoreTypeOK
  <2>2. tick.stale \ {a} \in SUBSET Alarm
    BY <1>a, TickStateType
  <2>3. [tick EXCEPT !.stale = tick.stale \ {a}] \in TickState
    BY <1>a, <2>2, TickStateType
  <2>4. StoreTypeOK'
    BY <1>3, <2>1 DEF SweepClose, StoreTypeOK
  <2> QED BY <1>3, <1>b, <2>3, <2>4 DEF SweepClose
<1>4. CASE SweepDone \/ SweepRaises
  <2>1. tick' \in TickState
    BY <1>4, <1>d DEF SweepDone, SweepRaises, SweepStamp, TickPc, Processing
  <2>2. 0 \in AgeOrNever
    BY StoreAssumption DEF AgeOrNever, Age
  <2> QED BY <1>4, <1>c, <2>1, <2>2 DEF SweepDone, SweepRaises, SweepStamp, TickTypeOK
<1>5. CASE TickReadGates
  <2> DEFINE t1 == [tick EXCEPT !.pc = "latest"]
             t2 == [t1 EXCEPT !.stale = {}]
             t3 == [t2 EXCEPT !.silenced = silences]
             t4 == [t3 EXCEPT !.off = tiers_off]
  <2>1. silences \in SUBSET Check /\ tiers_off \in SUBSET Check /\ {} \in SUBSET Alarm
    BY DEF TickTypeOK
  <2>2. t1 \in TickState
    BY <1>a, TickStateType DEF TickPc, Processing
  <2>3. t2 \in TickState
    BY <2>2, TickStateType
  <2>4. t3 \in TickState
    BY <2>1, <2>3, TickStateType
  <2>5. t4 \in TickState
    BY <2>1, <2>4, TickStateType
  <2>6. tick' \in {IdleTick, t4}
    BY <1>5 DEF TickReadGates
  <2> QED BY <1>5, <1>b, <1>c, <2>5, <2>6, IdleTickType DEF TickReadGates
<1>6. CASE TickReadLatest
  <2>1. latest_per_check_map \in [Check -> Verdict \cup {"none"}]
    BY DEF StoreTypeOK, latest_per_check_map
  <2>2. [tick EXCEPT !.pc = "next"] \in TickState
    BY <1>a, TickStateType DEF TickPc, Processing
  <2>3. [[tick EXCEPT !.pc = "next"] EXCEPT !.latest = latest_per_check_map] \in TickState
    BY <2>1, <2>2, TickStateType
  <2> QED BY <1>6, <1>b, <1>c, <2>3 DEF TickReadLatest
<1>7. CASE TickReadLatestFails
  BY <1>7, <1>b, <1>c, <1>d DEF TickReadLatestFails, TickPc, Processing
<1>8. ASSUME NEW a \in Alarm, TickTake(a) PROVE StoreTypeOK' /\ TickTypeOK'
  <2> DEFINE t1 == [tick EXCEPT !.todo = tick.todo \ {a}]
             t2 == [t1 EXCEPT !.alarm = a]
  <2>1. tick.todo \ {a} \in SUBSET Alarm
    BY <1>a, TickStateType
  <2>2. t1 \in TickState
    BY <1>a, <2>1, TickStateType
  <2>3. t2 \in TickState
    BY <2>2, TickStateType
  <2>4. PICK p \in TickPc : tick' = [t2 EXCEPT !.pc = p]
    BY <1>8 DEF TickTake, TickPc, Processing
  <2>5. tick' \in TickState
    BY <2>3, <2>4, TickStateType
  <2> QED BY <1>8, <1>b, <1>c, <2>5 DEF TickTake
<1>9. CASE TickEnd
  BY <1>9, <1>b, <1>c, IdleTickType DEF TickEnd
<1> QED
  BY <1>1, <1>2, <1>3, <1>4, <1>5, <1>6, <1>7, <1>8, <1>9

\* The processing of one row.
LEMMA ProcessType ==
  ASSUME StoreTypeOK, TickTypeOK, TypeOK, TickHoldsRows, RowsHaveChecks,
         \/ StaysSuppressed \/ Unsuppress \/ Skipped \/ Reassess
         \/ ReadAck \/ AckHonored \/ AckOutgrown \/ AckUnreadable \/ LapseAck
         \/ StepsEnd \/ StepSkip \/ StepFire \/ Withhold
         \/ (\E r \in Receiver : ReceiverSkipped(r) \/ Send(r) \/ SendFails(r))
         \/ Record \/ StepServed \/ ProcessRaises
  PROVE  StoreTypeOK' /\ TickTypeOK'
<1>a. tick \in TickState
  BY DEF TickTypeOK
<1>b. ASSUME tick' \in TickState, UNCHANGED <<silences, tiers_off, last_sweep, sent>>
      PROVE  TickTypeOK'
  BY <1>b DEF TickTypeOK
<1>c. UNCHANGED engineVars => StoreTypeOK'
  BY DEF engineVars, storeVars, StoreTypeOK
<1>d. /\ \A p \in TickPc : GoTo(p) => tick' \in TickState
      /\ ProcessNext => tick' \in TickState
      /\ NextStep => tick' \in TickState
  BY <1>a, TickMovesType
<1>e. tick.pc \in Processing => tick.alarm \in Alarm
  BY DEF TickHoldsRows
<1>f. ASSUME alarms' \in [Alarm -> Row], UNCHANGED <<check_runs, alarm_acks, notification_log>>
      PROVE  StoreTypeOK'
  BY <1>f DEF StoreTypeOK
<1>1. CASE StaysSuppressed
  <2>1. alarms' \in [Alarm -> Row]
    <3>1. tick.alarm \in Alarm
      BY <1>1, <1>e DEF StaysSuppressed, Processing
    <3>2. alarms \in [Alarm -> Row]
      BY DEF StoreTypeOK
    <3>3. ASSUME NEW d \in StillSuppressedBy, update_alarm_suppression(tick.alarm, d)
          PROVE alarms' \in [Alarm -> Row]
      BY <3>1, <3>2, <3>3, SuppressionInCheck, UpdateAlarmType DEF StillSuppressedBy
    <3> QED BY <1>1, <3>2, <3>3 DEF StaysSuppressed
  <2> QED BY <1>1, <1>b, <1>d, <1>f, <2>1 DEF StaysSuppressed
<1>2. CASE Unsuppress
  <2>1. alarms' \in [Alarm -> Row]
    BY <1>2, <1>e, UpdateAlarmType DEF Unsuppress, Processing, StoreTypeOK
  <2> QED BY <1>2, <1>b, <1>d, <1>f, <2>1 DEF Unsuppress, TickPc, Processing
<1>3. CASE Skipped
  BY <1>3, <1>b, <1>c, <1>d DEF Skipped
<1>4. CASE Reassess
  <2>1. tick.alarm \in Alarm
    BY <1>4, <1>e DEF Reassess, Processing
  <2>2. compute_severity \in Severity
    BY <2>1, SeverityComputed
  <2>3. alarms' \in [Alarm -> Row]
    BY <1>4, <2>1, <2>2, UpdateAlarmType DEF Reassess, StoreTypeOK
  <2> QED BY <1>4, <1>b, <1>d, <1>f, <2>3 DEF Reassess, TickPc, Processing
<1>5. CASE ReadAck
  BY <1>5, <1>b, <1>c, <1>d DEF ReadAck, TickPc, Processing
<1>6. CASE AckHonored \/ AckUnreadable
  BY <1>6, <1>b, <1>c, <1>d DEF AckHonored, AckUnreadable
<1>7. CASE AckOutgrown
  BY <1>7, <1>b, <1>c, <1>d DEF AckOutgrown, TickPc, Processing
<1>8. CASE LapseAck
  <2>1. StoreTypeOK'
    BY <1>8 DEF LapseAck, unack_alarm, StoreTypeOK
  <2> QED BY <1>8, <1>b, <1>d, <2>1 DEF LapseAck, TickPc, Processing
<1>9. CASE StepsEnd
  BY <1>9, <1>b, <1>c, <1>d DEF StepsEnd
<1>10. CASE StepSkip
  BY <1>10, <1>b, <1>c, <1>d DEF StepSkip
<1>11. CASE StepFire
  <2>1. [tick EXCEPT !.pc = "withhold"] \in TickState
    BY <1>a, TickStateType DEF TickPc, Processing
  <2>2. [tick EXCEPT !.pc = "dispatch"] \in TickState
    BY <1>a, TickStateType DEF TickPc, Processing
  <2>3. [[tick EXCEPT !.pc = "dispatch"] EXCEPT !.left = Receiver] \in TickState
    BY <2>2, TickStateType
  <2> QED BY <1>11, <1>b, <1>c, <2>1, <2>3 DEF StepFire
<1>12. CASE Withhold \/ Record
  <2>1. StoreTypeOK'
    <3>1. notification_log' \in [Alarm -> [Step -> AgeOrNever]]
      BY <1>12, WriteNotificationType DEF Withhold, Record, StoreTypeOK
    <3> QED BY <1>12, <3>1 DEF Withhold, Record, StoreTypeOK
  <2>2. tick' \in TickState
    BY <1>12, <1>d DEF Withhold, Record, TickPc, Processing
  <2> QED BY <1>12, <1>b, <2>1, <2>2 DEF Withhold, Record
<1>13. ASSUME NEW r \in Receiver, ReceiverSkipped(r) \/ Send(r) \/ SendFails(r)
       PROVE  StoreTypeOK' /\ TickTypeOK'
  <2>1. tick.left \ {r} \in SUBSET Receiver
    BY <1>a, TickStateType
  <2>2. [tick EXCEPT !.left = tick.left \ {r}] \in TickState
    BY <1>a, <2>1, TickStateType
  <2>3. [tick EXCEPT !.pc = "record"] \in TickState
    BY <1>a, TickStateType DEF TickPc, Processing
  <2>4. [[tick EXCEPT !.pc = "record"] EXCEPT !.left = tick.left \ {r}] \in TickState
    BY <2>1, <2>3, TickStateType
  <2>5. CASE ReceiverSkipped(r) \/ SendFails(r)
    BY <2>5, <1>b, <1>c, <2>2, <2>4 DEF ReceiverSkipped, SendFails
  <2>6. CASE Send(r)
    <3>1. sent' \in [Alarm -> [Step -> [Receiver -> 0 .. 2]]]
      <4>1. tick.alarm \in Alarm /\ tick.step \in Step
        BY <2>6, <1>e DEF Send, Processing, TickHoldsRows
      <4>2. sent \in [Alarm -> [Step -> [Receiver -> 0 .. 2]]]
        BY DEF TickTypeOK
      <4> QED BY <2>6, <4>1, <4>2, CountSendType DEF Send
    <3> QED BY <2>6, <1>c, <2>4, <3>1 DEF Send, TickTypeOK
  <2> QED BY <1>13, <2>5, <2>6
<1>14. CASE StepServed
  BY <1>14, <1>b, <1>c, <1>d DEF StepServed
<1>15. CASE ProcessRaises
  BY <1>15, <1>b, <1>c, <1>d DEF ProcessRaises
<1> QED
  BY <1>1, <1>2, <1>3, <1>4, <1>5, <1>6, <1>7, <1>8, <1>9, <1>10, <1>11, <1>12, <1>13,
     <1>14, <1>15

\* People, time, and a restart.
LEMMA PeopleType ==
  ASSUME TypeOK, NEW a \in Alarm, RowsHaveChecks, UserAck(a) \/ UserUnack(a)
  PROVE  TypeOK'
<1>1. CASE UserAck(a)
  <2>1. alarms[a].severity \in Severity /\ alarms[a].check \in Check
    BY <1>1 DEF UserAck, RowsHaveChecks, TypeOK, StoreTypeOK, Row
  <2>2. check_runs[alarms[a].check].latest \in Verdict \cup {"none"}
    BY <2>1 DEF TypeOK, StoreTypeOK
  <2>3. alarm_acks' \in [Alarm -> [ever : BOOLEAN, live : BOOLEAN, severity : Severity,
                                  status : Verdict \cup {"none"}]]
    BY <1>1, <2>1, <2>2 DEF UserAck, ack_alarm, TypeOK, StoreTypeOK
  <2>4. StoreTypeOK'
    BY <1>1, <2>3 DEF UserAck, TypeOK, StoreTypeOK
  <2> QED BY <1>1, <2>4 DEF UserAck, TypeOK, EvalTypeOK, TickTypeOK, tickerVars
<1>2. CASE UserUnack(a)
  <2>1. StoreTypeOK'
    BY <1>2 DEF UserUnack, unack_alarm, TypeOK, StoreTypeOK
  <2> QED BY <1>2, <2>1 DEF UserUnack, TypeOK, EvalTypeOK, TickTypeOK, tickerVars
<1> QED
  BY <1>1, <1>2

LEMMA SwitchType ==
  ASSUME TypeOK, NEW c \in Check, ToggleSilence(c) \/ ToggleTier(c)
  PROVE  TypeOK'
<1>1. silences' \subseteq Check /\ tiers_off' \subseteq Check
  BY DEF TypeOK, TickTypeOK, ToggleSilence, ToggleTier
<1> QED
  BY <1>1 DEF ToggleSilence, ToggleTier, TypeOK, StoreTypeOK, EvalTypeOK, TickTypeOK,
              engineVars, storeVars

LEMMA ElapseType ==
  ASSUME TypeOK, Elapse
  PROVE  TypeOK'
<1>1. check_runs' \in [Check -> [latest : Verdict \cup {"none"}, streak : AgeOrNever,
                                 clean : AgeOrNever, unclean : AgeOrNever]]
  <2>1. ASSUME NEW r \in [latest : Verdict \cup {"none"}, streak : AgeOrNever,
                          clean : AgeOrNever, unclean : AgeOrNever]
        PROVE  [r EXCEPT !.streak = Older(@), !.clean = Older(@), !.unclean = Older(@)]
                 \in [latest : Verdict \cup {"none"}, streak : AgeOrNever,
                      clean : AgeOrNever, unclean : AgeOrNever]
    BY OlderType
  <2> QED BY <2>1 DEF Elapse, StoreElapse, TypeOK, StoreTypeOK
<1>2. alarms' \in [Alarm -> Row]
  <2>1. \A r \in Row : [r EXCEPT !.age = Older(@)] \in Row
    BY OlderType DEF Row
  <2>2. UnusedRow \in Row
    BY StoreAssumption DEF UnusedRow, Row, Severity, Age
  <2> QED BY <2>1, <2>2 DEF Elapse, StoreElapse, TypeOK, StoreTypeOK
<1>3. alarm_acks' \in [Alarm -> [ever : BOOLEAN, live : BOOLEAN, severity : Severity,
                                status : Verdict \cup {"none"}]]
  BY DEF Elapse, StoreElapse, TypeOK, StoreTypeOK, NoAck, Severity
<1>4. notification_log' \in [Alarm -> [Step -> AgeOrNever]]
  BY OlderType DEF Elapse, StoreElapse, TypeOK, StoreTypeOK, AgeOrNever
<1>5. sent' \in [Alarm -> [Step -> [Receiver -> 0 .. 2]]]
  BY DEF Elapse, TypeOK, TickTypeOK, NothingSent
<1>6. last_sweep' \in AgeOrNever
  BY OlderType DEF Elapse, TypeOK, TickTypeOK
<1> QED
  BY <1>1, <1>2, <1>3, <1>4, <1>5, <1>6
     DEF Elapse, TypeOK, StoreTypeOK, EvalTypeOK, TickTypeOK

LEMMA RestartType ==
  ASSUME TypeOK, Restart
  PROVE  StoreTypeOK' /\ EvalTypeOK' /\ TickTypeOK'
<1>1. Never \in AgeOrNever
  BY DEF AgeOrNever
<1> QED
  BY <1>1, IdleEvalType, IdleTickType
     DEF Restart, TypeOK, StoreTypeOK, EvalTypeOK, TickTypeOK, storeVars

\* Every step keeps the state well typed.
LEMMA StepType == IInv /\ [Next]_vars => TypeOK'
<1> SUFFICES ASSUME IInv, [Next]_vars PROVE TypeOK'
  OBVIOUS
<1>a. /\ StoreTypeOK /\ EvalTypeOK /\ TickTypeOK /\ TypeOK
      /\ EvalKnows /\ TickHoldsRows /\ RowsHaveChecks
      /\ faults \in 0 .. MaxFaults /\ fresh \subseteq Alarm /\ blamed \subseteq Alarm
  BY DEF IInv, TypeOK
<1>b. UNCHANGED tickerVars => TickTypeOK'
  BY <1>a DEF tickerVars, TickTypeOK
<1>c. Blame => blamed' \subseteq Alarm
  BY DEF Blame
<1>d. UNCHANGED <<eval, opened>> => EvalTypeOK'
  BY <1>a DEF EvalTypeOK
<1>1. ASSUME NEW c \in Check, Evaluation(c) PROVE TypeOK'
  <2>1. CASE \E a \in Alarm : InsertAlarm(c, a)
    <3>1. PICK a \in Alarm : InsertAlarm(c, a)
      BY <2>1
    <3>2. StoreTypeOK' /\ EvalTypeOK'
      BY <1>a, <3>1, EvaluationType DEF InsertAlarm
    <3>3. sent' \in [Alarm -> [Step -> [Receiver -> 0 .. 2]]]
      BY <1>a, <3>1 DEF InsertAlarm, NothingSent, TickTypeOK
    <3>4. TickTypeOK'
      BY <1>a, <3>1, <3>3 DEF InsertAlarm, TickTypeOK
    <3> QED BY <1>a, <1>c, <3>1, <3>2, <3>4 DEF InsertAlarm, TypeOK
  <2>2. CASE /\ \/ \E v \in Outcome : Result(c, v)
                \/ EvalIgnore(c) \/ EvalFindToClose(c) \/ EvalFindNone(c)
                \/ EvalClose(c) \/ EvalHoldDown(c) \/ EvalLatest(c) \/ EvalEmit(c)
             /\ Blame
             /\ UNCHANGED <<tickerVars, faults, fresh>>
    <3>1. StoreTypeOK' /\ EvalTypeOK'
      BY <1>a, <2>2, EvaluationType
    <3> QED BY <1>a, <1>b, <1>c, <2>2, <3>1 DEF TypeOK
  <2> QED BY <1>1, <2>1, <2>2 DEF Evaluation
<1>2. CASE Tick
  <2>1. StoreTypeOK' /\ TickTypeOK'
    BY <1>a, <1>2, TickRoundType, ProcessType DEF Tick
  <2>2. UNCHANGED <<eval, opened>>
    BY <1>2 DEF Tick, TickBegin, SweepSelect, SweepClose, SweepDone, SweepStamp,
      TickReadGates, TickReadLatest, TickTake, TickEnd, StaysSuppressed, Unsuppress,
      Skipped, Reassess, ReadAck, AckHonored, AckOutgrown, LapseAck, StepsEnd,
      StepSkip, StepFire, Withhold, ReceiverSkipped, Send, SendFails, Record,
      StepServed, engineVars
  <2>3. faults' = faults /\ fresh' \subseteq Alarm /\ blamed' = blamed
    BY <1>a, <1>2 DEF Tick
  <2> QED BY <1>a, <1>d, <2>1, <2>2, <2>3 DEF TypeOK
<1>3. ASSUME NEW a \in Alarm, UserAck(a) \/ UserUnack(a) PROVE TypeOK'
  BY <1>a, <1>3, PeopleType
<1>4. ASSUME NEW c \in Check, ToggleSilence(c) \/ ToggleTier(c) PROVE TypeOK'
  BY <1>a, <1>4, SwitchType
<1>5. CASE Fault
  <2>1. faults' \in 0 .. MaxFaults /\ fresh' \subseteq Alarm /\ blamed' \subseteq Alarm
    BY <1>a, <1>5, EngineAssumption DEF Fault
  <2>2. CASE Restart
    BY <1>a, <2>1, <2>2, RestartType DEF TypeOK
  <2>3. CASE Raise
    <3>1. CASE /\ \E c \in Check :
                    \/ \E v \in Outcome : ResultNotPersisted(c, v)
                    \/ EvalHoldDownFails(c)
                    \/ EvalRaises(c)
               /\ UNCHANGED tickerVars
      BY <1>a, <1>b, <2>1, <3>1, EvaluationType DEF TypeOK
    <3>2. CASE SweepRaises \/ TickReadLatestFails \/ AckUnreadable \/ ProcessRaises
      <4>1. StoreTypeOK' /\ TickTypeOK'
        BY <1>a, <3>2, TickRoundType, ProcessType
      <4>2. UNCHANGED <<eval, opened>>
        BY <3>2 DEF SweepRaises, SweepStamp, TickReadLatestFails, AckUnreadable,
                    ProcessRaises, engineVars
      <4> QED BY <1>d, <2>1, <4>1, <4>2 DEF TypeOK
    <3> QED BY <2>3, <3>1, <3>2 DEF Raise
  <2> QED BY <1>5, <2>2, <2>3 DEF Fault
<1>6. CASE Elapse
  BY <1>a, <1>6, ElapseType
<1>7. CASE UNCHANGED vars
  BY <1>a, <1>7 DEF vars, storeVars, tickerVars, TypeOK, StoreTypeOK, EvalTypeOK, TickTypeOK
<1> QED
  BY <1>1, <1>2, <1>3, <1>4, <1>5, <1>6, <1>7 DEF Next

-----------------------------------------------------------------------------
(* The rest of the inductive invariant *)

\* What every step but the insertion of a row and the passing of time leaves of
\* the rows: they stay the rows of their checks, and can only be closed.
RowsKept ==
  \A a \in Alarm :
    /\ alarms'[a].check = alarms[a].check
    /\ alarms'[a].state # alarms[a].state =>
         alarms[a].state = "open" /\ alarms'[a].state = "closed"

LEMMA SameRows == UNCHANGED alarms => RowsKept
BY DEF RowsKept

LEMMA UpdateKeepsRows ==
  ASSUME alarms \in [Alarm -> Row], NEW a \in Alarm,
         \/ close_alarm(a)
         \/ \E sev : update_alarm_severity(a, sev)
         \/ \E cause : update_alarm_suppression(a, cause)
         \/ UNCHANGED alarms
  PROVE  RowsKept
<1>1. CASE close_alarm(a)
  BY <1>1 DEF close_alarm, IsOpen, RowsKept, Row
<1>2. ASSUME NEW sev, update_alarm_severity(a, sev) PROVE RowsKept
  BY <1>2 DEF update_alarm_severity, RowsKept, Row
<1>3. ASSUME NEW cause, update_alarm_suppression(a, cause) PROVE RowsKept
  BY <1>3 DEF update_alarm_suppression, RowsKept, Row
<1>4. CASE UNCHANGED alarms
  BY <1>4, SameRows
<1> QED
  BY <1>1, <1>2, <1>3, <1>4

\* The steps of an evaluation other than the insertion keep the rows.
EvaluationButInsert(c) ==
  \/ \E v \in Outcome : Result(c, v) \/ ResultNotPersisted(c, v)
  \/ EvalIgnore(c) \/ EvalFindToClose(c) \/ EvalFindNone(c) \/ EvalClose(c)
  \/ EvalHoldDown(c) \/ EvalHoldDownFails(c) \/ EvalLatest(c) \/ EvalEmit(c)
  \/ EvalRaises(c)

LEMMA EvaluationKeepsRows ==
  ASSUME TypeOK, EvalKnows, NEW c \in Check, EvaluationButInsert(c)
  PROVE  RowsKept
<1>1. CASE EvalClose(c)
  BY <1>1, UpdateKeepsRows DEF EvalClose, EvalKnows, TypeOK, StoreTypeOK
<1>2. CASE ~EvalClose(c)
  <2>1. UNCHANGED alarms
    BY <1>2 DEF EvaluationButInsert, Result, ResultNotPersisted, EvalIgnore, EvalFindToClose,
      EvalFindNone, EvalHoldDown, EvalHoldDownFails, EvalLatest, EvalEmit, EvalRaises, storeVars
  <2> QED BY <2>1, SameRows
<1> QED
  BY <1>1, <1>2

\* All the steps of the ticker, those that raise included.
TickerStep ==
  \/ Tick
  \/ /\ SweepRaises \/ TickReadLatestFails \/ AckUnreadable \/ ProcessRaises
     /\ UNCHANGED <<fresh, blamed>>

LEMMA TickerKeepsRows ==
  ASSUME TypeOK, TickHoldsRows, TickerStep
  PROVE  RowsKept /\ UNCHANGED <<eval, opened>>
<1>a. alarms \in [Alarm -> Row]
  BY DEF TypeOK, StoreTypeOK
<1>1. UNCHANGED <<eval, opened>>
  BY DEF TickerStep, Tick, TickBegin, SweepSelect, SweepClose, SweepDone, SweepRaises,
    SweepStamp, TickReadGates, TickReadLatest, TickReadLatestFails, TickTake, TickEnd,
    StaysSuppressed, Unsuppress, Skipped, Reassess, ReadAck, AckHonored, AckOutgrown,
    AckUnreadable, LapseAck, StepsEnd, StepSkip, StepFire, Withhold, ReceiverSkipped,
    Send, SendFails, Record, StepServed, ProcessRaises, engineVars
<1>2. ASSUME NEW a \in Alarm, SweepClose(a) PROVE RowsKept
  BY <1>a, <1>2, UpdateKeepsRows DEF SweepClose
<1>3. CASE StaysSuppressed \/ Unsuppress \/ Reassess
  <2>1. tick.alarm \in Alarm
    BY <1>3 DEF StaysSuppressed, Unsuppress, Reassess, Processing, TickHoldsRows
  <2>2. CASE StaysSuppressed
    BY <1>a, <2>1, <2>2, UpdateKeepsRows DEF StaysSuppressed
  <2>3. CASE Unsuppress
    BY <1>a, <2>1, <2>3, UpdateKeepsRows DEF Unsuppress
  <2>4. CASE Reassess
    BY <1>a, <2>1, <2>4, UpdateKeepsRows DEF Reassess
  <2> QED BY <1>3, <2>2, <2>3, <2>4
<1>4. CASE UNCHANGED alarms
  BY <1>1, <1>4, SameRows
<1>5. \/ \E a \in Alarm : SweepClose(a)
      \/ StaysSuppressed \/ Unsuppress \/ Reassess
      \/ UNCHANGED alarms
  BY DEF TickerStep, Tick, TickBegin, SweepSelect, SweepDone, SweepRaises,
    SweepStamp, TickReadGates, TickReadLatest, TickReadLatestFails, TickTake, TickEnd,
    Skipped, ReadAck, AckHonored, AckOutgrown,
    AckUnreadable, LapseAck, StepsEnd, StepSkip, StepFire, Withhold, ReceiverSkipped,
    Send, SendFails, Record, StepServed, ProcessRaises, engineVars, storeVars
<1> QED
  BY <1>1, <1>2, <1>3, <1>4, <1>5

\* What follows for the tables and the evaluations from the rows being kept.
LEMMA KeptRows ==
  ASSUME TypeOK, RowsHaveChecks, OneOpenAlarm, RowsKept
  PROVE  /\ RowsHaveChecks' /\ OneOpenAlarm'
         /\ \A c \in Check : OpenFor(c)' \subseteq OpenFor(c)
         /\ \A a \in Alarm : alarms[a].state # "unused" => alarms'[a].state # "unused"
<1>1. RowsHaveChecks'
  BY DEF RowsHaveChecks, RowsKept
<1>2. OneOpenAlarm'
  BY DEF OneOpenAlarm, RowsKept, IsOpen
<1>3. \A c \in Check : OpenFor(c)' \subseteq OpenFor(c)
  BY DEF OpenFor, RowsKept, IsOpen
<1>4. \A a \in Alarm : alarms[a].state # "unused" => alarms'[a].state # "unused"
  BY DEF RowsKept
<1> QED BY <1>1, <1>2, <1>3, <1>4

LEMMA EvaluationKnows ==
  ASSUME IInv, NEW c \in Check, EvaluationButInsert(c)
  PROVE  EvalKnows'
<1>a. /\ eval \in [Check -> EvalState] /\ EvalKnows
      /\ \A d \in Check : OpenFor(d)' \subseteq OpenFor(d)
  BY EvaluationKeepsRows, KeptRows DEF IInv, TypeOK, EvalTypeOK
<1>b. \A d \in Check \ {c} : eval'[d] = eval[d]
  BY <1>a DEF EvaluationButInsert, Result, ResultNotPersisted, EvalIgnore, EvalFindToClose,
      EvalFindNone, EvalClose, EvalHoldDown, EvalHoldDownFails, EvalLatest, EvalEmit,
      EvalRaises
<1>c. /\ eval'[c].pc \in {"close", "emit"} => eval'[c].alarm \in Alarm
      /\ eval'[c].pc \in {"hold", "latest", "open"} =>
           eval'[c].verdict \in {"warn", "fail"} /\ OpenFor(c) = {}
  <2>1. CASE \E v \in Outcome : Result(c, v) \/ ResultNotPersisted(c, v)
    BY <1>a, <2>1 DEF Result, ResultNotPersisted, IdleEval
  <2>2. CASE EvalIgnore(c) \/ EvalClose(c) \/ EvalEmit(c) \/ EvalRaises(c)
    BY <1>a, <2>2 DEF EvalIgnore, EvalClose, EvalEmit, EvalRaises, IdleEval
  <2>3. CASE EvalFindToClose(c)
    BY <1>a, <2>3 DEF EvalFindToClose, EvalState, OpenFor
  <2>4. CASE EvalFindNone(c)
    BY <1>a, <2>4 DEF EvalFindNone, EvalState
  <2>5. CASE EvalHoldDown(c)
    BY <1>a, <2>5 DEF EvalHoldDown, EvalState, IdleEval, EvalKnows
  <2>6. CASE EvalHoldDownFails(c)
    BY <1>a, <2>6 DEF EvalHoldDownFails, EvalState, EvalKnows
  <2>7. CASE EvalLatest(c)
    BY <1>a, <2>7 DEF EvalLatest, EvalState, EvalKnows
  <2> QED BY <2>1, <2>2, <2>3, <2>4, <2>5, <2>6, <2>7 DEF EvaluationButInsert
<1>d. ASSUME NEW d \in Check
      PROVE  /\ eval'[d].pc \in {"close", "emit"} => eval'[d].alarm \in Alarm
             /\ eval'[d].pc \in {"hold", "latest", "open"} =>
                  eval'[d].verdict \in {"warn", "fail"} /\ OpenFor(d)' = {}
  <2>1. OpenFor(d) = {} => OpenFor(d)' = {}
    BY <1>a
  <2>2. CASE d = c
    BY <1>c, <2>1, <2>2
  <2>3. CASE d # c
    BY <1>a, <1>b, <2>1, <2>3 DEF EvalKnows
  <2> QED BY <2>2, <2>3
<1> QED
  BY <1>d DEF EvalKnows

\* A step of the ticker takes up only open rows, and forgets all of them when
\* the tick ends.
LEMMA TickerHolds ==
  ASSUME IInv, TickerStep
  PROVE  TickHoldsRows'
<1>a. /\ tick \in TickState /\ TickHoldsRows
      /\ \A a \in Alarm : alarms[a].state # "unused" => alarms'[a].state # "unused"
  BY TickerKeepsRows, KeptRows DEF IInv, TypeOK, TickTypeOK
<1> DEFINE Held == tick.todo \cup tick.stale \cup {tick.alarm}
<1>b. ASSUME tick'.pc = "idle" => tick' = IdleTick,
             tick'.pc \in Processing => tick'.alarm \in Alarm,
             tick'.pc \in {"withhold", "dispatch", "record"} => tick'.step \in Step,
             \A a \in Alarm : a \in tick'.todo \cup tick'.stale \cup {tick'.alarm}
               => a \in Held \/ IsOpen(a)
      PROVE  TickHoldsRows'
  <2>1. \A a \in Alarm : a \in Held \/ IsOpen(a) => alarms[a].state # "unused"
    BY <1>a DEF TickHoldsRows, IsOpen
  <2>2. \A a \in Alarm : a \in tick'.todo \cup tick'.stale \cup {tick'.alarm}
          => alarms'[a].state # "unused"
    BY <1>a, <1>b, <2>1
  <2> QED BY <1>b, <2>2 DEF TickHoldsRows
<1>c. NoAlarm \notin Alarm
  BY StoreAssumption
<1>1. CASE TickBegin
  <2>1. /\ tick'.pc \in {"sweep", "gates"} /\ tick'.todo = {a \in Alarm : IsOpen(a)}
        /\ tick'.stale = {} /\ tick'.alarm = NoAlarm
    BY <1>1 DEF TickBegin, IdleTick
  <2> QED BY <1>b, <1>c, <2>1 DEF Processing
<1>2. CASE SweepSelect
  <2>1. /\ tick'.pc = "sweeping" /\ tick'.todo = tick.todo /\ tick'.alarm = tick.alarm
        /\ tick'.stale = {a \in Alarm : IsStale(a)}
    BY <1>2, <1>a DEF SweepSelect, TickState
  <2> QED BY <1>b, <2>1 DEF Processing, IsStale
<1>3. ASSUME NEW a \in Alarm, SweepClose(a) PROVE TickHoldsRows'
  <2>1. /\ tick'.pc = "sweeping" /\ tick'.todo = tick.todo /\ tick'.alarm = tick.alarm
        /\ tick'.stale \subseteq tick.stale
    BY <1>3, <1>a DEF SweepClose, TickState
  <2> QED BY <1>b, <2>1 DEF Processing
<1>4. CASE SweepDone \/ SweepRaises
  <2>1. /\ tick'.pc = "gates" /\ tick'.todo = tick.todo /\ tick'.alarm = tick.alarm
        /\ tick'.stale = tick.stale
    BY <1>4, <1>a DEF SweepDone, SweepRaises, SweepStamp, GoTo, TickState
  <2> QED BY <1>b, <2>1 DEF Processing
<1>5. CASE TickReadGates
  <2>1. CASE tick' = IdleTick
    BY <1>b, <1>c, <2>1 DEF IdleTick, Processing
  <2>2. CASE tick' # IdleTick
    <3>1. /\ tick'.pc = "latest" /\ tick'.todo = tick.todo /\ tick'.alarm = tick.alarm
          /\ tick'.stale = {}
      BY <1>5, <1>a, <2>2 DEF TickReadGates, TickState
    <3> QED BY <1>b, <3>1 DEF Processing
  <2> QED BY <2>1, <2>2
<1>6. CASE TickReadLatest \/ TickReadLatestFails
  <2>1. /\ tick'.pc = "next" /\ tick'.todo = tick.todo /\ tick'.alarm = tick.alarm
        /\ tick'.stale = tick.stale
    BY <1>6, <1>a DEF TickReadLatest, TickReadLatestFails, GoTo, TickState
  <2> QED BY <1>b, <2>1 DEF Processing
<1>7. ASSUME NEW a \in Alarm, TickTake(a) PROVE TickHoldsRows'
  <2>1. /\ tick'.pc \in {"severity", "cause"} /\ tick'.todo \subseteq tick.todo
        /\ a \in tick.todo /\ tick'.alarm = a /\ tick'.stale = tick.stale
    BY <1>7, <1>a DEF TickTake, TickState
  <2> QED BY <1>b, <2>1
<1>8. CASE TickEnd
  BY <1>8, <1>b, <1>c DEF TickEnd, IdleTick, Processing
<1>9. CASE \/ StaysSuppressed \/ Skipped \/ AckHonored \/ AckUnreadable \/ StepsEnd
           \/ ProcessRaises
  <2>1. ProcessNext
    BY <1>9 DEF StaysSuppressed, Skipped, AckHonored, AckUnreadable, StepsEnd, ProcessRaises
  <2>2. /\ tick'.pc = "next" /\ tick'.todo = tick.todo /\ tick'.alarm = NoAlarm
        /\ tick'.stale = tick.stale
    BY <1>a, <2>1 DEF ProcessNext, TickState
  <2> QED BY <1>b, <1>c, <2>2 DEF Processing
<1>10. CASE \/ Unsuppress \/ Reassess \/ ReadAck \/ AckOutgrown \/ LapseAck \/ Record
  <2>1. /\ tick.pc \in Processing
        /\ \E p \in Processing : GoTo(p) /\ (p \in {"withhold", "dispatch", "record"} =>
                                               tick.pc \in {"withhold", "dispatch", "record"})
    BY <1>10 DEF Unsuppress, Reassess, ReadAck, AckOutgrown, LapseAck, Record, Processing
  <2>2. PICK p \in Processing : /\ tick' = [tick EXCEPT !.pc = p]
                                /\ (p \in {"withhold", "dispatch", "record"} =>
                                      tick.pc \in {"withhold", "dispatch", "record"})
    BY <2>1 DEF GoTo
  <2>3. /\ tick'.pc = p /\ tick'.todo = tick.todo /\ tick'.alarm = tick.alarm
        /\ tick'.stale = tick.stale /\ tick'.step = tick.step
    BY <1>a, <2>2 DEF TickState
  <2>4. /\ tick.alarm \in Alarm
        /\ tick.pc \in {"withhold", "dispatch", "record"} => tick.step \in Step
    BY <1>a, <2>1 DEF TickHoldsRows
  <2>5. tick'.pc # "idle"
    BY <2>3 DEF Processing
  <2> QED BY <1>b, <2>2, <2>3, <2>4, <2>5
<1>11. CASE StepSkip \/ Withhold \/ StepServed
  <2>1. tick.pc \in Processing /\ NextStep
    BY <1>11 DEF StepSkip, Withhold, StepServed, Processing
  <2>2. /\ tick'.pc = "step" /\ tick'.todo = tick.todo /\ tick'.alarm = tick.alarm
        /\ tick'.stale = tick.stale
    BY <1>a, <2>1 DEF NextStep, TickState
  <2> QED BY <1>a, <1>b, <2>1, <2>2 DEF TickHoldsRows, Processing
<1>12. CASE StepFire
  <2>1. tick.pc \in Processing /\ tick.step \in Step
    BY <1>12 DEF StepFire, StepIsDue, Processing
  <2>2. /\ tick'.pc \in {"withhold", "dispatch"} /\ tick'.todo = tick.todo
        /\ tick'.alarm = tick.alarm /\ tick'.stale = tick.stale /\ tick'.step = tick.step
    BY <1>12, <1>a DEF StepFire, TickState
  <2> QED BY <1>a, <1>b, <2>1, <2>2 DEF TickHoldsRows
<1>13. ASSUME NEW r \in Receiver, ReceiverSkipped(r) \/ Send(r) \/ SendFails(r)
       PROVE  TickHoldsRows'
  <2>1. tick.pc = "dispatch"
    BY <1>13 DEF ReceiverSkipped, Send, SendFails
  <2>2. /\ tick'.pc \in {"dispatch", "record"} /\ tick'.todo = tick.todo
        /\ tick'.alarm = tick.alarm /\ tick'.stale = tick.stale /\ tick'.step = tick.step
    BY <1>13, <1>a DEF ReceiverSkipped, Send, SendFails, TickState
  <2> QED BY <1>a, <1>b, <2>1, <2>2 DEF TickHoldsRows, Processing
<1> QED
  BY <1>1, <1>2, <1>3, <1>4, <1>5, <1>6, <1>7, <1>8, <1>9, <1>10, <1>11, <1>12, <1>13
     DEF TickerStep, Tick

\* The insertion: the row it takes is held by nobody, and its check has no open
\* alarm, as the evaluation found.
LEMMA InsertKeeps ==
  ASSUME IInv, NEW c \in Check, NEW a \in Alarm, InsertAlarm(c, a)
  PROVE  RowsHaveChecks' /\ TickHoldsRows' /\ EvalKnows' /\ OneOpenAlarm'
<1>a. /\ eval \in [Check -> EvalState] /\ alarms \in [Alarm -> Row]
      /\ RowsHaveChecks /\ TickHoldsRows /\ EvalKnows /\ OneOpenAlarm
  BY DEF IInv, TypeOK, EvalTypeOK, StoreTypeOK
<1>1. /\ alarms'[a].state = "open" /\ alarms'[a].check = c
      /\ \A b \in Alarm \ {a} : alarms'[b] = alarms[b]
      /\ ~IsOpen(a)
  BY <1>a DEF InsertAlarm, Reusable, EvalOpen, open_alarm, IsOpen
<1>2. OpenFor(c) = {}
  BY <1>a DEF InsertAlarm, EvalOpen, EvalKnows
<1>3. \A d \in Check : d # c => OpenFor(d)' = OpenFor(d)
  BY <1>1 DEF OpenFor, IsOpen
<1>4. RowsHaveChecks'
  BY <1>a, <1>1 DEF RowsHaveChecks
<1>5. OneOpenAlarm'
  BY <1>a, <1>1, <1>2 DEF OneOpenAlarm, OpenFor, IsOpen
<1>6. TickHoldsRows'
  <2>1. tick' = tick
    BY DEF InsertAlarm
  <2> QED BY <1>a, <1>1, <2>1 DEF TickHoldsRows
<1>7. EvalKnows'
  <2>1. /\ eval'[c].pc = "emit" /\ eval'[c].alarm = a
        /\ \A d \in Check \ {c} : eval'[d] = eval[d]
    BY <1>a DEF InsertAlarm, EvalOpen, EvalState
  <2>2. ASSUME NEW d \in Check
        PROVE  /\ eval'[d].pc \in {"close", "emit"} => eval'[d].alarm \in Alarm
               /\ eval'[d].pc \in {"hold", "latest", "open"} =>
                    eval'[d].verdict \in {"warn", "fail"} /\ OpenFor(d)' = {}
    BY <1>a, <1>3, <2>1 DEF EvalKnows
  <2> QED BY <2>2 DEF EvalKnows
<1> QED
  BY <1>4, <1>5, <1>6, <1>7

\* Time passes only while nobody holds anything.
LEMMA ElapseKeeps ==
  ASSUME IInv, Elapse
  PROVE  RowsHaveChecks' /\ TickHoldsRows' /\ EvalKnows' /\ OneOpenAlarm'
<1>a. /\ alarms \in [Alarm -> Row] /\ RowsHaveChecks /\ TickHoldsRows /\ OneOpenAlarm
      /\ tick.pc = "idle" /\ UNCHANGED <<tick, eval>>
      /\ \A c \in Check : eval[c].pc = "idle"
  BY DEF IInv, TypeOK, StoreTypeOK, Elapse
<1>1. ASSUME NEW a \in Alarm
      PROVE  /\ alarms'[a].state \in {"open", "unused"}
             /\ alarms'[a].state = "open" => IsOpen(a) /\ alarms'[a].check = alarms[a].check
  <2>1. alarms'[a] = IF IsOpen(a) THEN [alarms[a] EXCEPT !.age = Older(@)] ELSE UnusedRow
    BY DEF Elapse, StoreElapse
  <2> QED BY <1>a, <2>1 DEF Row, IsOpen, UnusedRow
<1>2. RowsHaveChecks'
  BY <1>a, <1>1 DEF RowsHaveChecks, IsOpen
<1>3. OneOpenAlarm'
  BY <1>a, <1>1 DEF OneOpenAlarm, IsOpen
<1>4. TickHoldsRows'
  BY <1>a, StoreAssumption DEF TickHoldsRows, IdleTick, Processing
<1>5. EvalKnows'
  BY <1>a DEF EvalKnows
<1> QED
  BY <1>2, <1>3, <1>4, <1>5

\* Every step is of one of seven kinds.
EvaluationStep ==
  \E c \in Check :
    /\ EvaluationButInsert(c)
    /\ UNCHANGED tickerVars /\ UNCHANGED fresh
    /\ Blame \/ UNCHANGED <<check_runs, alarms, blamed>>

InsertStep == \E c \in Check, a \in Alarm : InsertAlarm(c, a)

AckStep == \E a \in Alarm : UserAck(a) \/ UserUnack(a)

SwitchStep == \E c \in Check : ToggleSilence(c) \/ ToggleTier(c)

RestartStep == Restart /\ UNCHANGED <<fresh, blamed>>

LEMMA StepKinds ==
  ASSUME [Next]_vars
  PROVE  \/ EvaluationStep \/ InsertStep \/ TickerStep \/ AckStep \/ SwitchStep
         \/ RestartStep \/ Elapse \/ UNCHANGED vars
<1>1. ASSUME NEW c \in Check, Evaluation(c) PROVE EvaluationStep \/ InsertStep
  BY <1>1 DEF Evaluation, EvaluationButInsert, EvaluationStep, InsertStep
<1>2. ASSUME Fault PROVE EvaluationStep \/ TickerStep \/ RestartStep
  <2>1. (Raise \/ Restart) /\ UNCHANGED <<fresh, blamed>>
    BY <1>2 DEF Fault
  <2>2. ASSUME NEW c \in Check,
               \/ \E v \in Outcome : ResultNotPersisted(c, v)
               \/ EvalHoldDownFails(c)
               \/ EvalRaises(c)
        PROVE  EvaluationButInsert(c) /\ UNCHANGED <<check_runs, alarms>>
    BY <2>2 DEF EvaluationButInsert, ResultNotPersisted, EvalHoldDownFails, EvalRaises,
                storeVars
  <2> QED BY <2>1, <2>2 DEF Raise, TickerStep, EvaluationStep, RestartStep
<1>3. ASSUME NEW a \in Alarm, UserAck(a) \/ UserUnack(a) PROVE AckStep
  BY <1>3 DEF AckStep
<1>4. ASSUME NEW c \in Check, ToggleSilence(c) \/ ToggleTier(c) PROVE SwitchStep
  BY <1>4 DEF SwitchStep
<1>5. Tick => TickerStep
  BY DEF TickerStep
<1> QED
  BY <1>1, <1>2, <1>3, <1>4, <1>5 DEF Next

\* The steps of people and of a restart leave the rows alone, and no evaluation
\* further than it was.
LEMMA OthersKeep ==
  ASSUME IInv, AckStep \/ SwitchStep \/ RestartStep \/ UNCHANGED vars
  PROVE  RowsHaveChecks' /\ TickHoldsRows' /\ EvalKnows' /\ OneOpenAlarm'
<1>a. RowsHaveChecks /\ TickHoldsRows /\ EvalKnows /\ OneOpenAlarm
  BY DEF IInv
<1>1. UNCHANGED alarms
  BY DEF AckStep, UserAck, UserUnack, SwitchStep, ToggleSilence, ToggleTier, RestartStep,
         Restart, engineVars, storeVars, vars
<1>2. RowsHaveChecks' /\ OneOpenAlarm'
  BY <1>a, <1>1 DEF RowsHaveChecks, OneOpenAlarm, IsOpen
<1>3. UNCHANGED <<tick, eval>> \/ Restart
  BY DEF AckStep, UserAck, UserUnack, SwitchStep, ToggleSilence, ToggleTier, RestartStep,
         engineVars, tickerVars, vars
<1>4. CASE UNCHANGED <<tick, eval>>
  BY <1>a, <1>1, <1>2, <1>4 DEF TickHoldsRows, EvalKnows, OpenFor, IsOpen
<1>5. CASE Restart
  <2>1. TickHoldsRows'
    BY <1>5, StoreAssumption DEF Restart, TickHoldsRows, IdleTick, Processing
  <2>2. EvalKnows'
    BY <1>5 DEF Restart, EvalKnows, IdleEval
  <2> QED BY <1>2, <2>1, <2>2
<1> QED
  BY <1>3, <1>4, <1>5

LEMMA InductiveInit == Init => IInv
<1> SUFFICES ASSUME Init PROVE IInv
  OBVIOUS
<1>1. TypeOK
  BY InitType
<1>2. RowsHaveChecks /\ OneOpenAlarm
  BY DEF Init, StoreInit, UnusedRow, RowsHaveChecks, OneOpenAlarm, IsOpen
<1>3. TickHoldsRows
  BY StoreAssumption DEF Init, TickInit, IdleTick, TickHoldsRows, Processing
<1>4. EvalKnows
  BY DEF Init, EvalInit, IdleEval, EvalKnows
<1> QED
  BY <1>1, <1>2, <1>3, <1>4 DEF IInv

LEMMA InductiveStep == IInv /\ [Next]_vars => IInv'
<1> SUFFICES ASSUME IInv, [Next]_vars PROVE IInv'
  OBVIOUS
<1> DEFINE Rest == RowsHaveChecks /\ TickHoldsRows /\ EvalKnows /\ OneOpenAlarm
<1>a. TypeOK'
  BY StepType
<1>b. TypeOK /\ RowsHaveChecks /\ TickHoldsRows /\ EvalKnows /\ OneOpenAlarm
  BY DEF IInv
<1>1. ASSUME EvaluationStep PROVE Rest'
  <2>1. PICK c \in Check : EvaluationButInsert(c) /\ UNCHANGED tickerVars
    BY <1>1 DEF EvaluationStep
  <2>2. RowsKept
    BY <1>b, <2>1, EvaluationKeepsRows
  <2>3. /\ RowsHaveChecks' /\ OneOpenAlarm'
        /\ \A a \in Alarm : alarms[a].state # "unused" => alarms'[a].state # "unused"
    BY <1>b, <2>2, KeptRows
  <2>4. TickHoldsRows'
    BY <1>b, <2>1, <2>3 DEF TickHoldsRows, tickerVars
  <2> QED BY <2>1, <2>3, <2>4, EvaluationKnows
<1>2. ASSUME InsertStep PROVE Rest'
  BY <1>2, InsertKeeps DEF InsertStep
<1>3. ASSUME TickerStep PROVE Rest'
  <2>1. RowsKept /\ UNCHANGED <<eval, opened>>
    BY <1>3, <1>b, TickerKeepsRows
  <2>2. RowsHaveChecks' /\ OneOpenAlarm' /\ \A c \in Check : OpenFor(c)' \subseteq OpenFor(c)
    BY <1>b, <2>1, KeptRows
  <2>3. \A c \in Check : OpenFor(c) = {} => OpenFor(c)' = {}
    BY <2>2
  <2>4. EvalKnows'
    BY <1>b, <2>1, <2>3 DEF EvalKnows
  <2> QED BY <1>3, <2>2, <2>4, TickerHolds
<1>4. ASSUME Elapse PROVE Rest'
  BY <1>4, ElapseKeeps
<1>5. ASSUME AckStep \/ SwitchStep \/ RestartStep \/ UNCHANGED vars PROVE Rest'
  BY <1>5, OthersKeep
<1>6. Rest'
  BY <1>1, <1>2, <1>3, <1>4, <1>5, StepKinds
<1> QED
  BY <1>a, <1>6 DEF IInv

-----------------------------------------------------------------------------
(* The theorems *)

\* The inductive invariant holds in every reachable state.
THEOREM Inductive == Spec => []IInv
BY InductiveInit, InductiveStep, PTL DEF Spec

\* The state of the engine, of its tables and of all that is in progress is
\* well typed: in particular every row a task holds exists.
THEOREM TypeCorrect == Spec => []TypeOK
<1>1. IInv => TypeOK
  BY DEF IInv
<1> QED
  BY Inductive, <1>1, PTL

\* No check ever has two open alarms, although evaluate inserts on a read that
\* is several awaits old and the table has no constraint against it.
THEOREM AtMostOneOpenAlarm == Spec => []OneOpenAlarm
<1>1. IInv => OneOpenAlarm
  BY DEF IInv
<1> QED
  BY Inductive, <1>1, PTL
=============================================================================

----------------------- MODULE AlarmRefinement_proofs -----------------------
(***************************************************************************)
(* Proof that the engine implements AlarmLifecycle, the specification the  *)
(* links of the mails and the web push are built on: whatever evaluations, *)
(* ticks, people and restarts do in between, what stands for a check moves *)
(* as AlarmLifecycle says, or not at all.                                  *)
(***************************************************************************)
EXTENDS AlarmEngine_proofs

-----------------------------------------------------------------------------
(* What stands for a check *)

\* What the alarm row a shows of the check it is open for.
Seen(a) == [alarm |-> TRUE, severity |-> SevRank[alarms[a].severity],
            acked |-> is_acked(a), cause |-> alarms[a].suppressed_by]

View == [c \in Check |-> Standing(c)]

\* The one open row of a check is what stands for it.
LEMMA StandingIsSeen ==
  ASSUME OneOpenAlarm, NEW c \in Check, NEW a \in OpenFor(c)
  PROVE  OpenFor(c) = {a} /\ Standing(c) = Seen(a)
<1>1. OpenFor(c) = {a}
  BY DEF OneOpenAlarm, OpenFor
<1>2. (CHOOSE b \in OpenFor(c) : TRUE) = a
  BY <1>1
<1> QED
  BY <1>1, <1>2 DEF Standing, Seen

LEMMA StandingIsSeenNext ==
  ASSUME OneOpenAlarm', NEW c \in Check, NEW a \in OpenFor(c)'
  PROVE  OpenFor(c)' = {a} /\ Standing(c)' = Seen(a)'
<1>1. OpenFor(c)' = {a}
  BY DEF OneOpenAlarm, OpenFor
<1>2. (CHOOSE b \in OpenFor(c)' : TRUE) = a
  BY <1>1
<1> QED
  BY <1>1, <1>2 DEF Standing, Seen

\* A check whose open row stays, and shows the same, sees nothing.
LEMMA SameStanding ==
  ASSUME OneOpenAlarm, OneOpenAlarm', NEW c \in Check, OpenFor(c)' = OpenFor(c),
         \A a \in OpenFor(c) : Seen(a)' = Seen(a)
  PROVE  Standing(c)' = Standing(c)
<1>1. CASE OpenFor(c) = {}
  BY <1>1 DEF Standing
<1>2. ASSUME NEW a \in OpenFor(c) PROVE Standing(c)' = Standing(c)
  BY <1>2, StandingIsSeen, StandingIsSeenNext
<1> QED
  BY <1>1, <1>2

\* A step that changes neither rows nor acks is none of AlarmLifecycle.
LEMMA NothingSeen ==
  ASSUME UNCHANGED <<alarms, alarm_acks>>
  PROVE  View' = View
BY DEF View, Standing, OpenFor, IsOpen, is_acked

\* A step that changes one row only, and keeps its check, is seen by that check
\* only, and only if the row is open.
LEMMA OneRowSeen ==
  ASSUME OneOpenAlarm, OneOpenAlarm', RowsHaveChecks, NEW a \in Alarm, NEW c,
         alarms[a].check = c, alarms'[a].check = c,
         ~IsOpen(a) => ~IsOpen(a)',
         \A b \in Alarm \ {a} : alarms'[b] = alarms[b] /\ alarm_acks'[b] = alarm_acks[b]
  PROVE  /\ ~IsOpen(a) => View' = View
         /\ IsOpen(a) => /\ c \in Check /\ Standing(c) = Seen(a)
                         /\ View' = [View EXCEPT ![c] = Standing(c)']
                         /\ IF IsOpen(a)' THEN Standing(c)' = Seen(a)' ELSE OpenFor(c)' = {}
<1>1. ASSUME NEW d \in Check, IsOpen(a) => d # c PROVE Standing(d)' = Standing(d)
  <2>1. OpenFor(d)' = OpenFor(d) /\ a \notin OpenFor(d)
    BY <1>1 DEF OpenFor, IsOpen
  <2>2. \A b \in OpenFor(d) : Seen(b)' = Seen(b)
    BY <2>1 DEF OpenFor, Seen, is_acked
  <2> QED BY <2>1, <2>2, SameStanding
<1>2. ~IsOpen(a) => View' = View
  BY <1>1 DEF View
<1>3. ASSUME IsOpen(a)
      PROVE  /\ c \in Check /\ Standing(c) = Seen(a)
             /\ View' = [View EXCEPT ![c] = Standing(c)']
             /\ IF IsOpen(a)' THEN Standing(c)' = Seen(a)' ELSE OpenFor(c)' = {}
  <2>1. c \in Check /\ a \in OpenFor(c)
    BY <1>3 DEF RowsHaveChecks, IsOpen, OpenFor
  <2>2. OpenFor(c) = {a} /\ Standing(c) = Seen(a)
    BY <2>1, StandingIsSeen
  <2>3. View' = [View EXCEPT ![c] = Standing(c)']
    BY <1>1, <2>1 DEF View
  <2>4. IsOpen(a)' => a \in OpenFor(c)'
    BY DEF OpenFor
  <2>5. IsOpen(a)' => Standing(c)' = Seen(a)'
    BY <2>1, <2>4, StandingIsSeenNext
  <2>6. ~IsOpen(a)' => OpenFor(c)' = {}
    BY <2>2 DEF OpenFor, IsOpen
  <2> QED BY <2>1, <2>2, <2>3, <2>5, <2>6
<1> QED
  BY <1>2, <1>3

-----------------------------------------------------------------------------
(* The kinds of change a row goes through *)

\* What a change of one field makes of what stands.
LEMMA OneFieldSeen ==
  ASSUME NEW c \in Check, NEW now
  PROVE  /\ [View EXCEPT ![c].severity = now]
              = [View EXCEPT ![c] = [alarm |-> Standing(c).alarm, severity |-> now,
                                     acked |-> Standing(c).acked, cause |-> Standing(c).cause]]
         /\ [View EXCEPT ![c].acked = now]
              = [View EXCEPT ![c] = [alarm |-> Standing(c).alarm, acked |-> now,
                                     severity |-> Standing(c).severity,
                                     cause |-> Standing(c).cause]]
         /\ [View EXCEPT ![c].cause = now]
              = [View EXCEPT ![c] = [alarm |-> Standing(c).alarm, cause |-> now,
                                     severity |-> Standing(c).severity,
                                     acked |-> Standing(c).acked]]
<1>1. View[c] = Standing(c) /\ View = [d \in Check |-> View[d]]
  BY DEF View
<1>2. PICK alarm, severity, acked, cause :
        Standing(c) = [alarm |-> alarm, severity |-> severity, acked |-> acked,
                       cause |-> cause]
  BY DEF Standing
<1>3. Standing(c) \in [alarm : {alarm}, severity : {severity}, acked : {acked}, cause : {cause}]
  BY <1>2
<1>4. /\ [Standing(c) EXCEPT !.severity = now]
           = [alarm |-> alarm, severity |-> now, acked |-> acked, cause |-> cause]
      /\ [View EXCEPT ![c].severity = now]
           = [View EXCEPT ![c] = [Standing(c) EXCEPT !.severity = now]]
  BY <1>1, <1>3
<1>5. /\ [Standing(c) EXCEPT !.acked = now]
           = [alarm |-> alarm, severity |-> severity, acked |-> now, cause |-> cause]
      /\ [View EXCEPT ![c].acked = now]
           = [View EXCEPT ![c] = [Standing(c) EXCEPT !.acked = now]]
  BY <1>1, <1>3
<1>6. /\ [Standing(c) EXCEPT !.cause = now]
           = [alarm |-> alarm, severity |-> severity, acked |-> acked, cause |-> now]
      /\ [View EXCEPT ![c].cause = now]
           = [View EXCEPT ![c] = [Standing(c) EXCEPT !.cause = now]]
  BY <1>1, <1>3
<1> QED
  BY <1>3, <1>4, <1>5, <1>6

\* A closing is seen as one, or closes nothing.
LEMMA CloseSeen ==
  ASSUME IInv, IInv', NEW a \in Alarm, close_alarm(a), UNCHANGED alarm_acks
  PROVE  [Lifecycle!Next]_View
<1>a. /\ alarms \in [Alarm -> Row] /\ OneOpenAlarm /\ OneOpenAlarm' /\ RowsHaveChecks
  BY DEF IInv, TypeOK, StoreTypeOK
<1> PICK c : c = alarms[a].check
  OBVIOUS
<1>1. /\ alarms'[a].check = c /\ ~IsOpen(a)'
      /\ \A b \in Alarm \ {a} : alarms'[b] = alarms[b] /\ alarm_acks'[b] = alarm_acks[b]
  BY <1>a DEF close_alarm, IsOpen, Row
<1>2. CASE ~IsOpen(a)
  BY <1>a, <1>1, <1>2, OneRowSeen
<1>3. CASE IsOpen(a)
  <2>1. /\ c \in Check /\ Standing(c) = Seen(a) /\ OpenFor(c)' = {}
        /\ View' = [View EXCEPT ![c] = Standing(c)']
    BY <1>a, <1>1, <1>3, OneRowSeen
  <2>2. Standing(c)' = Lifecycle!Quiet
    BY <2>1 DEF Standing, Lifecycle!Quiet
  <2>3. Standing(c).alarm
    BY <2>1 DEF Seen
  <2>4. Lifecycle!Close(c)
    BY <2>1, <2>2, <2>3 DEF Lifecycle!Close, View
  <2> QED BY <2>1, <2>4 DEF Lifecycle!Next
<1> QED
  BY <1>2, <1>3

\* A severity that does not fall worsens what stands, or leaves it.
LEMMA SeveritySeen ==
  ASSUME IInv, IInv', NEW a \in Alarm, NEW sev \in Severity, update_alarm_severity(a, sev),
         SevRank[sev] >= SevRank[alarms[a].severity], alarms[a].suppressed_by = NoCheck,
         UNCHANGED alarm_acks
  PROVE  [Lifecycle!Next]_View
<1>a. /\ alarms \in [Alarm -> Row] /\ OneOpenAlarm /\ OneOpenAlarm' /\ RowsHaveChecks
  BY DEF IInv, TypeOK, StoreTypeOK
<1> PICK c : c = alarms[a].check
  OBVIOUS
<1>1. /\ alarms'[a].check = c /\ IsOpen(a)' = IsOpen(a)
      /\ alarms'[a].severity = sev /\ alarms'[a].suppressed_by = NoCheck
      /\ \A b \in Alarm \ {a} : alarms'[b] = alarms[b] /\ alarm_acks'[b] = alarm_acks[b]
  BY <1>a DEF update_alarm_severity, IsOpen, Row
<1>2. CASE ~IsOpen(a)
  BY <1>a, <1>1, <1>2, OneRowSeen
<1>3. CASE IsOpen(a)
  <2>1. /\ c \in Check /\ Standing(c) = Seen(a) /\ Standing(c)' = Seen(a)'
        /\ View' = [View EXCEPT ![c] = Standing(c)']
    BY <1>a, <1>1, <1>3, OneRowSeen
  <2>2. SevRank[sev] \in 0 .. 2 /\ SevRank[alarms[a].severity] \in 0 .. 2
    BY <1>a DEF SevRank, Severity, Row
  <2>3. /\ Standing(c) = [alarm |-> TRUE, severity |-> SevRank[alarms[a].severity],
                          acked |-> alarm_acks[a].live, cause |-> NoCheck]
        /\ Standing(c)' = [alarm |-> TRUE, severity |-> SevRank[sev],
                           acked |-> alarm_acks[a].live, cause |-> NoCheck]
    BY <1>1, <2>1 DEF Seen, is_acked
  <2>4. CASE SevRank[sev] = SevRank[alarms[a].severity]
    <3>1. View' = View
      BY <2>1, <2>3, <2>4 DEF View
    <3> QED BY <3>1
  <2>5. CASE SevRank[sev] > SevRank[alarms[a].severity]
    <3>1. SevRank[sev] \in 1 .. 2
      BY <2>2, <2>5
    <3>2. View' = [View EXCEPT ![c].severity = SevRank[sev]]
      <4>1. [View EXCEPT ![c].severity = SevRank[sev]]
              = [View EXCEPT ![c] = [alarm |-> Standing(c).alarm, severity |-> SevRank[sev],
                                     acked |-> Standing(c).acked, cause |-> Standing(c).cause]]
        BY <2>1, OneFieldSeen
      <4>2. Standing(c)' = [alarm |-> Standing(c).alarm, severity |-> SevRank[sev],
                            acked |-> Standing(c).acked, cause |-> Standing(c).cause]
        BY <2>3
      <4> QED BY <2>1, <4>1, <4>2
    <3>3. Standing(c).alarm /\ Standing(c).cause = NoCheck /\ SevRank[sev] > Standing(c).severity
      BY <2>3, <2>5
    <3>4. Lifecycle!Worsen(c)
      BY <2>1, <3>1, <3>2, <3>3 DEF Lifecycle!Worsen, View
    <3> QED BY <2>1, <3>4 DEF Lifecycle!Next
  <2> QED BY <2>2, <2>4, <2>5
<1> QED
  BY <1>2, <1>3

\* An attribution moves only while there is one.
LEMMA CauseSeen ==
  ASSUME IInv, IInv', NEW a \in Alarm, NEW cause \in Check \cup {NoCheck},
         update_alarm_suppression(a, cause), alarms[a].suppressed_by # NoCheck,
         UNCHANGED alarm_acks
  PROVE  [Lifecycle!Next]_View
<1>a. /\ alarms \in [Alarm -> Row] /\ OneOpenAlarm /\ OneOpenAlarm' /\ RowsHaveChecks
  BY DEF IInv, TypeOK, StoreTypeOK
<1> PICK c : c = alarms[a].check
  OBVIOUS
<1>1. /\ alarms'[a].check = c /\ IsOpen(a)' = IsOpen(a)
      /\ alarms'[a].severity = alarms[a].severity /\ alarms'[a].suppressed_by = cause
      /\ \A b \in Alarm \ {a} : alarms'[b] = alarms[b] /\ alarm_acks'[b] = alarm_acks[b]
  BY <1>a DEF update_alarm_suppression, IsOpen, Row
<1>2. CASE ~IsOpen(a)
  BY <1>a, <1>1, <1>2, OneRowSeen
<1>3. CASE IsOpen(a)
  <2>1. /\ c \in Check /\ Standing(c) = Seen(a) /\ Standing(c)' = Seen(a)'
        /\ View' = [View EXCEPT ![c] = Standing(c)']
    BY <1>a, <1>1, <1>3, OneRowSeen
  <2>2. /\ Standing(c) = [alarm |-> TRUE, severity |-> SevRank[alarms[a].severity],
                          acked |-> alarm_acks[a].live, cause |-> alarms[a].suppressed_by]
        /\ Standing(c)' = [alarm |-> TRUE, severity |-> SevRank[alarms[a].severity],
                           acked |-> alarm_acks[a].live, cause |-> cause]
    BY <1>1, <2>1 DEF Seen, is_acked
  <2>3. View' = [View EXCEPT ![c].cause = cause]
    <3>1. [View EXCEPT ![c].cause = cause]
            = [View EXCEPT ![c] = [alarm |-> Standing(c).alarm, cause |-> cause,
                                   severity |-> Standing(c).severity,
                                   acked |-> Standing(c).acked]]
      BY <2>1, OneFieldSeen
    <3>2. Standing(c)' = [alarm |-> Standing(c).alarm, cause |-> cause,
                          severity |-> Standing(c).severity,
                          acked |-> Standing(c).acked]
      BY <2>2
    <3> QED BY <2>1, <3>1, <3>2
  <2>4. Standing(c).alarm /\ Standing(c).cause # NoCheck
    BY <2>1 DEF Seen
  <2>5. Lifecycle!Reattribute(c)
    BY <2>1, <2>3, <2>4 DEF Lifecycle!Reattribute, View
  <2> QED BY <2>1, <2>5 DEF Lifecycle!Next
<1> QED
  BY <1>2, <1>3

\* An ack, a revocation and a lapse touch the ack of one row.
LEMMA AckSeen ==
  ASSUME IInv, IInv', NEW a \in Alarm, ack_alarm(a) \/ unack_alarm(a), UNCHANGED alarms
  PROVE  [Lifecycle!Next]_View
<1>a. /\ OneOpenAlarm /\ OneOpenAlarm' /\ RowsHaveChecks
      /\ alarm_acks \in [Alarm -> [ever : BOOLEAN, live : BOOLEAN, severity : Severity,
                                   status : Verdict \cup {"none"}]]
  BY DEF IInv, TypeOK, StoreTypeOK
<1> PICK c : c = alarms[a].check
  OBVIOUS
<1>1. /\ alarms'[a].check = c /\ IsOpen(a)' = IsOpen(a)
      /\ alarms'[a] = alarms[a] /\ alarm_acks'[a].live \in BOOLEAN
      /\ \A b \in Alarm \ {a} : alarms'[b] = alarms[b] /\ alarm_acks'[b] = alarm_acks[b]
  <2>1. alarms'[a].check = c /\ alarms'[a] = alarms[a] /\ IsOpen(a)' = IsOpen(a)
    BY DEF IsOpen
  <2>2. CASE ack_alarm(a)
    BY <1>a, <2>1, <2>2 DEF ack_alarm
  <2>3. CASE unack_alarm(a)
    BY <1>a, <2>1, <2>3 DEF unack_alarm
  <2> QED BY <2>2, <2>3
<1>2. CASE ~IsOpen(a)
  BY <1>a, <1>1, <1>2, OneRowSeen
<1>3. CASE IsOpen(a)
  <2>1. /\ c \in Check /\ Standing(c) = Seen(a) /\ Standing(c)' = Seen(a)'
        /\ View' = [View EXCEPT ![c] = Standing(c)']
    BY <1>a, <1>1, <1>3, OneRowSeen
  <2>2. /\ Standing(c) = [alarm |-> TRUE, severity |-> SevRank[alarms[a].severity],
                          acked |-> alarm_acks[a].live, cause |-> alarms[a].suppressed_by]
        /\ Standing(c)' = [alarm |-> TRUE, severity |-> SevRank[alarms[a].severity],
                           acked |-> alarm_acks'[a].live, cause |-> alarms[a].suppressed_by]
    BY <1>1, <2>1 DEF Seen, is_acked
  <2>3. View' = [View EXCEPT ![c].acked = alarm_acks'[a].live]
    <3>1. [View EXCEPT ![c].acked = alarm_acks'[a].live]
            = [View EXCEPT ![c] = [alarm |-> Standing(c).alarm, acked |-> alarm_acks'[a].live,
                                   severity |-> Standing(c).severity,
                                   cause |-> Standing(c).cause]]
      BY <2>1, OneFieldSeen
    <3>2. Standing(c)' = [alarm |-> Standing(c).alarm, acked |-> alarm_acks'[a].live,
                          severity |-> Standing(c).severity,
                          cause |-> Standing(c).cause]
      BY <2>2
    <3> QED BY <2>1, <3>1, <3>2
  <2>4. Standing(c).alarm
    BY <2>1 DEF Seen
  <2>5. Lifecycle!AckOrUnack(c)
    BY <1>1, <2>1, <2>3, <2>4 DEF Lifecycle!AckOrUnack, View
  <2> QED BY <2>1, <2>5 DEF Lifecycle!Next
<1> QED
  BY <1>2, <1>3

\* A new row opens what did not stand: unacked, and below "critical".
LEMMA InsertSeen ==
  ASSUME IInv, IInv', NEW c \in Check, NEW a \in Alarm, InsertAlarm(c, a)
  PROVE  [Lifecycle!Next]_View
<1>a. /\ alarms \in [Alarm -> Row] /\ OneOpenAlarm /\ OneOpenAlarm'
      /\ alarm_acks \in [Alarm -> [ever : BOOLEAN, live : BOOLEAN, severity : Severity,
                                   status : Verdict \cup {"none"}]]
      /\ eval \in [Check -> EvalState]
  BY DEF IInv, TypeOK, StoreTypeOK, EvalTypeOK
<1> DEFINE sev == severity_for_status(eval[c].verdict)
           cause == eval[c].suppressed_by
<1>1. /\ OpenFor(c) = {} /\ ~IsOpen(a)
      /\ open_alarm(a, c, eval[c].verdict, sev, cause)
  BY DEF IInv, EvalKnows, InsertAlarm, EvalOpen, Reusable, IsOpen
<1>2. cause \in Check \cup {NoCheck} /\ SevRank[sev] \in {0, 1}
  <2>1. eval[c] \in EvalState
    BY <1>a
  <2>2. sev \in {"info", "warn"}
    BY DEF severity_for_status
  <2> QED BY <2>1, <2>2 DEF EvalState, SevRank, Severity
<1>3. /\ alarms'[a].state = "open" /\ alarms'[a].check = c
      /\ alarms'[a].severity = sev /\ alarms'[a].suppressed_by = cause
      /\ alarm_acks'[a].live = FALSE
      /\ \A b \in Alarm \ {a} : alarms'[b] = alarms[b] /\ alarm_acks'[b] = alarm_acks[b]
  BY <1>a, <1>1 DEF open_alarm, NoAck
<1>4. ASSUME NEW d \in Check, d # c PROVE Standing(d)' = Standing(d)
  <2>1. OpenFor(d)' = OpenFor(d) /\ a \notin OpenFor(d)
    BY <1>1, <1>3, <1>4 DEF OpenFor, IsOpen
  <2>2. \A b \in OpenFor(d) : Seen(b)' = Seen(b)
    BY <1>3, <2>1 DEF OpenFor, Seen, is_acked
  <2> QED BY <1>a, <2>1, <2>2, SameStanding
<1>5. Standing(c)' = [alarm |-> TRUE, severity |-> SevRank[sev], acked |-> FALSE,
                      cause |-> cause]
  <2>1. a \in OpenFor(c)'
    BY <1>3 DEF OpenFor, IsOpen
  <2>2. Standing(c)' = Seen(a)'
    BY <1>a, <2>1, StandingIsSeenNext
  <2> QED BY <1>3, <2>2 DEF Seen, is_acked
<1>6. View' = [View EXCEPT ![c] = Standing(c)']
  BY <1>4 DEF View
<1>7. ~Standing(c).alarm
  BY <1>1 DEF Standing
<1>8. Lifecycle!Open(c)
  BY <1>2, <1>5, <1>6, <1>7 DEF Lifecycle!Open, View
<1> QED
  BY <1>8 DEF Lifecycle!Next

\* Time changes what nobody outside sees: open rows stay, with their acks.
LEMMA ElapseSeen ==
  ASSUME IInv, IInv', Elapse
  PROVE  [Lifecycle!Next]_View
<1>a. /\ alarms \in [Alarm -> Row] /\ OneOpenAlarm /\ OneOpenAlarm'
  BY DEF IInv, TypeOK, StoreTypeOK
<1>1. ASSUME NEW b \in Alarm
      PROVE  /\ IsOpen(b)' = IsOpen(b)
             /\ IsOpen(b) => /\ alarms'[b].check = alarms[b].check
                             /\ alarms'[b].severity = alarms[b].severity
                             /\ alarms'[b].suppressed_by = alarms[b].suppressed_by
                             /\ alarm_acks'[b] = alarm_acks[b]
  <2>1. alarms'[b] = IF IsOpen(b) THEN [alarms[b] EXCEPT !.age = Older(@)] ELSE UnusedRow
    BY DEF Elapse, StoreElapse
  <2>2. alarm_acks'[b] = IF IsOpen(b) THEN alarm_acks[b] ELSE NoAck
    BY DEF Elapse, StoreElapse
  <2> QED BY <1>a, <2>1, <2>2 DEF Row, IsOpen, UnusedRow
<1>2. ASSUME NEW d \in Check PROVE Standing(d)' = Standing(d)
  <2>1. OpenFor(d)' = OpenFor(d)
    BY <1>1 DEF OpenFor
  <2>2. \A b \in OpenFor(d) : Seen(b)' = Seen(b)
    BY <1>1 DEF OpenFor, Seen, is_acked
  <2> QED BY <1>a, <2>1, <2>2, SameStanding
<1> QED
  BY <1>2 DEF View

-----------------------------------------------------------------------------
(* The row in hand *)

\* What the ticker read of the attribution when it took the row up still holds
\* when it acts on it: nobody else writes that column.
InHand ==
  /\ tick.pc = "severity" => alarms[tick.alarm].suppressed_by = NoCheck
  /\ tick.pc = "cause" => alarms[tick.alarm].suppressed_by # NoCheck

RefInv == IInv /\ InHand

\* The steps of the ticker that lead to a severity, or to an attribution.
LEMMA TickerInHand ==
  ASSUME RefInv, TickerStep
  PROVE  InHand'
<1>a. tick \in TickState /\ alarms \in [Alarm -> Row] /\ TickHoldsRows
  BY DEF RefInv, IInv, TypeOK, StoreTypeOK, TickTypeOK
<1>b. tick'.pc \notin {"severity", "cause"} => InHand'
  BY DEF InHand
<1>1. ASSUME NEW a \in Alarm, TickTake(a) PROVE InHand'
  <2>1. /\ alarms' = alarms /\ tick'.alarm = a
        /\ tick'.pc = IF alarms[a].suppressed_by = NoCheck THEN "severity" ELSE "cause"
    BY <1>a, <1>1 DEF TickTake, TickState, engineVars, storeVars
  <2> QED BY <2>1 DEF InHand
<1>2. CASE Unsuppress
  <2>1. tick.alarm \in Alarm
    BY <1>a, <1>2 DEF Unsuppress, Processing, TickHoldsRows
  <2>2. tick'.pc = "severity" /\ tick'.alarm = tick.alarm
    BY <1>a, <1>2 DEF Unsuppress, GoTo, TickState
  <2>3. alarms'[tick.alarm].suppressed_by = NoCheck
    BY <1>a, <1>2, <2>1 DEF Unsuppress, update_alarm_suppression, Row
  <2> QED BY <2>2, <2>3 DEF InHand
<1>3. CASE \/ TickBegin \/ SweepSelect \/ (\E a \in Alarm : SweepClose(a))
           \/ SweepDone \/ SweepRaises \/ TickReadGates \/ TickReadLatest
           \/ TickReadLatestFails \/ TickEnd
  <2>1. CASE TickBegin
    <3>1. tick'.pc \in {"sweep", "gates"}
      BY <2>1 DEF TickBegin, IdleTick
    <3> QED BY <1>b, <3>1
  <2>2. CASE TickReadGates \/ TickEnd
    <3>1. CASE tick' = IdleTick
      BY <1>b, <3>1 DEF IdleTick
    <3>2. CASE tick' # IdleTick
      <4>1. tick'.pc = "latest"
        BY <1>a, <2>2, <3>2 DEF TickReadGates, TickEnd, TickState
      <4> QED BY <1>b, <4>1
    <3> QED BY <3>1, <3>2
  <2>3. CASE \/ SweepSelect \/ (\E a \in Alarm : SweepClose(a)) \/ SweepDone \/ SweepRaises
             \/ TickReadLatest \/ TickReadLatestFails
    <3>1. tick'.pc \in {"sweeping", "gates", "next"}
      BY <1>a, <2>3 DEF SweepSelect, SweepClose, SweepDone, SweepRaises, SweepStamp,
                        TickReadLatest, TickReadLatestFails, GoTo, TickState
    <3> QED BY <1>b, <3>1
  <2> QED BY <1>3, <2>1, <2>2, <2>3
<1>4. CASE \/ StaysSuppressed \/ Skipped \/ AckHonored \/ AckUnreadable \/ StepsEnd
           \/ ProcessRaises
  <2>1. tick'.pc = "next"
    BY <1>a, <1>4 DEF StaysSuppressed, Skipped, AckHonored, AckUnreadable, StepsEnd,
                      ProcessRaises, ProcessNext, TickState
  <2> QED BY <1>b, <2>1
<1>5. CASE Reassess \/ ReadAck \/ AckOutgrown \/ LapseAck \/ Record
  <2>1. tick'.pc \in {"ack", "covers", "step", "lapse", "dispatch"}
    BY <1>a, <1>5 DEF Reassess, ReadAck, AckOutgrown, LapseAck, Record, GoTo, TickState
  <2> QED BY <1>b, <2>1
<1>6. CASE \/ StepSkip \/ StepFire \/ Withhold \/ StepServed
           \/ \E r \in Receiver : ReceiverSkipped(r) \/ Send(r) \/ SendFails(r)
  <2>1. tick'.pc \in {"step", "withhold", "dispatch", "record"}
    BY <1>a, <1>6 DEF StepSkip, StepFire, Withhold, StepServed, NextStep, ReceiverSkipped,
                      Send, SendFails, TickState
  <2> QED BY <1>b, <2>1
<1> QED
  BY <1>1, <1>2, <1>3, <1>4, <1>5, <1>6 DEF TickerStep, Tick

LEMMA RefInvInit == Init => RefInv
<1>1. Init => InHand
  BY DEF Init, TickInit, IdleTick, InHand
<1> QED
  BY <1>1, InductiveInit DEF RefInv

LEMMA RefInvStep == RefInv /\ [Next]_vars => RefInv'
<1> SUFFICES ASSUME RefInv, [Next]_vars PROVE RefInv'
  OBVIOUS
<1>a. IInv /\ IInv' /\ InHand
  BY InductiveStep DEF RefInv
<1>b. alarms \in [Alarm -> Row] /\ TickHoldsRows
  BY <1>a DEF IInv, TypeOK, StoreTypeOK
<1>c. ASSUME tick' = tick,
             tick.pc \in {"severity", "cause"} =>
               alarms'[tick.alarm].suppressed_by = alarms[tick.alarm].suppressed_by
      PROVE  InHand'
  BY <1>a, <1>c DEF InHand
<1>1. ASSUME NEW c \in Check, EvaluationButInsert(c), UNCHANGED tickerVars PROVE InHand'
  <2>1. CASE EvalClose(c)
    <3>1. \A a \in Alarm : alarms'[a].suppressed_by = alarms[a].suppressed_by
      BY <1>b, <2>1 DEF EvalClose, close_alarm, Row
    <3>2. tick.pc \in {"severity", "cause"} => tick.alarm \in Alarm
      BY <1>b DEF TickHoldsRows, Processing
    <3> QED BY <1>1, <1>c, <3>1, <3>2 DEF tickerVars
  <2>2. CASE ~EvalClose(c)
    <3>1. UNCHANGED alarms
      BY <1>1, <2>2 DEF EvaluationButInsert, Result, ResultNotPersisted, EvalIgnore,
        EvalFindToClose, EvalFindNone, EvalHoldDown, EvalHoldDownFails, EvalLatest, EvalEmit,
        EvalRaises, storeVars
    <3> QED BY <1>1, <1>c, <3>1 DEF tickerVars
  <2> QED BY <2>1, <2>2
<1>2. ASSUME NEW c \in Check, NEW a \in Alarm, InsertAlarm(c, a) PROVE InHand'
  <2>1. tick' = tick /\ tick.alarm # a
    BY <1>2 DEF InsertAlarm, Reusable
  <2>2. tick.pc \in {"severity", "cause"} => tick.alarm \in Alarm
    BY <1>b DEF TickHoldsRows, Processing
  <2>3. \A b \in Alarm \ {a} : alarms'[b] = alarms[b]
    BY <1>b, <1>2 DEF InsertAlarm, EvalOpen, open_alarm
  <2> QED BY <1>c, <2>1, <2>2, <2>3
<1>3. ASSUME TickerStep PROVE InHand'
  BY <1>3, TickerInHand
<1>4. ASSUME AckStep \/ SwitchStep \/ UNCHANGED vars PROVE InHand'
  BY <1>4, <1>c DEF AckStep, UserAck, UserUnack, SwitchStep, ToggleSilence, ToggleTier,
                    engineVars, storeVars, tickerVars, vars
<1>5. ASSUME RestartStep \/ Elapse PROVE InHand'
  <2>1. tick'.pc = "idle"
    BY <1>5 DEF RestartStep, Restart, Elapse, IdleTick
  <2> QED BY <2>1 DEF InHand
<1>6. InHand'
  BY <1>1, <1>2, <1>3, <1>4, <1>5, StepKinds DEF EvaluationStep, InsertStep
<1> QED
  BY <1>a, <1>6 DEF RefInv

-----------------------------------------------------------------------------
(* The refinement *)

LEMMA ViewInit == Init => Lifecycle!Init
<1> SUFFICES ASSUME Init PROVE Lifecycle!Init
  OBVIOUS
<1>1. \A c \in Check : OpenFor(c) = {}
  BY DEF Init, StoreInit, UnusedRow, OpenFor, IsOpen
<1>2. \A c \in Check : Standing(c) = Lifecycle!Quiet
  BY <1>1 DEF Standing, Lifecycle!Quiet
<1> QED
  BY <1>2 DEF Lifecycle!Init

\* Most steps of the ticker show nothing outside; the others are the closing of
\* the sweep, the update of the row in hand, and the lapse of an ack.
LEMMA TickerSeen ==
  ASSUME RefInv, IInv', TickerStep
  PROVE  [Lifecycle!Next]_View
<1>a. IInv /\ InHand /\ TickHoldsRows /\ TypeOK
  BY DEF RefInv, IInv
<1>1. ASSUME NEW a \in Alarm, SweepClose(a) PROVE [Lifecycle!Next]_View
  BY <1>1, <1>a, CloseSeen DEF SweepClose
<1>2. CASE StaysSuppressed
  <2>1. tick.alarm \in Alarm /\ alarms[tick.alarm].suppressed_by # NoCheck
    BY <1>2, <1>a DEF StaysSuppressed, Processing, TickHoldsRows, InHand
  <2>2. CASE UNCHANGED alarms
    BY <1>2, <2>2, NothingSeen DEF StaysSuppressed
  <2>3. ASSUME NEW d \in StillSuppressedBy, update_alarm_suppression(tick.alarm, d)
        PROVE  [Lifecycle!Next]_View
    <3>1. d \in Check
      BY <2>3, SuppressionInCheck DEF StillSuppressedBy
    <3> QED BY <1>2, <1>a, <2>1, <2>3, <3>1, CauseSeen DEF StaysSuppressed
  <2> QED BY <1>2, <2>2, <2>3 DEF StaysSuppressed
<1>3. CASE Unsuppress
  <2>1. tick.alarm \in Alarm /\ alarms[tick.alarm].suppressed_by # NoCheck
    BY <1>3, <1>a DEF Unsuppress, Processing, TickHoldsRows, InHand
  <2> QED BY <1>3, <1>a, <2>1, CauseSeen DEF Unsuppress
<1>4. CASE Reassess
  <2>1. tick.alarm \in Alarm /\ alarms[tick.alarm].suppressed_by = NoCheck
    BY <1>4, <1>a DEF Reassess, Processing, TickHoldsRows, InHand
  <2>2. compute_severity \in Severity
        /\ SevRank[compute_severity] >= SevRank[alarms[tick.alarm].severity]
    BY <1>a, <2>1, SeverityComputed DEF Current
  <2> QED BY <1>4, <1>a, <2>1, <2>2, SeveritySeen DEF Reassess
<1>5. CASE LapseAck
  <2>1. tick.alarm \in Alarm
    BY <1>5, <1>a DEF LapseAck, Processing, TickHoldsRows
  <2> QED BY <1>5, <1>a, <2>1, AckSeen DEF LapseAck
<1>6. CASE UNCHANGED <<alarms, alarm_acks>>
  BY <1>6, NothingSeen
<1>7. \/ \E a \in Alarm : SweepClose(a)
      \/ StaysSuppressed \/ Unsuppress \/ Reassess \/ LapseAck
      \/ UNCHANGED <<alarms, alarm_acks>>
  BY DEF TickerStep, Tick, TickBegin, SweepSelect, SweepDone, SweepRaises,
    SweepStamp, TickReadGates, TickReadLatest, TickReadLatestFails, TickTake, TickEnd,
    Skipped, ReadAck, AckHonored, AckOutgrown,
    AckUnreadable, StepsEnd, StepSkip, StepFire, Withhold, ReceiverSkipped,
    Send, SendFails, Record, StepServed, ProcessRaises, engineVars, storeVars
<1> QED
  BY <1>1, <1>2, <1>3, <1>4, <1>5, <1>6, <1>7

LEMMA ViewStep == RefInv /\ RefInv' /\ [Next]_vars => [Lifecycle!Next]_View
<1> SUFFICES ASSUME RefInv, RefInv', [Next]_vars PROVE [Lifecycle!Next]_View
  OBVIOUS
<1>a. IInv /\ IInv' /\ TypeOK /\ EvalKnows
  BY DEF RefInv, IInv
<1>1. ASSUME NEW c \in Check, EvaluationButInsert(c) PROVE [Lifecycle!Next]_View
  <2>1. CASE EvalClose(c)
    <3>1. eval[c].alarm \in Alarm
      BY <1>a, <2>1 DEF EvalClose, EvalKnows
    <3> QED BY <1>a, <2>1, <3>1, CloseSeen DEF EvalClose
  <2>2. CASE ~EvalClose(c)
    <3>1. UNCHANGED <<alarms, alarm_acks>>
      BY <1>1, <2>2 DEF EvaluationButInsert, Result, ResultNotPersisted, EvalIgnore,
        EvalFindToClose, EvalFindNone, EvalHoldDown, EvalHoldDownFails, EvalLatest, EvalEmit,
        EvalRaises, storeVars
    <3> QED BY <3>1, NothingSeen
  <2> QED BY <2>1, <2>2
<1>2. CASE InsertStep
  BY <1>2, <1>a, InsertSeen DEF InsertStep
<1>3. CASE TickerStep
  BY <1>3, <1>a, TickerSeen
<1>4. CASE AckStep
  BY <1>4, <1>a, AckSeen DEF AckStep, UserAck, UserUnack
<1>5. CASE SwitchStep \/ RestartStep \/ UNCHANGED vars
  <2>1. UNCHANGED <<alarms, alarm_acks>>
    BY <1>5 DEF SwitchStep, ToggleSilence, ToggleTier, RestartStep, Restart, engineVars,
                storeVars, vars
  <2> QED BY <2>1, NothingSeen
<1>6. CASE Elapse
  BY <1>6, <1>a, ElapseSeen
<1> QED
  BY <1>1, <1>2, <1>3, <1>4, <1>5, <1>6, StepKinds DEF EvaluationStep

\* The engine implements AlarmLifecycle: at most one alarm stands per check; it
\* opens unacked and below "critical"; while it stands it only gets worse, and
\* not while an upstream is blamed; once nothing upstream is blamed that stays
\* so; and the next alarm of the check never inherits the ack of this one.
THEOREM EngineImplementsLifecycle == Spec => ImplementsLifecycle
<1>1. RefInv /\ RefInv' /\ [Next]_vars => [Lifecycle!Next]_[c \in Check |-> Standing(c)]
  BY ViewStep DEF View
<1> QED
  BY RefInvInit, RefInvStep, ViewInit, <1>1, PTL DEF Spec, ImplementsLifecycle, Lifecycle!Spec
=============================================================================

----------------------------- MODULE AlarmFeed ------------------------------
(***************************************************************************)
(* The alarms as everything outside the engine meets them: rows that the   *)
(* engine opens, worsens and closes as AlarmLifecycle promises, one alarm  *)
(* of a check after another.  The web push, the links of the mails and the *)
(* dashboards are modelled against this promise, which AlarmEngine keeps   *)
(* (ImplementsLifecycle), instead of against the engine itself.            *)
(***************************************************************************)
EXTENDS Integers, FiniteSets

CONSTANTS
  Check, NoCheck,
  MaxOpenings  \* bound: alarms a check has one after another

ASSUME FeedAssumption == NoCheck \notin Check /\ MaxOpenings \in Nat

VARIABLES
  standing,  \* AlarmLifecycle's: what stands for each check
  opening    \* check -> how many alarms it has had, which numbers its latest one

feedVars == <<standing, opening>>

Engine == INSTANCE AlarmLifecycle

\* A row of the table alarms: the n-th alarm of a check.
Alarm == [check : Check, n : 1 .. MaxOpenings]

Latest(c) == [check |-> c, n |-> opening[c]]

\* The row is open; it is open and nobody has acked it (alarm_acks).
Stands(a) == standing[a.check].alarm /\ opening[a.check] = a.n
Actionable(a) == Stands(a) /\ ~standing[a.check].acked

FeedInit ==
  /\ Engine!Init
  /\ opening = [c \in Check |-> 0]

FeedOpen(c) ==
  /\ opening[c] < MaxOpenings
  /\ Engine!Open(c) /\ standing'[c].cause = NoCheck
  /\ opening' = [opening EXCEPT ![c] = @ + 1]

\* Everything else the engine and the people at the dashboard do to an alarm;
\* what is blamed for it concerns nobody here.
FeedChange(c) ==
  /\ Engine!Close(c) \/ Engine!Worsen(c) \/ Engine!AckOrUnack(c)
  /\ UNCHANGED opening

\* store.ack_alarm on a row that may have closed in the meantime.
FeedAck(a) ==
  /\ standing' = IF Stands(a)
                 THEN [standing EXCEPT ![a.check].acked = TRUE] ELSE standing
  /\ UNCHANGED opening
=============================================================================

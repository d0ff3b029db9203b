--------------------------- MODULE AlarmLifecycle ---------------------------
(***************************************************************************)
(* What the alarm engine promises of each check, whatever it does inside:  *)
(* a check has at most one alarm at a time; the alarm opens unacked, below *)
(* "critical"; it only gets worse while it stands, and not while an        *)
(* upstream cause is blamed for it; once nothing upstream is blamed, it    *)
(* stays that way; a new alarm never inherits the ack of the former one.   *)
(***************************************************************************)
EXTENDS Integers

CONSTANTS Check, NoCheck

VARIABLE standing  \* check -> the alarm that stands for it, if any

Quiet == [alarm |-> FALSE, severity |-> 0, acked |-> FALSE, cause |-> NoCheck]

Init == standing = [c \in Check |-> Quiet]

Open(c) ==
  /\ ~standing[c].alarm
  /\ \E severity \in {0, 1}, cause \in Check \cup {NoCheck} :
       standing' = [standing EXCEPT ![c] =
         [alarm |-> TRUE, severity |-> severity, acked |-> FALSE, cause |-> cause]]

Close(c) ==
  /\ standing[c].alarm
  /\ standing' = [standing EXCEPT ![c] = Quiet]

Worsen(c) ==
  /\ standing[c].alarm /\ standing[c].cause = NoCheck
  /\ \E severity \in 1 .. 2 :
       /\ severity > standing[c].severity
       /\ standing' = [standing EXCEPT ![c].severity = severity]

\* People ack and unack; the engine lets an ack lapse.
AckOrUnack(c) ==
  /\ standing[c].alarm
  /\ \E acked \in BOOLEAN : standing' = [standing EXCEPT ![c].acked = acked]

Reattribute(c) ==
  /\ standing[c].alarm /\ standing[c].cause # NoCheck
  /\ \E cause \in Check \cup {NoCheck} :
       standing' = [standing EXCEPT ![c].cause = cause]

Next == \E c \in Check : Open(c) \/ Close(c) \/ Worsen(c) \/ AckOrUnack(c)
                          \/ Reattribute(c)

Spec == Init /\ [][Next]_standing
=============================================================================

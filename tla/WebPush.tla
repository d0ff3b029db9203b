------------------------------ MODULE WebPush -------------------------------
(***************************************************************************)
(* Notifications to phones (push.py, its routes, and the listener          *)
(* _web_push of api/app.py).  An alarm that opens is announced once to the *)
(* listener, which looks at the silences, reads the subscriptions and      *)
(* works through them; a subscription may ask for a delay, after which a   *)
(* task of its own looks again at the subscription and the alarm, in two   *)
(* statements, and sends.  Devices come, go, die and change their routing  *)
(* meanwhile, and a restart forgets every task.                            *)
(***************************************************************************)
EXTENDS AlarmFeed

CONSTANTS
  Device,         \* endpoints
  Infrastructure, \* checks of layer 0 and canaries, which pass every pattern
  Wish,           \* the routings people ask for
  MaxRows,        \* bound: subscription rows a device has one after another
  MaxRestarts     \* bound: restarts of the process


VARIABLES
  device,    \* push_subscriptions: the row of each endpoint
  silence,   \* is a silence active that matches the alarms?
  announce,  \* alarm -> the listener at work on it
  deferred,  \* alarm, device -> the delayed task
  pushed,    \* alarm, device -> pushes that reached the device
  restarts,
  muted,     \* history: alarms under a silence ever since they opened
  moot       \* history: due tasks whose alarm has not been actionable since

pushVars ==
  <<device, silence, announce, deferred, pushed, restarts, muted, moot>>

\* A device's wishes: the lowest severity it wants, whether its patterns match
\* the check (an absent list matches anything), and whether it wants the delay.
Routing == [floor : 0 .. 1, matches : BOOLEAN, delayed : BOOLEAN]
ASSUME PushAssumption ==
  Infrastructure \subseteq Check /\ Wish \subseteq Routing /\ MaxRows \in Nat

AnyRouting == [floor |-> 0, matches |-> TRUE, delayed |-> FALSE]

IdleAnnounce == [pc |-> "idle", severity |-> 0, rows |-> <<>>, gone |-> {}]
NoTask == [pc |-> "none", id |-> 0]

PushInit ==
  /\ device = [d \in Device |->
       [id |-> 0, present |-> FALSE, dead |-> FALSE, routing |-> AnyRouting]]
  /\ silence = FALSE
  /\ announce = [a \in Alarm |-> IdleAnnounce]
  /\ deferred = [a \in Alarm |-> [d \in Device |-> NoTask]]
  /\ pushed = [a \in Alarm |-> [d \in Device |-> 0]]
  /\ restarts = 0
  /\ muted = {} /\ moot = {}

-----------------------------------------------------------------------------
(* The devices *)

\* INSERT ... ON CONFLICT (endpoint) DO UPDATE: a row that is there keeps its id
\* and its routing, whoever subscribes.
subscribe(d) ==
  /\ IF device[d].present
     THEN device' = [device EXCEPT ![d].dead = FALSE]
     ELSE /\ device[d].id < MaxRows
          /\ device' = [device EXCEPT ![d] =
               [id |-> @.id + 1, present |-> TRUE, dead |-> FALSE, routing |-> AnyRouting]]
  /\ UNCHANGED <<silence, announce, deferred, pushed, restarts>>

unsubscribe(d) ==
  /\ device[d].present
  /\ device' = [device EXCEPT ![d].present = FALSE]
  /\ UNCHANGED <<silence, announce, deferred, pushed, restarts>>

put_routing(d, routing) ==
  /\ device[d].present
  /\ device' = [device EXCEPT ![d].routing = routing]
  /\ UNCHANGED <<silence, announce, deferred, pushed, restarts>>

\* The browser drops the endpoint: the push service answers 404 or 410.
DeviceDies(d) ==
  /\ device[d].present /\ ~device[d].dead
  /\ device' = [device EXCEPT ![d].dead = TRUE]
  /\ UNCHANGED <<silence, announce, deferred, pushed, restarts>>

ToggleSilence ==
  /\ silence' = ~silence
  /\ UNCHANGED <<device, announce, deferred, pushed, restarts>>

-----------------------------------------------------------------------------
(* The listener, once per alarm that opens *)

PushAlarmOpens(c) ==
  /\ FeedOpen(c)
  /\ announce' = [announce EXCEPT ![[check |-> c, n |-> opening'[c]]] =
       [IdleAnnounce EXCEPT !.pc = "opened", !.severity = standing'[c].severity]]
  /\ UNCHANGED <<device, silence, deferred, pushed, restarts>>

\* Mutant of LookAtSilences: the listener trusts the ticker with silences.
AnnounceAnyway(a) ==
  /\ announce[a].pc = "opened"
  /\ announce' = [announce EXCEPT ![a].pc = "fetch"]
  /\ UNCHANGED <<device, silence, deferred, pushed, restarts>>

LookAtSilences(a) ==
  /\ announce[a].pc = "opened"
  /\ announce' = [announce EXCEPT ![a] =
       IF silence THEN IdleAnnounce ELSE [@ EXCEPT !.pc = "fetch"]]
  /\ UNCHANGED <<device, silence, deferred, pushed, restarts>>

\* A query raises: _web_push logs it and gives up.
ListenerRaises(a) ==
  /\ announce[a].pc \in {"opened", "fetch"}
  /\ announce' = [announce EXCEPT ![a] = IdleAnnounce]
  /\ UNCHANGED <<device, silence, deferred, pushed, restarts>>

FetchRows(a) ==
  /\ announce[a].pc = "fetch"
  /\ announce' = [announce EXCEPT
       ![a].pc = "send",
       ![a].rows = [d \in {e \in Device : device[e].present} |->
                      [id |-> device[d].id, routing |-> device[d].routing]]]
  /\ UNCHANGED <<device, silence, deferred, pushed, restarts>>

\* The severity in the payload is that of the opening.
_subscription_matches(routing, a) ==
  /\ announce[a].severity >= routing.floor
  /\ routing.matches \/ a.check \in Infrastructure

\* 404 and 410 are for rows to be deleted, any other failure is logged.
Answers(d) == IF device[d].dead THEN {"gone"} ELSE {"ok", "failed"}

\* One row of the list that was fetched; the table is not looked at again.
RowDone(a, d, gone) ==
  announce' = [announce EXCEPT
    ![a].rows = [e \in DOMAIN announce[a].rows \ {d} |-> announce[a].rows[e]],
    ![a].gone = @ \cup gone]

\* Filtered out, or off duty by a schedule of its own.
RowSkipped(a, d) ==
  /\ RowDone(a, d, {})
  /\ UNCHANGED <<device, silence, deferred, pushed, restarts>>

\* Mutant of RowDeferred: the loop does not continue with the next row.
RowDeferredAndSent(a, d) ==
  /\ announce[a].rows[d].routing.delayed
  /\ _subscription_matches(announce[a].rows[d].routing, a)
  /\ deferred' = [deferred EXCEPT ![a][d] = [pc |-> "asleep", id |-> announce[a].rows[d].id]]
  /\ pushed' = [pushed EXCEPT ![a][d] = @ + 1]
  /\ RowDone(a, d, {})
  /\ UNCHANGED <<device, silence, restarts>>

RowDeferred(a, d) ==
  /\ announce[a].rows[d].routing.delayed
  /\ _subscription_matches(announce[a].rows[d].routing, a)
  /\ deferred' = [deferred EXCEPT ![a][d] = [pc |-> "asleep", id |-> announce[a].rows[d].id]]
  /\ RowDone(a, d, {})
  /\ UNCHANGED <<device, silence, pushed, restarts>>

RowSent(a, d) ==
  /\ ~announce[a].rows[d].routing.delayed
  /\ _subscription_matches(announce[a].rows[d].routing, a)
  /\ \E answer \in Answers(d) :
       /\ pushed' = [pushed EXCEPT ![a][d] = @ + IF answer = "ok" THEN 1 ELSE 0]
       /\ RowDone(a, d, IF answer = "gone" THEN {<<d, announce[a].rows[d].id>>} ELSE {})
  /\ UNCHANGED <<device, silence, deferred, restarts>>

HandleRow(a, d) ==
  /\ announce[a].pc = "send" /\ d \in DOMAIN announce[a].rows
  /\ RowSkipped(a, d) \/ RowDeferred(a, d) \/ RowSent(a, d)

\* DELETE ... WHERE id = ANY(expired_ids), at the end of the fan-out.
DropGone(gone) ==
  device' = [d \in Device |-> IF <<d, device[d].id>> \in gone
                              THEN [device[d] EXCEPT !.present = FALSE] ELSE device[d]]

FanOutEnds(a) ==
  /\ announce[a].pc = "send" /\ DOMAIN announce[a].rows = {}
  /\ DropGone(announce[a].gone)
  /\ announce' = [announce EXCEPT ![a] = IdleAnnounce]
  /\ UNCHANGED <<silence, deferred, pushed, restarts>>

-----------------------------------------------------------------------------
(* The delayed task, _send_delayed *)

TaskTo(a, d, pc) == deferred' = [deferred EXCEPT ![a][d].pc = pc]

DelayElapses(a, d) ==
  /\ deferred[a][d].pc = "asleep"
  /\ TaskTo(a, d, "due")
  /\ UNCHANGED <<device, silence, announce, pushed, restarts>>

StillSubscribed(a, d) ==
  /\ deferred[a][d].pc = "due"
  /\ TaskTo(a, d, IF device[d].present /\ device[d].id = deferred[a][d].id
                  THEN "subscribed" ELSE "done")
  /\ UNCHANGED <<device, silence, announce, pushed, restarts>>

\* Mutant of StillActionable: any alarm of the check will do.
CheckStillActionable(a, d) ==
  /\ deferred[a][d].pc = "subscribed"
  /\ TaskTo(a, d, IF Actionable(Latest(a.check)) THEN "send" ELSE "done")
  /\ UNCHANGED <<device, silence, announce, pushed, restarts>>

\* One query on the row of this very alarm: open, and no unrevoked ack.
StillActionable(a, d) ==
  /\ deferred[a][d].pc = "subscribed"
  /\ TaskTo(a, d, IF Actionable(a) THEN "send" ELSE "done")
  /\ UNCHANGED <<device, silence, announce, pushed, restarts>>

SendDelayed(a, d) ==
  /\ deferred[a][d].pc = "send"
  /\ \E answer \in Answers(d) :
       /\ pushed' = [pushed EXCEPT ![a][d] = @ + IF answer = "ok" THEN 1 ELSE 0]
       /\ DropGone(IF answer = "gone" THEN {<<d, deferred[a][d].id>>} ELSE {})
  /\ TaskTo(a, d, "done")
  /\ UNCHANGED <<silence, announce, restarts>>

\* A query raises, which the task logs.
TaskRaises(a, d) ==
  /\ deferred[a][d].pc \in {"due", "subscribed"}
  /\ TaskTo(a, d, "done")
  /\ UNCHANGED <<device, silence, announce, pushed, restarts>>

PushRestart ==
  /\ restarts < MaxRestarts
  /\ restarts' = restarts + 1
  /\ announce' = [a \in Alarm |-> IdleAnnounce]
  /\ deferred' = [a \in Alarm |-> [d \in Device |-> NoTask]]
  /\ UNCHANGED <<device, silence, pushed>>

Remember ==
  /\ muted' = {a \in Alarm : /\ silence'
                             /\ a \in muted \/ (announce[a].pc = "idle" /\ announce'[a].pc = "opened")}
  /\ moot' = {t \in Alarm \X Device :
       /\ deferred'[t[1]][t[2]].pc \in {"due", "subscribed", "send"}
       /\ ~Actionable(t[1])'
       /\ t \in moot \/ deferred[t[1]][t[2]].pc = "asleep"}

PushNext ==
  /\ \/ \E c \in Check :
          \/ PushAlarmOpens(c)
          \/ FeedChange(c) /\ UNCHANGED <<device, silence, announce, deferred, pushed, restarts>>
     \/ /\ UNCHANGED feedVars
        /\ \/ ToggleSilence \/ PushRestart
           \/ \E d \in Device :
                \/ subscribe(d) \/ unsubscribe(d) \/ DeviceDies(d)
                \/ \E routing \in Wish : put_routing(d, routing)
           \/ \E a \in Alarm :
                \/ LookAtSilences(a) \/ ListenerRaises(a) \/ FetchRows(a) \/ FanOutEnds(a)
                \/ \E d \in Device :
                     \/ HandleRow(a, d)
                     \/ DelayElapses(a, d) \/ StillSubscribed(a, d)
                     \/ StillActionable(a, d) \/ SendDelayed(a, d) \/ TaskRaises(a, d)
  /\ Remember

-----------------------------------------------------------------------------
(* Properties *)

\* However often an alarm worsens, a device re-subscribes or the process
\* restarts, an opening reaches a device at most once (dispatch_push).
OnePushPerOpening == \A a \in Alarm, d \in Device : pushed[a][d] <= 1

\* A delayed push is not sent for an alarm that has been closed or acked for as
\* long as the delay has been over, although another alarm of the same check
\* may stand by then (_send_delayed).
NoMootPush == \A t \in moot : deferred[t[1]][t[2]].pc # "send"

\* An alarm that opens under a silence is not pushed while the silence lasts
\* (_web_push: "Without this check, a silence everything rule would still let
\* push notifications through").
SilenceMutesPush == \A a \in muted, d \in Device : pushed[a][d] = 0
=============================================================================

----------------------------- MODULE Broadcast ------------------------------
(***************************************************************************)
(* The dashboards' socket (api/ws.py) and the gate in front of it          *)
(* (_maybe_broadcast of api/app.py): a result is announced only when its   *)
(* status differs from the last one announced for the check.  Every        *)
(* announcement is a task, which lists the clients under a lock and sends  *)
(* to all of them at the same time; the writes to one socket keep their    *)
(* order.  A client that does not take an event within the timeout is      *)
(* closed and dropped, and finds the socket closed.                        *)
(***************************************************************************)
EXTENDS Integers, Sequences

CONSTANTS
  WsCheck, Client, Status,
  Unheard,     \* no status: nothing announced, or nothing heard, yet
  MaxPending   \* bound: announcements not yet listed for, or sent to, everyone

ASSUME BroadcastAssumption == Unheard \notin Status /\ MaxPending \in Nat

VARIABLES
  latest,    \* _last_broadcast_status
  tasks,     \* announcements to come, in the order they were created
  client,    \* client -> is it among _conns?
  outbox,    \* client -> events being sent to it
  heard,     \* client -> check -> the last status it was told
  since      \* history: client -> checks that changed since it connected

wsVars == <<latest, tasks, client, outbox, heard, since>>

WsInit ==
  /\ latest = [c \in WsCheck |-> Unheard]
  /\ tasks = <<>>
  /\ client = [k \in Client |-> FALSE]
  /\ outbox = [k \in Client |-> <<>>]
  /\ heard = [k \in Client |-> [c \in WsCheck |-> Unheard]]
  /\ since = [k \in Client |-> {}]

\* A result comes in; the gate is passed, and updated, before anything is sent.
_maybe_broadcast(c, status) ==
  /\ latest[c] # status
  /\ Len(tasks) < MaxPending /\ \A k \in Client : Len(outbox[k]) < MaxPending
  /\ latest' = [latest EXCEPT ![c] = status]
  /\ tasks' = Append(tasks, [check |-> c, status |-> status])
  /\ since' = [k \in Client |-> IF client[k] THEN since[k] \cup {c} ELSE since[k]]
  /\ UNCHANGED <<client, outbox, heard>>

\* Tasks start in the order they were created.
broadcast ==
  /\ tasks # <<>>
  /\ outbox' = [k \in Client |-> IF client[k] THEN Append(outbox[k], Head(tasks)) ELSE outbox[k]]
  /\ tasks' = Tail(tasks)
  /\ UNCHANGED <<latest, client, heard, since>>

Deliver(k) ==
  /\ outbox[k] # <<>>
  /\ heard' = [heard EXCEPT ![k][Head(outbox[k]).check] = Head(outbox[k]).status]
  /\ outbox' = [outbox EXCEPT ![k] = Tail(@)]
  /\ UNCHANGED <<latest, tasks, client, since>>

connect(k) ==
  /\ ~client[k] /\ outbox[k] = <<>>
  /\ client' = [client EXCEPT ![k] = TRUE]
  /\ heard' = [heard EXCEPT ![k] = [c \in WsCheck |-> Unheard]]
  /\ since' = [since EXCEPT ![k] = {}]
  /\ UNCHANGED <<latest, tasks, outbox>>

\* Mutant of disconnect: a send that timed out is given up, the socket kept.
SlowClientKept(k) ==
  /\ client[k]
  /\ outbox' = [outbox EXCEPT ![k] = <<>>]
  /\ UNCHANGED <<latest, tasks, client, heard, since>>

\* A send fails or times out, a ping does, or the client leaves: the socket is
\* closed, and everything still to be written to it is lost.
disconnect(k) ==
  /\ client[k]
  /\ client' = [client EXCEPT ![k] = FALSE]
  /\ outbox' = [outbox EXCEPT ![k] = <<>>]
  /\ UNCHANGED <<latest, tasks, heard, since>>

WsNext ==
  \/ \E c \in WsCheck, status \in Status : _maybe_broadcast(c, status)
  \/ broadcast
  \/ \E k \in Client : Deliver(k) \/ connect(k) \/ disconnect(k)

\* A connected dashboard to which nothing is under way shows, of every check
\* that changed since it connected, the status last announced: no transition
\* is swallowed by the gate, overtaken by an older one, or lost on the way
\* without the client noticing (app.py:157-163).
DashboardInSync ==
  \A k \in Client :
    client[k] /\ outbox[k] = <<>> /\ tasks = <<>> =>
      \A c \in since[k] : heard[k][c] = latest[c]
=============================================================================

---------------------------- MODULE MC_Contact ------------------------------
(***************************************************************************)
(* What reaches people besides the engine's mails, each against any course *)
(* of alarms the engine may produce: the links of the mails, the web push, *)
(* the dashboards.  They share nothing but the alarms, so a behaviour      *)
(* exercises one of them, chosen at the start, and the others stay idle.   *)
(***************************************************************************)
EXTENDS AckLink, WebPush, Broadcast, TLC

CONSTANTS
  t1, t2, p1, p2,
  Focus  \* the components a behaviour may exercise

ContactSymmetry == Permutations({t1, t2}) \cup Permutations({p1, p2})

\* To be told late, of what is severe; or of other products.
Wishes ==
  {[floor |-> 1, matches |-> TRUE, delayed |-> TRUE],
   [floor |-> 0, matches |-> FALSE, delayed |-> FALSE]}

VARIABLE focus

vars == <<feedVars, linkVars, pushVars, wsVars, focus>>

Init ==
  /\ focus \in Focus
  /\ FeedInit /\ LinkInit /\ PushInit /\ WsInit

Next ==
  /\ focus' = focus
  /\ \/ focus = "link" /\ LinkNext /\ UNCHANGED <<pushVars, wsVars>>
     \/ focus = "push" /\ PushNext /\ UNCHANGED <<linkVars, wsVars>>
     \/ focus = "dashboard" /\ WsNext /\ UNCHANGED <<feedVars, linkVars, pushVars>>

Spec == Init /\ [][Next]_vars
=============================================================================

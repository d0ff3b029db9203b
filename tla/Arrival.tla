------------------------------ MODULE Arrival -------------------------------
(***************************************************************************)
(* How old is the newest volume?  A producer writes volumes into a tree,   *)
(* by day or flat, each under a name that declares when it was observed;   *)
(* beside them lie half-written files, names nothing parses, directories   *)
(* made ahead of their first file; a flat folder is cleared of what is old. *)
(* The checks look while this goes on: layer2_backend_radar at today, then yesterday; *)
(* the DROPS producer check at the flat folder, the two days, and then by  *)
(* descending to the newest day there is; the staging check at one folder. *)
(***************************************************************************)
EXTENDS Integers, Sequences, FiniteSetsExt

CONSTANTS
  DayLen,        \* moments in a day
  DaysPerMonth,
  LastMoment,    \* bound on the clock
  Stray,         \* a directory dated ahead of everything
  Retained,      \* moments for which a flat folder keeps a volume
  MaxVolumes     \* bound on what lies in the tree

ASSUME ArrivalAssumption ==
  /\ {DayLen, DaysPerMonth, LastMoment, MaxVolumes} \subseteq Nat \ {0}
  /\ Retained \in Nat /\ Stray \in Nat

VARIABLES
  layout,  \* "dated" or "flat": as the tree was set up
  now,
  tree,    \* the entries: where they lie, what they declare, what they are
  days,    \* the day directories that exist
  latest,  \* the newest observation that was ever complete
  look     \* the look a check takes, or took last

arrivalVars == <<layout, now, tree, days, latest, look>>

Never == -1
Flat == -2  \* the folder itself

Day(t) == t \div DayLen
Place(t) == IF layout = "flat" THEN Flat ELSE Day(t)

-----------------------------------------------------------------------------
(* The producer *)

Pass ==
  /\ now < LastMoment
  /\ look.left # <<>> => look.t0 = now  \* no look outlasts its FS_TIMEOUT_S
  /\ now' = now + 1
  /\ UNCHANGED <<layout, tree, days, latest, look>>

\* A file is begun, under a temporary name or under one that does not parse.
Begin(kind) ==
  /\ Cardinality(tree) < MaxVolumes
  /\ tree' = tree \cup {[at |-> Place(now), stamp |-> now, kind |-> kind]}
  /\ days' = days \cup ({Place(now)} \ {Flat})
  /\ UNCHANGED <<layout, now, latest, look>>

Complete(e) ==
  /\ e.kind = "part"
  /\ tree' = (tree \ {e}) \cup {[e EXCEPT !.kind = "volume"]}
  /\ latest' = IF e.stamp > latest THEN e.stamp ELSE latest
  /\ UNCHANGED <<layout, now, days, look>>

MakeDay(d) ==
  /\ layout = "dated" /\ d \notin days
  /\ days' = days \cup {d}
  /\ UNCHANGED <<layout, now, tree, latest, look>>

\* A flat folder loses its old files.
ClearOld ==
  \E e \in tree :
    /\ layout = "flat" /\ e.stamp + Retained < now
    /\ tree' = tree \ {e}
    /\ UNCHANGED <<layout, now, days, latest, look>>

-----------------------------------------------------------------------------
(* What a look sees *)

In(d) == {e \in tree : e.at = d}

\* Names that begin with a dot are passed over though they parse.
Declared(d) == {e.stamp : e \in {f \in In(d) : f.kind = "volume"}}
_newest_declared(d) == Max(Declared(d) \cup {Never})

\* The staging check tells a folder whose names it cannot read from an empty one.
_scan_staging ==
  LET entries == {e \in In(Flat) : e.kind # "part"} IN
  IF entries # {} /\ Declared(Flat) = {} THEN "unparseable" ELSE "nothing"

\* The newest day that exists, found level by level, each bounded by that part
\* of today's date.
Month(d) == d \div DaysPerMonth
Dom(d) == d % DaysPerMonth

NewestDay(today) ==
  LET months == {m \in {Month(d) : d \in days} : m <= Month(today)}
      inside == {d \in days : Month(d) = Max(months) /\ Dom(d) <= Dom(today)} IN
  IF months = {} \/ inside = {} THEN Never ELSE Max(inside)

Descend(t0) ==
  IF NewestDay(Day(t0)) = Never THEN Never ELSE _newest_declared(NewestDay(Day(t0)))

\* A variant in which only the current day is looked at.
CandidatesOfToday(by, t0) == IF by = "staging" THEN <<Flat>> ELSE <<Flat, Day(t0)>>

\* In the order they are tried.  first_resolvable stops at the first that
\* declares anything.
Candidates(by, t0) ==
  CASE by = "LB2"     -> <<Day(t0), Day(t0) - 1>>
    [] by = "drops"   -> <<Flat, Day(t0), Day(t0) - 1>>
    [] by = "staging" -> <<Flat>>

\* What a check says when none of them does.
Exhausted(by, t0) ==
  CASE by = "LB2"     -> "silent"
    [] by = "drops"   -> IF Descend(t0) = Never THEN "no age" ELSE "seen"
    [] by = "staging" -> _scan_staging

-----------------------------------------------------------------------------
(* The looks *)

Watching == IF layout = "flat" THEN {"drops", "staging"} ELSE {"LB2", "drops"}

Start(by) ==
  /\ look.left = <<>> /\ by \in Watching
  /\ look' = [by |-> by, t0 |-> now, had |-> latest, left |-> Candidates(by, now),
              said |-> "looking", age |-> Never]
  /\ UNCHANGED <<layout, now, tree, days, latest>>

first_resolvable ==
  /\ look.left # <<>>
  /\ LET stamp == _newest_declared(Head(look.left))
         rest == Tail(look.left) IN
     look' = IF stamp # Never
             THEN [look EXCEPT !.left = <<>>, !.said = "seen", !.age = look.t0 - stamp]
             ELSE IF rest # <<>> THEN [look EXCEPT !.left = rest]
             ELSE LET said == Exhausted(look.by, look.t0) IN
                  [look EXCEPT !.left = <<>>, !.said = said,
                     !.age = IF said = "seen" THEN look.t0 - Descend(look.t0) ELSE Never]
  /\ UNCHANGED <<layout, now, tree, days, latest>>

Unread == {"unreadable", "unread"}

\* A look that raises or takes too long.  The DROPS check takes a folder it could not
\* read for one of no age, and warns; the other looks, and one that takes too long,
\* end in an error.
GiveUp(said) ==
  /\ look.left # <<>> /\ (said = "unread" => look.by = "drops")
  /\ look' = [look EXCEPT !.left = <<>>, !.said = said]
  /\ UNCHANGED <<layout, now, tree, days, latest>>

ArrivalInit ==
  /\ layout \in {"dated", "flat"}
  /\ now = 0 /\ tree = {} /\ days = {} /\ latest = Never
  /\ look = [by |-> "none", t0 |-> 0, had |-> Never, left |-> <<>>, said |-> "unreadable",
             age |-> Never]

ArrivalNext ==
  \/ Pass \/ ClearOld \/ first_resolvable
  \/ \E said \in Unread : GiveUp(said)
  \/ \E kind \in {"part", "drifted"} : Begin(kind)
  \/ \E e \in tree : Complete(e)
  \/ \E d \in {Day(now), Stray} : MakeDay(d)
  \/ \E by \in {"LB2", "drops", "staging"} : Start(by)

-----------------------------------------------------------------------------
Done(by) == look.by \in by /\ look.left = <<>> /\ look.said \notin Unread

\* The age is that of the newest observation there was when the look began, or
\* of one that came meanwhile.
TellsTrueAge == look.said = "seen" /\ look.age <= look.t0 - look.had

\* What the look cannot miss: a volume of today or yesterday, or one that the
\* folder keeps until the look is over.
Reachable ==
  /\ look.had # Never
  /\ IF layout = "flat" THEN look.had + Retained > look.t0
     ELSE Day(look.had) >= Day(look.t0) - 1

\* No look reports an age younger than the newest observation, whatever
\* half-written files there are; and none that ends overlooks what had arrived
\* when it began: not at the turn of the day, not because the producer resumes
\* or writes meanwhile, not behind a directory made too early
\* (layer2_backend_radar.py: the look-back "can never report an age YOUNGER than
\* reality"; layer3_backend_processing.py: the check must detect recovery).
AgeIsTrue ==
  Done({"LB2", "drops", "staging"}) =>
    /\ look.said = "seen" => look.t0 - look.age <= latest
    /\ Reachable => TellsTrueAge

\* When nothing is recent, the DROPS check still reports how long the newest day
\* there is has been quiet (layer3_backend_processing.py, _drops_newest: "descend
\* by numeric name to recover the true age").
DropsAgeIsTrue ==
  Done({"drops"}) /\ layout = "dated" /\ look.had # Never
    /\ (\A d \in days : d <= Day(look.had) \/ d > Day(look.t0))
    => TellsTrueAge
=============================================================================

------------------------------- MODULE Report -------------------------------
(***************************************************************************)
(* What the daily report says of one subject (digest.py, compute): a       *)
(* radar or a product is observed by two tiers, and reported from either   *)
(* or from the worse of the two in each timestep.  The window is the       *)
(* sequence of timesteps since it opened, with what each tier recorded in  *)
(* them; the last conclusive reading of each tier before it is known too.  *)
(* Every figure is computed afresh from the recorded runs.                 *)
(***************************************************************************)
EXTENDS Integers, Sequences, FiniteSetsExt, Functions

CONSTANTS
  MaxSteps,  \* bound: the timesteps of a window
  Recorded,  \* bound: what the two tiers may record in a timestep
  Slice,     \* timesteps per slice of the report
  n_buckets  \* slices of the report

VARIABLES
  before,  \* tier -> its last conclusive reading, within a day of the window
  window   \* the timesteps so far: tier -> reading

reportVars == <<before, window>>

Tier == {"frontend", "backend"}
REPORTED_STATUSES == {"pass", "warn", "fail"}
SOURCES == {"frontend", "backend", "combined"}
Silent == "none"

ASSUME ReportAssumption ==
  /\ MaxSteps \in Nat /\ Slice \in Nat \ {0} /\ n_buckets \in Nat \ {0}
  /\ Recorded \subseteq [Tier -> REPORTED_STATUSES \cup {"error", Silent}]

ReportInit ==
  /\ before \in [Tier -> REPORTED_STATUSES \cup {Silent}]
  /\ window = <<>>

\* A timestep: what each tier recorded in it ("error" stands for demoted runs too).
RunsFinish ==
  /\ Len(window) < MaxSteps
  /\ \E reading \in Recorded : window' = Append(window, reading)
  /\ UNCHANGED before

ReportNext == RunsFinish

-----------------------------------------------------------------------------

_FAMILIES(source) == IF source = "combined" THEN Tier ELSE {source}

Class(status) == CASE status = "fail" -> 2 [] status = "warn" -> 1 [] OTHER -> 0
Unknown == -1
WorstClass(R) == Max({Class(r) : r \in R} \cup {Unknown})

Readings(source, i) == {window[i][t] : t \in _FAMILIES(source)} \ {Silent}
Reported(source, i) == Readings(source, i) \cap REPORTED_STATUSES

\* _subject_rows, its first query: the timesteps that produced a verdict, each with
\* the worst of its readings.
Judged(source) == {i \in DOMAIN window : Reported(source, i) # {}}
runs(source) == [i \in Judged(source) |-> WorstClass(Reported(source, i))]

\* The number that the timesteps of one unbroken run of a class have in common: of
\* all up to there, less those of that class.
grp(bad, i) ==
  Cardinality({k \in DOMAIN bad : k <= i}) - Cardinality({k \in DOMAIN bad : k <= i /\ bad[k] = bad[i]})

Together(bad, class, g) == {k \in DOMAIN bad : bad[k] = class /\ grp(bad, k) = g}

Episode(class, g, steps) ==
  [class |-> class, g |-> g, n_runs |-> Cardinality(steps), started |-> Min(steps)]

Episodes(bad) ==
  {Episode(bad[i], grp(bad, i), Together(bad, bad[i], grp(bad, i))) : i \in DOMAIN bad}

\* The worst of the tiers just before the window opened.
Prior(source) == WorstClass({before[t] : t \in _FAMILIES(source)})

\* The episode that may have been cut by the edge of the window: the first one.
Truncated(source, E) ==
  LET bad == {e \in E : e.class > 0}
  IN  {e \in bad : e.class = Prior(source) /\ \A f \in bad : e.started <= f.started}

RunsOf(E) == SumFunction([e \in E |-> e.n_runs])

\* A single run is brief, unless it is the rest of an episode from before.
Subject(source) ==
  LET E == Episodes(runs(source))
      Of(class) == {e \in E : e.class = class}
      brief == {e \in E : e.n_runs = 1} \ Truncated(source, E)
  IN  [judged |-> RunsOf(E), passed |-> RunsOf(Of(0)),
       excluded |-> Cardinality({it \in (DOMAIN window) \X _FAMILIES(source) :
                                   window[it[1]][it[2]] = "error"}),
       outages |-> Of(2) \ brief, blips |-> Of(2) \cap brief,
       degraded |-> Of(1) \ brief, degraded_blips |-> Of(1) \cap brief]

\* _buckets: timesteps are grouped before any is excluded.  Mutant of Bad: an
\* error counts as a failure.
BadWithErrors(source, i) ==
  WorstClass({IF r = "error" THEN "fail" ELSE r : r \in Readings(source, i)})

Bad(source, i) == WorstClass(Reported(source, i))

\* What lies beyond the last slice is merged with it.
Slot(i) == LET b == (i - 1) \div Slice IN IF b < n_buckets THEN b ELSE n_buckets - 1

Bucket(source, b) ==
  LET here == {i \in DOMAIN window : Slot(i) = b /\ Readings(source, i) # {}}
      conclusive == {i \in here : Reported(source, i) # {}}
      With(class) == Cardinality({i \in conclusive : Bad(source, i) = class})
  IN  [n |-> Cardinality(conclusive), n_pass |-> With(0), n_warn |-> With(1),
       n_fail |-> With(2), n_excluded |-> Cardinality(here \ conclusive)]

-----------------------------------------------------------------------------
(* The row of the report *)

\* A subject is in the universe when either tier ran in the window, and has a row
\* when the source it is reported from did.
_subject_keys(source) == \E i \in DOMAIN window : Readings(source, i) # {}

\* Since when the tier has not passed: a timestep of the window, or before it, or
\* never.  Errors do not break the spell, and may begin it.  (Of the runs before the
\* window only the last conclusive one is known here.)
BeforeWindow == 0
NotFailing == MaxSteps + 1

_chronic_since(tier) ==
  LET At(i) == window[i][tier]
      passed == {i \in DOMAIN window : At(i) = "pass"}
      spell == {i \in DOMAIN window : At(i) # Silent /\ \A p \in passed : p < i} IN
  IF passed = {} /\ before[tier] \in {"warn", "fail"} THEN BeforeWindow
  ELSE Min(spell \cup {NotFailing})

\* Asked of the first tier only, when next to nothing passed.
compute(source) ==
  LET s == Subject(source)
      first == IF source = "backend" THEN "backend" ELSE "frontend"
      chronic == s.judged > 0 /\ s.passed = 0
  IN  [figures |-> s, truncated |-> Truncated(source, Episodes(runs(source))) # {},
       chronic_since |-> IF chronic THEN _chronic_since(first) ELSE NotFailing]

Shown(source) == IF _subject_keys("combined") /\ _subject_keys(source) THEN {compute(source)} ELSE {}

-----------------------------------------------------------------------------

InSlices(source, F(_)) == SumFunction([b \in 0..(n_buckets - 1) |-> F(Bucket(source, b))])

\* The figures of a row come from several queries and agree all the same, also
\* when one tier is blind and when the first episode was cut by the window: every
\* failing timestep is in one outage or one blip, and in one slice of the day; a
\* row of one tier that says since when nothing has passed says a time no later
\* than its first trouble, and before the window if that was cut by it (the
\* comments of _buckets on errors, of _subject_rows on the boundary, and of
\* _chronic_since).
ReportAddsUp ==
  \A source \in SOURCES : \A row \in Shown(source) :
    LET s == row.figures IN
    /\ RunsOf(s.outages) + RunsOf(s.blips) = InSlices(source, LAMBDA b : b.n_fail)
    /\ RunsOf(s.degraded) + RunsOf(s.degraded_blips) = InSlices(source, LAMBDA b : b.n_warn)
    /\ s.passed = InSlices(source, LAMBDA b : b.n_pass)
    /\ s.judged = InSlices(source, LAMBDA b : b.n)
    /\ s.excluded >= InSlices(source, LAMBDA b : b.n_excluded)
    /\ s.judged > 0 /\ s.passed = 0 /\ source # "combined" =>
         /\ row.chronic_since <= Min(Judged(source))
         /\ row.truncated => row.chronic_since = BeforeWindow
=============================================================================

----------------------------- MODULE Reprocess ------------------------------
(***************************************************************************)
(* The retroactive reprocess (reprocess_engine.py): the recorded rows of a *)
(* check are judged again, from what they recorded, under the thresholds   *)
(* now in force.  The live check saw more than its row keeps: the age      *)
(* unrounded, the moment it looked, what its previous run left in memory.  *)
(* The admin may save other thresholds, cancel, or start another job while *)
(* one walks: nothing keeps two apart, each decides on the rows as it read *)
(* them at its start.  A restart forgets the jobs and the memory of the    *)
(* checks, not the rows.                                                   *)
(***************************************************************************)
EXTENDS Checks, Sequences

CONSTANTS
  Observation,  \* check -> what it may observe
  Limits,       \* check -> the thresholds that may be in force
  Job,          \* the jobs that may be started, each by an id of its own
  MaxRows,      \* check -> how many rows
  MaxSaves, MaxRestarts  \* bounds on the history

\* What a check may observe: how it comes by an answer, and what it counts and
\* measures if there is one.
Measured ==
  [L1 |-> [got : {"image", "no_answer", "http", "empty", "malformed", "image_timeout", "image_http",
                  "image_error", "old_timeout"},
           age : Nat, took : Nat, med : Nat \cup {NotThere}, n : Nat, bytes : Nat,
           parity : {"pass", "warn", "skip"}],
   L2 |-> [declared : {"UP", "DOWN", "unavailable"}, n : Nat \cup {NotThere},
           age : Nat \cup {NotThere}, took : Nat],
   LB1 |-> [got : {"file", "unreadable", "absent", "nothing"}, age : Nat],
   LB2 |-> [got : {"file", "unreadable", "absent", "nothing"}, age : Nat],
   composite |-> [got : {"run_log", "unbanded", "unreadable", "absent", "nothing", "not_read",
                         "receipt", "undated"}, age : Nat],
   input |-> [got : {"file", "unreadable", "absent", "unmatched", "nothing"}, age : Nat],
   drops |-> [got : {"file", "unreadable", "nothing"}, age : Nat],
   L4 |-> [got : {"image"}, fraction : Nat, coverage : Nat, phash : STRING, source : STRING,
           speckle : {"OK", "SPECKLE", "TOO_SPARSE"}]
            \cup [got : {"no_image"}]]

\* The thresholds of a check: those that are set, and for the tiers of the backend
\* the ones of the configuration, which hold where none is.
Adjustable ==
  [L1 |-> [max_freshness_s : Int, cadence_s : Int, expected_steps : Int, step_count_tol : Int,
           min_png_bytes : Int],
   L2 |-> [silent_fail_s : Nat, hysteresis : Nat],
   LB1 |-> [backend_max_age_s : Int, standard : [backend_max_age_s : Int]],
   LB2 |-> [backend_silent_s : Int, standard : [backend_silent_s : Int]],
   composite |-> [contrib_warn_s : Int, contrib_fail_s : Int,
                  standard : [contrib_warn_s : Int, contrib_fail_s : Int]],
   input |-> [input_warn_s : Int, retention_s : Int, standard : [input_warn_s : Int]],
   drops |-> [drops_s : Int, standard : [drops_s : Int]],
   L4 |-> [extreme_threshold : Nat, skip_frozen : BOOLEAN, frozen_min_cov : Nat]]

ASSUME ReprocessAssumption ==
  /\ DOMAIN Observation \subseteq DOMAIN Measured
  /\ \A c \in DOMAIN Observation :
       Observation[c] \subseteq Measured[c] /\ Limits[c] \subseteq Adjustable[c]

VARIABLES
  check,    \* the check whose rows these are
  lim,      \* thresholds._cache
  memory,   \* _LAST_FRESH; _LAST_PHASH and _LAST_SOURCE
  rows,     \* check_runs, each with the observation and thresholds it was judged by
  job,      \* _jobs
  settled,  \* history: the window and thresholds of the last job that completed
  stopped   \* how often the process was restarted

reVars == <<check, lim, memory, rows, job, settled, stopped>>

NoFrame == [phash |-> "none", source |-> "none"]
Forgotten == [fresh |-> TRUE, frame |-> NoFrame, known |-> FALSE]
NoJob == [state |-> "none"]
Ended == [state |-> "ended"]

\* The frame later ones are compared with.
Advanced(frame, facts) ==
  IF facts.got = "no_image" THEN frame ELSE [phash |-> facts.phash, source |-> facts.source]

\* The limits a live check holds an age to.
InEffect(l) == Over(l, l.standard)

Judge(o, l, m) ==
  CASE check = "L1" -> JudgeL1(o, l)               [] check = "L2" -> JudgeL2(o, l, m.fresh)
    [] check = "L4" -> JudgeL4(o, l, m.frame)      [] check = "LB1" -> JudgeLB1(o, InEffect(l))
    [] check = "LB2" -> JudgeLB2(o, InEffect(l))    [] check = "drops" -> JudgeDrops(o, InEffect(l))
    [] check = "composite" -> JudgeComposite(o, InEffect(l))
    [] check = "input" -> JudgeInput(o, InEffect(l), l.retention_s)

Remembered(o, l, m) ==
  CASE check = "L2" /\ o.declared # "unavailable" /\ o.n # NotThere ->
         [m EXCEPT !.fresh = Fresh(o, l, m.fresh)]
    [] check = "L4" -> [m EXCEPT !.frame = Advanced(@, o), !.known = o.got # "no_image" \/ @]
    [] OTHER -> m

Run(o) ==
  /\ Len(rows) < MaxRows[check]
  /\ LET r == Judge(o, lim, memory) IN
     rows' = Append(rows, [status |-> r.status, sub |-> r.sub, facts |-> r.facts, obs |-> o,
                           original |-> "none", live |-> r.status, under |-> lim,
                           known |-> memory.known])
  /\ memory' = Remembered(o, lim, memory)
  /\ UNCHANGED <<check, lim, job, settled, stopped>>

save_blob(l) ==
  /\ l # lim /\ lim' = l
  /\ settled.saves < MaxSaves /\ settled' = [settled EXCEPT !.saves = @ + 1]
  /\ UNCHANGED <<check, memory, rows, job, stopped>>

Restart ==
  /\ stopped < MaxRestarts /\ stopped' = stopped + 1
  /\ memory' = Forgotten
  /\ job' = [j \in Job |-> IF job[j].state = "walking" THEN Ended ELSE job[j]]
  /\ UNCHANGED <<check, lim, rows, settled>>

-----------------------------------------------------------------------------
(* A row judged again; the row itself where it is left alone *)

Rejudged(row, sub) == [row EXCEPT !.sub = sub, !.status = Worst(sub)]
Resub(row, name, v) == IF name \in DOMAIN row.sub THEN [row.sub EXCEPT ![name] = v] ELSE row.sub

\* Mutant of Original: the status before this job, not that of the live run.
OriginalOfThisJob(row) == row.status

Original(row) == IF row.original = "none" THEN row.status ELSE row.original

_reverdict_l1(row, l) ==
  LET f    == row.facts
      sub1 == IF f.last = NotThere THEN row.sub
              ELSE Resub(row, "C_freshness", Within("pass", "fail", f.last, l.max_freshness_s))
      sub2 == IF f.med = NotThere THEN sub1
              ELSE Resub([sub |-> sub1], "D_cadence", CadenceVerdict(f.med, l))
      sub3 == Resub([sub |-> sub2], "E_step_count", StepVerdict(f.n, l))
      sub4 == IF f.bytes = NotThere THEN sub3
              ELSE Resub([sub |-> sub3], "G_image_size",
                         IF f.bytes >= l.min_png_bytes THEN "pass" ELSE "warn") IN
  IF f.old_timeout THEN [row EXCEPT !.status = "error", !.original = Original(row)]
  ELSE Rejudged(row, sub4)

\* The band is gone: its outer edge decides.  No images is a real stoppage.
_reverdict_l2(row, l) ==
  LET fresh == row.facts.last <= Upper(l) IN
  IF row.facts.verdict \notin {"HEALTHY", "GHOST_UP"} \/ row.facts.n <= 0
       \/ row.facts.last = NotThere
  THEN row
  ELSE [row EXCEPT !.facts.verdict = IF fresh THEN "HEALTHY" ELSE "GHOST_UP",
                   !.status = IF fresh THEN "pass" ELSE "fail", !.original = Original(row)]

\* A row that was not held to an age, or to no limit, is left as it is.
ReAged(row, name, v, l) ==
  IF row.facts.age = NotThere \/ name \notin DOMAIN row.sub \/ \E k \in DOMAIN l : l[k] = NotThere
  THEN row
  ELSE [Rejudged(row, Resub(row, name, v)) EXCEPT !.facts = [age |-> row.facts.age, limits |-> l]]

\* Where a limit is not set, the one the row was held to stays.
Now(l, row) == Over(l, row.facts.limits)

_reverdict_lb1(row, l) ==
  ReAged(row, "B_freshness",
         Within("pass", "fail", row.facts.age, Now(l, row).backend_max_age_s), Now(l, row))
_reverdict_lb2(row, l) == ReAged(row, "A_arriving", Arriving(row.facts.age, Now(l, row)), Now(l, row))

_reverdict_lb3(row, l) ==
  CASE check = "drops" ->
         ReAged(row, "folder", Within("pass", "warn", row.facts.age, Now(l, row).drops_s), Now(l, row))
    [] check = "composite" ->
         ReAged(row, "B_fresh", Contribution(row.facts.age, Now(l, row)), Now(l, row))
    [] check = "input" ->
         ReAged(row, "B_fresh", Within("pass", "warn", row.facts.age, Now(l, row).input_warn_s),
                Now(l, row))

\* Mutant of _reverdict_l4: compared by the picture alone, not by its source.
_reverdict_l4_by_sight(row, l, frame) ==
  [row EXCEPT !.status = JudgeL4(row.facts, l, [frame EXCEPT !.source = "none"]).status,
              !.original = Original(row)]

_reverdict_l4(row, l, frame) ==
  [row EXCEPT !.status = JudgeL4(row.facts, l, frame).status, !.original = Original(row)]

\* Skips and errors are left as they are.
Reverdict(row, l, frame) ==
  IF row.status \in {"skip", "error"} THEN row
  ELSE CASE check = "L1" -> _reverdict_l1(row, l)    [] check = "L2" -> _reverdict_l2(row, l)
         [] check = "L4" -> _reverdict_l4(row, l, frame)
         [] check = "LB1" -> _reverdict_lb1(row, l)  [] check = "LB2" -> _reverdict_lb2(row, l)
         [] OTHER -> _reverdict_lb3(row, l)

\* Mutant of Trail: a frame that was warned of is not compared with.
TrailOfPasses(frame, row) ==
  IF check = "L4" /\ row.status = "pass" THEN Advanced(frame, row.facts) ELSE frame

\* What later rows are compared with; the rows left alone count as well.
Trail(frame, row) == IF check = "L4" THEN Advanced(frame, row.facts) ELSE frame

-----------------------------------------------------------------------------
(* The jobs *)

Walking(j) == job[j].state = "walking"

\* start_reprocess and the reading of the rows: of the frames before the window
\* nothing is known, and another job may be walking.
JobStart(j, from) ==
  /\ job[j] = NoJob
  /\ job' = [job EXCEPT ![j] =
       [state |-> "walking", from |-> from, at |-> from, upto |-> Len(rows), read |-> rows,
        frame |-> NoFrame, updates |-> <<>>, under |-> lim, mixed |-> FALSE]]
  /\ UNCHANGED <<check, lim, memory, rows, settled, stopped>>

\* A job one row further: only a row whose status changes is to be written.
Onward(w, l) ==
  LET row == w.read[w.at]
      new == Reverdict(row, l, w.frame) IN
  [w EXCEPT !.at = w.at + 1, !.frame = Trail(w.frame, row),
            !.updates = IF new.status = row.status THEN w.updates
                        ELSE w.updates ++ [i \in {w.at} |-> new],
            !.mixed = w.mixed \/ l # w.under]

\* The thresholds are read row by row.
JobRow(j) ==
  /\ Walking(j) /\ job[j].at <= job[j].upto
  /\ job' = [job EXCEPT ![j] = Onward(@, lim)]
  /\ UNCHANGED <<check, lim, memory, rows, settled, stopped>>

\* The request is seen at the next row, or before anything is written: either way
\* nothing is.
reprocess_cancel(j) ==
  /\ Walking(j)
  /\ job' = [job EXCEPT ![j] = Ended]
  /\ UNCHANGED <<check, lim, memory, rows, settled, stopped>>

Walked(j) == Walking(j) /\ job[j].at > job[j].upto

\* All in one transaction, over whatever has been written since the rows were read.
JobWrite(j) ==
  /\ Walked(j)
  /\ LET u == job[j].updates IN
     /\ rows' = [i \in 1..Len(rows) |-> IF i \in DOMAIN u THEN u[i] ELSE rows[i]]
     /\ job' = [k \in Job |-> IF k = j THEN Ended
                             ELSE IF Walking(k) /\ u # <<>> THEN [job[k] EXCEPT !.mixed = TRUE]
                             ELSE job[k]]
  /\ settled' = [settled EXCEPT !.from = job[j].from, !.upto = job[j].upto,
                                !.under = job[j].under, !.mixed = job[j].mixed]
  /\ UNCHANGED <<check, lim, memory, stopped>>

JobFails(j) ==
  /\ Walked(j) /\ job[j].updates # <<>>
  /\ job' = [job EXCEPT ![j] = Ended]
  /\ UNCHANGED <<check, lim, memory, rows, settled, stopped>>

ReprocessInit ==
  /\ check \in DOMAIN Observation
  /\ lim \in Limits[check]
  /\ memory = Forgotten /\ rows = <<>> /\ job = [j \in Job |-> NoJob] /\ stopped = 0
  /\ settled = [from |-> 0, upto |-> 0, under |-> lim, mixed |-> TRUE, saves |-> 0]

ReprocessNext ==
  \/ \E o \in Observation[check] : Run(o)
  \/ \E l \in Limits[check] : save_blob(l)
  \/ Restart
  \/ \E j \in Job :
       \/ \E i \in 1..Len(rows) : JobStart(j, i)
       \/ JobRow(j) \/ reprocess_cancel(j) \/ JobWrite(j) \/ JobFails(j)

-----------------------------------------------------------------------------
(* Properties *)

\* What the row keeps decides as what the check saw did, unless they lie on
\* different sides of a threshold.
KeptApart(c, row) ==
  LET o == row.obs  l == row.under
      Saturated(f) == f # 0 /\ f > l.extreme_threshold
      Inside(age, part, limit) == 5 * age <= part * limit IN
  CASE c = "L1" -> o.got = "old_timeout" \/ (o.age <= l.max_freshness_s
                                                /\ l.max_freshness_s < o.age + o.took)
    [] c = "L2" -> o.age + o.took > Lower(l) /\ o.age <= Upper(l)
    [] c = "L4" -> o.got = "image" /\ Saturated(o.fraction) # Saturated(Rounded(o.fraction))
    [] OTHER -> \E k \in DOMAIN InEffect(l) : \E part \in {4, 5} :
                  /\ part = 4 => c = "LB2"
                  /\ Inside(o.age, part, InEffect(l)[k]) # Inside(Rounded(o.age), part, InEffect(l)[k])

\* A limit that was not set when the row was judged, and since then a job has held
\* the row to another: that one stands in for it now.
HeldToAnother(c, row) ==
  /\ c \notin {"L1", "L2", "L4"} /\ row.facts.age # NotThere
  /\ \E k \in DOMAIN row.under.standard :
       row.under[k] = NotThere /\ row.facts.limits[k] # row.under.standard[k]

\* The live check and its reprocess agree: whatever was written over a row since,
\* a job that judged it again under the thresholds it was first judged by would
\* give it its first status, except where the row keeps less than the check saw,
\* and for a frame that one of the two compared with none, the check after a
\* restart or the job at the beginning of its window (reprocess_engine.py:38-43,
\* the two paths must not come to disagree).
InStep ==
  \A j \in Job : Walking(j) /\ job[j].at <= job[j].upto =>
    LET row == job[j].read[job[j].at] IN
    Reverdict(row, row.under, job[j].frame).status # row.live =>
      \/ KeptApart(check, row) \/ HeldToAnother(check, row)
      \/ check = "L4" /\ (~row.known \/ job[j].frame = NoFrame)

\* What reprocessing never erases or invents: a real stoppage keeps its status,
\* whatever the thresholds, and so does what was not judged by its age; a radar, an
\* image and a timeout of the older check whose status was changed, by one job or by
\* several of any order, say what it was at first, and not what it was between; and
\* the checks that only warn of an age do not come to fail (reprocess_engine.py:242-248,
\* 370-383, 428-431, 542-545).  (The rows of the other checks keep no such note,
\* reprocess_engine.py:290-293, 324-325, 354-355, 522, 548, 580: of theirs, only the
\* facts tell the first verdict, as InStep says.)
HistoryKept ==
  \A i \in 1..Len(rows) :
    LET row == rows[i] IN
    /\ check \in {"L2", "L4"} \/ row.obs.got = "old_timeout" =>
         /\ row.original \in {"none", row.live}
         /\ row.status # row.live => row.original = row.live
    /\ check = "L2" /\ row.obs.n <= 0 => row.status = row.live
    /\ check # "L2" /\ row.obs.got \in {"http", "empty", "malformed", "absent", "nothing",
                                       "not_read", "receipt", "undated", "unbanded"}
         => row.status = row.live
    /\ check \in {"input", "drops"} /\ row.status = "fail" => row.live = "fail"

\* A second job over the same rows, under the same thresholds throughout, writes
\* nothing (run_reprocess, reprocess_engine.py:667-673), if no other job wrote while
\* either walked: of jobs that overlap, the one that writes last may undo the other.
RepeatChangesNothing ==
  [][\A j \in Job :
       /\ JobWrite(j) /\ ~job[j].mixed /\ ~settled.mixed /\ job[j].under = settled.under
       /\ job[j].from = settled.from /\ job[j].upto = settled.upto
       => rows' = rows]_reVars
=============================================================================

------------------------------ MODULE Manifest ------------------------------
(***************************************************************************)
(* The parity of a manifest (checks/layer1_product.py): a forecast whose   *)
(* files are named by step, which its publisher stitches of a short and a  *)
(* long block overlapping by one step, and lists over and over; and an     *)
(* observed product whose files are named by their time.  A legitimate     *)
(* form must not warn, a damaged one must.                                 *)
(***************************************************************************)
EXTENDS Integers, FiniteSets, Sequences, SequencesExt

CONSTANTS
  Seam, LastStep,   \* the step at which the blocks meet, and the last one
  MaxReplays,   \* how often the long block is listed
  Times,        \* the times an observed file may have
  MaxEntries    \* entries of an observed manifest

VARIABLES
  replays,  \* times the long block is listed, or -1 with nothing published
  damage,   \* what is wrong with the forecast as published
  listed,   \* the forecast: a step and its time for each file of either block
  entries   \* of the observed product: the time in the name, and the one stated

manifestVars == <<replays, damage, listed, entries>>

ASSUME ManifestAssumption ==
  /\ Seam \in Nat \ {0} /\ LastStep \in Nat /\ Seam < LastStep
  /\ MaxReplays \in Nat /\ MaxEntries \in Nat /\ Times \subseteq Int

-----------------------------------------------------------------------------
(* What the upstream publishes *)

Sound == [is |-> "none"]

\* At the seam one step file carries two times.
Short == [p \in 1..(Seam + 1) |-> [i |-> p - 1, t |-> p - 1]]
Long  == [p \in 1..(LastStep - Seam + 1) |-> [i |-> Seam + p - 1, t |-> Seam + p]]

Swapped(block, p) == [block EXCEPT ![p] = block[p + 1], ![p + 1] = block[p]]

Without(block, step) ==
  LET p == step - block[1].i + 1 IN IF p \in DOMAIN block THEN RemoveAt(block, p) ELSE block

BlockAs(block, name, d) ==
  CASE d.is = "dropped" -> Without(block, d.step)
    [] d.is = "swapped" /\ d.of = name -> Swapped(block, d.at)
    [] OTHER -> block

\* Steps listed again with other times: another model run.
OtherRun ==
  IF damage.is # "other_run" THEN <<>>
  ELSE [p \in 1..damage.steps |-> [i |-> damage.from + p - 1, t |-> LastStep + 1 + p]]

Published == listed \o OtherRun

Damages ==
  [is : {"dropped"}, step : 1..(LastStep - 1)]
    \cup [is : {"swapped"}, of : {"short"}, at : 1..Seam]
    \cup [is : {"swapped"}, of : {"long"}, at : 1..(LastStep - Seam)]
    \cup {d \in [is : {"other_run"}, from : 0..(LastStep - 1), steps : 2..3] : d.from + d.steps <= LastStep + 1}

\* What of the damage shows in what is listed so far.
Damaged ==
  LET last == IF replays > 0 THEN LastStep ELSE Seam IN
  /\ replays >= 0
  /\ \/ damage.is = "dropped" /\ damage.step < last
     \/ damage.is = "swapped" /\ (damage.of = "short" \/ replays > 0)
     \/ damage.is = "other_run" /\ damage.from \notin {last, last + 1}

ManifestInit == replays = -1 /\ damage = Sound /\ listed = <<>> /\ entries = <<>>

Publish ==
  /\ replays' = 0
  /\ \E d \in {Sound} \cup Damages : damage' = d /\ listed' = BlockAs(Short, "short", d)
  /\ UNCHANGED entries

Relist ==
  /\ replays \in 0..(MaxReplays - 1) /\ replays' = replays + 1
  /\ listed' = listed \o BlockAs(Long, "long", damage)
  /\ UNCHANGED <<damage, entries>>

Observe(name, stated) ==
  /\ Len(entries) < MaxEntries
  /\ entries' = Append(entries, [name |-> name, stated |-> stated])
  /\ UNCHANGED <<replays, damage, listed>>

ManifestNext == Publish \/ Relist \/ \E n, s \in Times : Observe(n, s)

-----------------------------------------------------------------------------
(* classify_step_sequence *)

Starts(es) == {p \in DOMAIN es : p = 1 \/ es[p].i # es[p - 1].i + 1}

Block(es, s) == {p \in DOMAIN es : p >= s /\ \A r \in Starts(es) : r <= s \/ r > p}

missing_steps(es) ==
  LET idxs == {es[p].i : p \in DOMAIN es} IN \E a, b \in idxs : a < b /\ a + 1 \notin idxs

\* On the first occurrence of each time.
time_not_advancing(ts) ==
  LET firsts == {p \in DOMAIN ts : \A q \in 1..(p - 1) : ts[q] # ts[p]} IN
  \E p, q \in firsts : p < q /\ ts[q] <= ts[p]

block_time_disorder(es) == \E p \in DOMAIN es \ Starts(es) : es[p].t <= es[p - 1].t

\* Mutant of conflicting_republish: any step listed again with another time.
conflicting_at_the_seam(es) ==
  \E s \in Starts(es) : \E p \in Block(es, s) :
    /\ \A q \in 1..(s - 1) : es[q] # es[p]
    /\ \E q \in 1..(s - 1) : es[q].i = es[p].i

\* A block not listed before may share one step with what was, not two.
conflicting_republish(es) ==
  \E s \in Starts(es) :
    Cardinality({p \in Block(es, s) : /\ \A q \in 1..(s - 1) : es[q] # es[p]
                                      /\ \E q \in 1..(s - 1) : es[q].i = es[p].i}) > 1

StepsWarn(es) ==
  \/ missing_steps(es) \/ time_not_advancing([p \in DOMAIN es |-> es[p].t])
  \/ block_time_disorder(es) \/ conflicting_republish(es)

-----------------------------------------------------------------------------
(* classify_timestamp_sequence, and the comparison entry by entry *)

name_mismatch(es) == \E p \in DOMAIN es : es[p].name # es[p].stated
duplicate_entry(es) == ~IsInjective(es)
file_under_two_times(es) ==
  \E p, q \in DOMAIN es : es[p].name = es[q].name /\ es[p].stated # es[q].stated

TimesWarn(es) ==
  \/ name_mismatch(es) \/ duplicate_entry(es) \/ file_under_two_times(es)
  \/ time_not_advancing([p \in DOMAIN es |-> es[p].stated])

\* A manifest may hold entries of both kinds: it is parity of the whole.
parity_verdict(es, ts) ==
  IF es = <<>> /\ ts = <<>> THEN "skip"
  ELSE IF StepsWarn(es) \/ TimesWarn(ts) THEN "warn"
  ELSE "pass"

-----------------------------------------------------------------------------
(* Property *)

\* Parity warns of a forecast exactly when steps of it are missing, out of order
\* or told twice differently, and never of the seam or of a replay; and of an
\* observed product unless it lists each file once, in the order of time
\* (layer1_product.py:506-543 and 406-435).
ParityTellsDamage ==
  LET ordered == \A p \in DOMAIN entries :
        /\ entries[p].name = entries[p].stated
        /\ \A q \in 1..(p - 1) : entries[q].stated < entries[p].stated IN
  parity_verdict(Published, entries) =
    IF Damaged \/ ~ordered THEN "warn"
    ELSE IF Published = <<>> /\ entries = <<>> THEN "skip"
    ELSE "pass"
=============================================================================

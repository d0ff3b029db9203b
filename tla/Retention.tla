----------------------------- MODULE Retention ------------------------------
(***************************************************************************)
(* The daily sweep of retention.py over the two append-only tables: rows   *)
(* older than the cutoff are counted, exported to a file of the cold store *)
(* that is named after the span of their timestamps, and then deleted in   *)
(* chunks; each is a statement of its own, and the process may end between *)
(* any two.  Rows are numbered in the order of their timestamps; `aged` is *)
(* the last one behind the cutoff.                                         *)
(***************************************************************************)
EXTENDS Integers, FiniteSetsExt

CONSTANTS
  MaxRow,   \* bound: rows that can age
  CHUNK,    \* rows per DELETE statement
  Steady,   \* has a row aged between any two cutoffs? (no gap in the recording)
  MaxStops  \* bound: restarts

ASSUME RetentionAssumption ==
  /\ MaxRow \in Nat /\ CHUNK \in Nat \ {0} /\ MaxStops \in Nat /\ Steady \in BOOLEAN

Recordings == 1..MaxRow
AppendOnly == {"check_runs", "metric_samples"}

VARIABLES
  table,  \* table -> rows in the database
  cold,   \* the files of the cold store: table, name, rows
  aged,   \* rows behind the cutoff of the latest sweep
  armed,  \* does the loop find the hour right and the date new?
  sweep,  \* the sweep in flight
  stops

retentionVars == <<table, cold, aged, armed, sweep, stops>>

NoSweep == [pc |-> "idle", of |-> "check_runs", count |-> 0, name |-> <<>>]

RetentionInit ==
  /\ table = [t \in AppendOnly |-> Recordings] /\ cold = {}
  /\ aged = 0 /\ armed = FALSE /\ sweep = NoSweep /\ stops = 0

-----------------------------------------------------------------------------

Aged(t) == table[t] \cap 1..aged

\* Mutant of Stamp: a file is named after its first row alone.
StampOfFirst(S) == <<Min(S)>>

\* The name of a file: the first and the last timestamp in it, to the second.
Stamp(S) == <<Min(S), Max(S)>>

\* run_once goes on to the other table, whatever became of this one.
Next_table(t) ==
  IF t = "check_runs" THEN [NoSweep EXCEPT !.pc = "count", !.of = "metric_samples"]
                      ELSE NoSweep

\* The hour of the sweep comes, on a new date.
TheHour == /\ ~armed /\ armed' = TRUE
           /\ UNCHANGED <<table, cold, aged, sweep, stops>>

\* _last_run_date is set before the sweep starts.
SweepBegins ==
  /\ armed /\ sweep.pc = "idle"
  /\ \E a \in aged..MaxRow : (Steady => a > aged) /\ aged' = a
  /\ armed' = FALSE
  /\ sweep' = [NoSweep EXCEPT !.pc = "count"]
  /\ UNCHANGED <<table, cold, stops>>

\* One statement counts the rows; of metric_samples it reads the span as well.
Count ==
  LET t == sweep.of IN
  /\ sweep.pc = "count"
  /\ sweep' = IF Aged(t) = {} THEN Next_table(t)
              ELSE [sweep EXCEPT !.count = Cardinality(Aged(t)),
                      !.pc   = IF t = "check_runs" THEN "span" ELSE "export",
                      !.name = IF t = "check_runs" THEN <<>> ELSE Stamp(Aged(t))]
  /\ UNCHANGED <<table, cold, aged, armed, stops>>

Span ==
  /\ sweep.pc = "span"
  /\ sweep' = [sweep EXCEPT !.pc = "export", !.name = Stamp(Aged(sweep.of))]
  /\ UNCHANGED <<table, cold, aged, armed, stops>>

\* _export_query writes beside the file and renames over it: a file of that name
\* is replaced, and never seen half written.
Offload(S) ==
  cold' = {f \in cold : f.of # sweep.of \/ f.name # sweep.name}
            \cup {[of |-> sweep.of, name |-> sweep.name, rows |-> S]}

_export_query ==
  /\ sweep.pc = "export"
  /\ Offload(Aged(sweep.of))
  /\ sweep' = IF Cardinality(Aged(sweep.of)) = sweep.count
              THEN [sweep EXCEPT !.pc = "delete"] ELSE Next_table(sweep.of)
  /\ UNCHANGED <<table, aged, armed, stops>>

\* Any of the statements fails, or the disk does, before the rename.
OffloadError ==
  /\ sweep.pc \in {"count", "span", "export", "delete"}
  /\ sweep' = Next_table(sweep.of)
  /\ UNCHANGED <<table, cold, aged, armed, stops>>

\* One DELETE of at most CHUNK rows, in the order they lie on disk, which is any.
DeleteChunk ==
  /\ sweep.pc = "delete"
  /\ \E S \in SUBSET Aged(sweep.of) :
       /\ Cardinality(S) = IF Cardinality(Aged(sweep.of)) < CHUNK
                           THEN Cardinality(Aged(sweep.of)) ELSE CHUNK
       /\ table' = [table EXCEPT ![sweep.of] = @ \ S]
       /\ sweep' = IF S = {} THEN Next_table(sweep.of) ELSE sweep
  /\ UNCHANGED <<cold, aged, armed, stops>>

\* A restart forgets _last_run_date: within the hour the sweep runs again.
StopAndStart ==
  /\ stops < MaxStops /\ stops' = stops + 1
  /\ sweep' = NoSweep
  /\ armed' \in {armed, TRUE}
  /\ UNCHANGED <<table, cold, aged>>

RetentionNext ==
  \/ TheHour \/ SweepBegins \/ Count \/ Span \/ _export_query \/ OffloadError
  \/ DeleteChunk \/ StopAndStart

\* Nothing leaves the system: whatever fails, and wherever the process ends,
\* every row ever recorded is in its table or in a file of the cold store
\* (retention.py:10-14).
NothingLost ==
  \A t \in AppendOnly :
    table[t] \cup UNION {f.rows : f \in {g \in cold : g.of = t}} = Recordings
=============================================================================

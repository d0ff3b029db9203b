------------------------------- MODULE Receipt ------------------------------
(***************************************************************************)
(* Which radars are in the composite (checks/layer3_backend_processing.py, *)
(* _participation): read from the second-newest log of the composite's     *)
(* runs, or, where no log can answer, from a receipt its script truncates  *)
(* and writes line by line under the reader.  The parse is shared by the   *)
(* checks of all radars: a short one would declare radars absent.          *)
(***************************************************************************)
EXTENDS Integers, FiniteSets

CONSTANTS
  Reader,
  Lines,                     \* of a whole receipt, and blocks of a whole log
  COMPOSITE_RECEIPT_SETTLE,
  MaxWrite, MaxGap,          \* how long a rewrite takes, and a pause within one
  Rest,                      \* at least so long between two rewrites
  LogsAtStart,               \* 0: no directory of logs is configured
  MaxLogs, MaxWrites         \* bounds on the history

\* A rewrite is over within the window, and rewrites are further apart than it.
\* A directory of logs holds those of many runs: where there is a single one it
\* is read though it may be unfinished, which _pick_run_log says and accepts.
ASSUME ReceiptAssumption ==
  /\ Lines \in Nat \ {0}
  /\ {COMPOSITE_RECEIPT_SETTLE, MaxWrite, Rest} \subseteq Nat
  /\ MaxWrite < COMPOSITE_RECEIPT_SETTLE /\ COMPOSITE_RECEIPT_SETTLE < Rest
  /\ LogsAtStart \subseteq Nat \ {1}

VARIABLES
  file,     \* the receipt: lines, (mtime, size) as a count, its age, its writer
  logs,     \* how many logs, and the blocks of the newest
  reader,   \* the state of each check's call
  cache     \* _receipt_cache

receiptVars == <<file, logs, reader, cache>>

Idle == [pc |-> "idle", key |-> 0, left |-> 0, before |-> 0, lines |-> 0, again |-> FALSE]

ReceiptInit ==
  /\ file = [lines |-> Lines, stamp |-> 0, age |-> Rest, writing |-> FALSE, took |-> 0, writes |-> 0]
  /\ logs \in [count : LogsAtStart, blocks : {Lines}]
  /\ reader = [r \in Reader |-> Idle]
  /\ cache = [of |-> "none", at |-> 0, lines |-> 0]

-----------------------------------------------------------------------------
(* The composite and its script *)

Truncate ==
  /\ ~file.writing /\ file.age >= Rest /\ file.writes < MaxWrites
  /\ file' = [lines |-> 0, stamp |-> file.stamp + 1, age |-> 0, writing |-> TRUE, took |-> 0,
              writes |-> file.writes + 1]
  /\ UNCHANGED <<logs, reader, cache>>

WriteLine ==
  /\ file.writing
  /\ file' = [file EXCEPT !.lines = @ + 1, !.stamp = @ + 1, !.age = 0,
                          !.writing = file.lines + 1 < Lines]
  /\ UNCHANGED <<logs, reader, cache>>

\* One run of the composite after the other, each with a log of its own.
LogStarts ==
  /\ logs.count \in 1..(MaxLogs - 1) /\ logs.blocks = Lines
  /\ logs' = [count |-> logs.count + 1, blocks |-> 0]
  /\ UNCHANGED <<file, reader, cache>>

LogBlock ==
  /\ logs.blocks < Lines
  /\ logs' = [logs EXCEPT !.blocks = @ + 1]
  /\ UNCHANGED <<file, reader, cache>>

\* A sleep ends on time, and a rewrite does not outlast its bounds.
Tick ==
  /\ file.writing => file.took < MaxWrite /\ file.age < MaxGap
  /\ \A r \in Reader : reader[r].pc = "settling" => reader[r].left > 0
  /\ file' = [file EXCEPT !.age = IF @ < Rest THEN @ + 1 ELSE @, !.took = IF file.writing THEN @ + 1 ELSE @]
  /\ reader' = [r \in Reader |->
       IF reader[r].pc = "settling" THEN [reader[r] EXCEPT !.left = @ - 1] ELSE reader[r]]
  /\ UNCHANGED <<logs, cache>>

-----------------------------------------------------------------------------
(* _participation *)

Goes(r, state) == reader' = [reader EXCEPT ![r] = state] /\ UNCHANGED <<file, logs, cache>>

Answered(r, of, at, lines) ==
  /\ cache' = [of |-> of, at |-> at, lines |-> lines]
  /\ reader' = [reader EXCEPT ![r] = Idle]
  /\ UNCHANGED <<file, logs>>

Cached(of, at) == cache.of = of /\ cache.at = at

\* The second-newest log; the only one, where there is no second.
_pick_run_log == IF logs.count >= 2 THEN logs.count - 1 ELSE logs.count

AskLog(r) ==
  /\ reader[r].pc = "idle" /\ logs.count > 0 /\ ~Cached("run_log", _pick_run_log)
  /\ Goes(r, [Idle EXCEPT !.pc = "log"])

\* Picked anew; what cannot be read, or has no block in it, leaves it to the receipt.
_read_run_log_blocking(r) ==
  /\ reader[r].pc = "log"
  /\ LET blocks == IF _pick_run_log = logs.count THEN logs.blocks ELSE Lines IN
     \/ blocks # 0 /\ Answered(r, "run_log", _pick_run_log, blocks)
     \/ Goes(r, [Idle EXCEPT !.pc = "no_log"])

\* The parse will be kept under what the receipt was when it was asked for.
AskReceipt(r) ==
  /\ reader[r].pc = (IF logs.count = 0 THEN "idle" ELSE "no_log")
  /\ IF Cached("receipt", file.stamp) THEN reader[r].pc # "idle" /\ Goes(r, Idle)
     ELSE Goes(r, [Idle EXCEPT !.pc = "stat", !.key = file.stamp])

\* Written moments ago: the window is waited out, once.
StatBefore(r) ==
  /\ reader[r].pc = "stat"
  /\ Goes(r, IF file.age < COMPOSITE_RECEIPT_SETTLE
             THEN [reader[r] EXCEPT !.pc = "settling", !.left = COMPOSITE_RECEIPT_SETTLE - file.age]
             ELSE [reader[r] EXCEPT !.pc = "read", !.before = file.stamp])

Settled(r) ==
  /\ reader[r].pc = "settling" /\ reader[r].left = 0
  /\ Goes(r, [reader[r] EXCEPT !.pc = "read", !.before = file.stamp])

Read(r) ==
  /\ reader[r].pc = "read"
  /\ Goes(r, [reader[r] EXCEPT !.pc = "check", !.lines = file.lines])

\* Mutant of Torn: the receipt is not looked at again after it was read.
NeverTorn(r) == FALSE

Torn(r) == file.stamp # reader[r].before

StatAfter(r) ==
  /\ reader[r].pc = "check" /\ ~Torn(r)
  /\ Answered(r, "receipt", reader[r].key, reader[r].lines)

\* Once more; torn again, the check is an error and says nothing of the radar.
TornReceipt(r) ==
  /\ reader[r].pc = "check" /\ Torn(r)
  /\ Goes(r, IF reader[r].again THEN Idle
             ELSE [reader[r] EXCEPT !.pc = "stat", !.again = TRUE])

ReceiptNext ==
  \/ Truncate \/ WriteLine \/ LogStarts \/ LogBlock \/ Tick
  \/ \E r \in Reader :
       \/ AskLog(r) \/ _read_run_log_blocking(r) \/ AskReceipt(r)
       \/ StatBefore(r) \/ Settled(r) \/ Read(r) \/ StatAfter(r) \/ TornReceipt(r)

-----------------------------------------------------------------------------
(* Property *)

\* What the checks of the radars are told is a whole receipt or the log of a run
\* that is over, however the rewrite falls around the read: no radar is declared
\* absent because its line was not written yet (layer3_backend_processing.py:137-165).
ParsedIsWhole == cache.of # "none" => cache.lines = Lines
=============================================================================

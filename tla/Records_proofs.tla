-------------------------- MODULE Records_proofs ---------------------------
(***************************************************************************)
(* Proofs about what a check makes of what it reads, what becomes of its   *)
(* rows, and what the daily report makes of the days: the reading of a     *)
(* receipt under its writer, the task that mails one report a day, the     *)
(* latch of the fleets, the look for the newest volume in a tree that is   *)
(* written meanwhile, the rows that are judged again, once and a second    *)
(* time, the figures of the report, and the parity of a manifest, for any  *)
(* number of readers, lines, hours, zones, versions of the schedule and    *)
(* radars, any tree, any observations, any thresholds, windows of any      *)
(* length, and forecasts of any length, listed any number of times.        *)
(***************************************************************************)
EXTENDS Receipt, Digest, Fleet, Arrival, Reprocess, Report, Manifest,
        FiniteSetTheorems, SequenceTheorems, WellFoundedInduction, TLAPS

-----------------------------------------------------------------------------
(* The reading of the receipt *)

ReceiptSpec == ReceiptInit /\ [][ReceiptNext]_receiptVars

ReceiptTypeOK ==
  /\ file \in [lines : Nat, stamp : Nat, age : Nat, writing : BOOLEAN, took : Nat, writes : Nat]
  /\ logs \in [count : Nat, blocks : Nat]
  /\ reader \in [Reader -> [pc : {"idle", "log", "no_log", "stat", "settling", "read", "check"},
                            key : Nat, left : Nat, before : Nat, lines : Nat, again : BOOLEAN]]
  /\ cache \in [of : {"none", "run_log", "receipt"}, at : Nat, lines : Nat]

\* A file that is not being written is whole; a rewrite is not older than the
\* pause in it, nor than it may take.
FileSound ==
  /\ IF file.writing THEN file.lines < Lines /\ file.age <= file.took /\ file.took <= MaxWrite
     ELSE file.lines = Lines
  /\ file.age <= Rest

\* The log that is read is not the only one.
LogSound ==
  /\ logs.count # 1
  /\ \A r \in Reader : reader[r].pc = "log" => logs.count # 0

\* Who waits the window out will find the file at rest: what is being written
\* now is older than the window by then, and nothing new begins before.
Settling ==
  \A r \in Reader : reader[r].pc = "settling" =>
    /\ file.age + reader[r].left <= COMPOSITE_RECEIPT_SETTLE
    /\ file.writing => file.took + reader[r].left >= COMPOSITE_RECEIPT_SETTLE

\* As long as the receipt has not changed since it was looked at, it was whole,
\* and what was read of it is.
Reading ==
  \A r \in Reader :
    reader[r].pc \in {"read", "check"} =>
      /\ reader[r].before <= file.stamp
      /\ reader[r].before = file.stamp =>
           ~file.writing /\ (reader[r].pc = "check" => reader[r].lines = Lines)

ReceiptInv == ReceiptTypeOK /\ FileSound /\ LogSound /\ Settling /\ Reading /\ ParsedIsWhole

\* A reader moves: the file and the cache do not.
LEMMA GoesStep ==
  ASSUME ReceiptInv, NEW r \in Reader, NEW state, Goes(r, state),
         state \in [pc : {"idle", "log", "no_log", "stat", "settling", "read", "check"},
                    key : Nat, left : Nat, before : Nat, lines : Nat, again : BOOLEAN],
         state.pc = "log" => logs.count # 0,
         state.pc = "settling" =>
           /\ file.age + state.left <= COMPOSITE_RECEIPT_SETTLE
           /\ file.writing => file.took + state.left >= COMPOSITE_RECEIPT_SETTLE,
         state.pc \in {"read", "check"} =>
           /\ state.before <= file.stamp
           /\ state.before = file.stamp =>
                ~file.writing /\ (state.pc = "check" => state.lines = Lines)
  PROVE  ReceiptInv'
<1>1. /\ reader' = [reader EXCEPT ![r] = state] /\ UNCHANGED <<file, logs, cache>>
      /\ \A q \in Reader : reader'[q] = IF q = r THEN state ELSE reader[q]
  BY DEF Goes, ReceiptInv, ReceiptTypeOK
<1>2. ReceiptTypeOK'
  BY <1>1 DEF ReceiptInv, ReceiptTypeOK
<1>3. FileSound' /\ ParsedIsWhole'
  BY <1>1 DEF ReceiptInv, FileSound, ParsedIsWhole
<1>4. Settling' /\ Reading'
  BY <1>1 DEF ReceiptInv, Settling, Reading
<1>5. LogSound'
  BY <1>1 DEF ReceiptInv, LogSound
<1> QED BY <1>5, <1>2, <1>3, <1>4 DEF ReceiptInv

\* An answer ends the call, and what is kept is whole.
LEMMA AnsweredStep ==
  ASSUME ReceiptInv, NEW r \in Reader, NEW of \in {"run_log", "receipt"}, NEW at \in Nat,
         Answered(r, of, at, Lines)
  PROVE  ReceiptInv'
<1>1. /\ reader' = [reader EXCEPT ![r] = Idle] /\ UNCHANGED <<file, logs>>
      /\ \A q \in Reader : reader'[q] = IF q = r THEN Idle ELSE reader[q]
      /\ cache' = [of |-> of, at |-> at, lines |-> Lines]
  BY DEF Answered, ReceiptInv, ReceiptTypeOK
<1>2. ReceiptTypeOK'
  BY <1>1, ReceiptAssumption DEF ReceiptInv, ReceiptTypeOK, Idle
<1>3. FileSound' /\ ParsedIsWhole'
  BY <1>1 DEF ReceiptInv, FileSound, ParsedIsWhole
<1>4. Settling' /\ Reading'
  BY <1>1 DEF ReceiptInv, Settling, Reading, Idle
<1>5. LogSound'
  BY <1>1 DEF ReceiptInv, LogSound, Idle
<1> QED BY <1>5, <1>2, <1>3, <1>4 DEF ReceiptInv

\* The file changes: nobody who has looked at it finds it as it was.
LEMMA WriterStep ==
  ASSUME ReceiptInv, Truncate \/ WriteLine
  PROVE  ReceiptInv'
<1>a. /\ Lines \in Nat \ {0} /\ COMPOSITE_RECEIPT_SETTLE \in Nat /\ MaxWrite \in Nat /\ Rest \in Nat
      /\ COMPOSITE_RECEIPT_SETTLE < Rest
      /\ file \in [lines : Nat, stamp : Nat, age : Nat, writing : BOOLEAN, took : Nat, writes : Nat]
      /\ \A r \in Reader : reader[r].left \in Nat /\ reader[r].before \in Nat
  BY ReceiptAssumption DEF ReceiptInv, ReceiptTypeOK
<1>b. UNCHANGED <<logs, reader, cache>>
  BY DEF Truncate, WriteLine
<1>1. /\ file' \in [lines : Nat, stamp : Nat, age : Nat, writing : BOOLEAN, took : Nat, writes : Nat]
      /\ file'.stamp = file.stamp + 1 /\ file'.age = 0
  <2>1. CASE Truncate
    BY <1>a, <2>1 DEF Truncate
  <2>2. CASE WriteLine
    <3> DEFINE more == file.lines + 1 < Lines
    <3>1. more \in BOOLEAN /\ file.lines + 1 \in Nat /\ file.stamp + 1 \in Nat
      BY <1>a
    <3>2. file' = [file EXCEPT !.lines = file.lines + 1, !.stamp = file.stamp + 1, !.age = 0,
                               !.writing = more]
      BY <2>2 DEF WriteLine
    <3> HIDE DEF more
    <3> QED BY <1>a, <3>1, <3>2
  <2> QED BY <2>1, <2>2
<1>2. CASE Truncate
  <2>1. file'.lines = 0 /\ file'.took = 0 /\ file'.writing /\ file.age >= Rest
    BY <1>2 DEF Truncate
  <2>2. \A r \in Reader : reader[r].pc # "settling"
    BY <1>a, <2>1 DEF ReceiptInv, Settling
  <2>3. FileSound'
    BY <1>a, <1>b, <1>1, <2>1 DEF ReceiptInv, FileSound
  <2>4. Settling' /\ Reading'
    BY <1>a, <1>b, <1>1, <2>2 DEF ReceiptInv, Settling, Reading
  <2> QED BY <1>b, <1>1, <2>3, <2>4 DEF ReceiptInv, ReceiptTypeOK, LogSound, ParsedIsWhole
<1>3. CASE WriteLine
  <2>1. /\ file.writing /\ file'.lines = file.lines + 1 /\ file'.took = file.took
        /\ file'.writing = (file.lines + 1 < Lines)
    BY <1>a, <1>3 DEF WriteLine
  <2>2. FileSound'
    BY <1>a, <1>b, <1>1, <2>1 DEF ReceiptInv, FileSound
  <2>3. Settling' /\ Reading'
    BY <1>a, <1>b, <1>1, <2>1 DEF ReceiptInv, Settling, Reading
  <2> QED BY <1>b, <1>1, <2>2, <2>3 DEF ReceiptInv, ReceiptTypeOK, LogSound, ParsedIsWhole
<1> QED BY <1>2, <1>3

LEMMA ClockStep ==
  ASSUME ReceiptInv, Tick
  PROVE  ReceiptInv'
<1>a. /\ Lines \in Nat \ {0} /\ COMPOSITE_RECEIPT_SETTLE \in Nat /\ MaxWrite \in Nat /\ Rest \in Nat
      /\ COMPOSITE_RECEIPT_SETTLE < Rest
      /\ file \in [lines : Nat, stamp : Nat, age : Nat, writing : BOOLEAN, took : Nat, writes : Nat]
      /\ reader \in [Reader -> [pc : {"idle", "log", "no_log", "stat", "settling", "read", "check"},
                                key : Nat, left : Nat, before : Nat, lines : Nat, again : BOOLEAN]]
  BY ReceiptAssumption DEF ReceiptInv, ReceiptTypeOK
<1>b. UNCHANGED <<logs, cache>> /\ (file.writing => file.took < MaxWrite)
  BY DEF Tick
<1>1. /\ file' \in [lines : Nat, stamp : Nat, age : Nat, writing : BOOLEAN, took : Nat, writes : Nat]
      /\ file'.lines = file.lines /\ file'.stamp = file.stamp /\ file'.writing = file.writing
      /\ file'.age = IF file.age < Rest THEN file.age + 1 ELSE file.age
      /\ file'.took = IF file.writing THEN file.took + 1 ELSE file.took
  <2> DEFINE age == IF file.age < Rest THEN file.age + 1 ELSE file.age
             took == IF file.writing THEN file.took + 1 ELSE file.took
  <2>1. age \in Nat /\ took \in Nat
    BY <1>a
  <2>2. file' = [file EXCEPT !.age = age, !.took = took]
    BY DEF Tick
  <2> QED BY <1>a, <2>1, <2>2
<1>2. ASSUME NEW r \in Reader
      PROVE  /\ reader'[r] \in [pc : {"idle", "log", "no_log", "stat", "settling", "read", "check"},
                                key : Nat, left : Nat, before : Nat, lines : Nat, again : BOOLEAN]
             /\ reader[r].pc = "settling" =>
                  /\ reader'[r].pc = "settling" /\ reader'[r].left = reader[r].left - 1
                  /\ reader[r].left \in Nat \ {0}
             /\ reader[r].pc # "settling" => reader'[r] = reader[r]
  <2>1. CASE reader[r].pc = "settling"
    <3>1. reader'[r] = [reader[r] EXCEPT !.left = reader[r].left - 1] /\ reader[r].left > 0
      BY <2>1 DEF Tick
    <3>2. reader[r].left \in Nat \ {0} /\ reader[r].left - 1 \in Nat
      BY <1>a, <3>1
    <3> QED BY <1>a, <2>1, <3>1, <3>2
  <2>2. CASE reader[r].pc # "settling"
    BY <1>a, <2>2 DEF Tick
  <2> QED BY <2>1, <2>2
<1>3. ReceiptTypeOK'
  <2>1. reader' \in [Reader -> [pc : {"idle", "log", "no_log", "stat", "settling", "read", "check"},
                                key : Nat, left : Nat, before : Nat, lines : Nat, again : BOOLEAN]]
    <3>1. reader' = [r \in Reader |-> reader'[r]]
      BY DEF Tick
    <3> QED BY <1>2, <3>1
  <2> QED BY <1>b, <1>1, <2>1 DEF ReceiptInv, ReceiptTypeOK
<1>4. FileSound'
  BY <1>a, <1>b, <1>1 DEF ReceiptInv, FileSound
<1>5. Settling'
  <2> SUFFICES ASSUME NEW r \in Reader, reader'[r].pc = "settling"
               PROVE  /\ file'.age + reader'[r].left <= COMPOSITE_RECEIPT_SETTLE
                      /\ file'.writing => file'.took + reader'[r].left >= COMPOSITE_RECEIPT_SETTLE
    BY DEF Settling
  <2>1. reader[r].pc = "settling"
    BY <1>2
  <2>2. /\ file.age + reader[r].left <= COMPOSITE_RECEIPT_SETTLE
        /\ file.writing => file.took + reader[r].left >= COMPOSITE_RECEIPT_SETTLE
    BY <2>1 DEF ReceiptInv, Settling
  <2> QED BY <1>a, <1>1, <1>2, <2>1, <2>2
<1>6. Reading' /\ ParsedIsWhole' /\ LogSound'
  BY <1>b, <1>1, <1>2 DEF ReceiptInv, Reading, ParsedIsWhole, LogSound
<1> QED BY <1>3, <1>4, <1>5, <1>6 DEF ReceiptInv

LEMMA LogStep ==
  ASSUME ReceiptInv, LogStarts \/ LogBlock
  PROVE  ReceiptInv'
<1>1. /\ logs' \in [count : Nat, blocks : Nat] /\ logs'.count # 1
      /\ UNCHANGED <<file, reader, cache>>
  BY DEF ReceiptInv, ReceiptTypeOK, FileSound, LogSound, LogStarts, LogBlock
<1>2. logs.count # 0 => logs'.count # 0
  BY DEF ReceiptInv, ReceiptTypeOK, LogStarts, LogBlock
<1> QED
  BY <1>1, <1>2
  DEF ReceiptInv, ReceiptTypeOK, FileSound, LogSound, Settling, Reading, ParsedIsWhole

LEMMA ReaderStep ==
  ASSUME ReceiptInv, NEW r \in Reader,
         \/ AskLog(r) \/ _read_run_log_blocking(r) \/ AskReceipt(r)
         \/ StatBefore(r) \/ Settled(r) \/ Read(r) \/ StatAfter(r) \/ TornReceipt(r)
  PROVE  ReceiptInv'
<1> DEFINE State == [pc : {"idle", "log", "no_log", "stat", "settling", "read", "check"},
                     key : Nat, left : Nat, before : Nat, lines : Nat, again : BOOLEAN]
<1>a. /\ Lines \in Nat \ {0} /\ COMPOSITE_RECEIPT_SETTLE \in Nat /\ MaxWrite \in Nat
      /\ MaxWrite < COMPOSITE_RECEIPT_SETTLE
      /\ file \in [lines : Nat, stamp : Nat, age : Nat, writing : BOOLEAN, took : Nat, writes : Nat]
      /\ logs \in [count : Nat, blocks : Nat] /\ logs.count # 1
      /\ reader[r] \in State
      /\ IF file.writing THEN file.lines < Lines /\ file.age <= file.took /\ file.took <= MaxWrite
         ELSE file.lines = Lines
  BY ReceiptAssumption DEF ReceiptInv, ReceiptTypeOK, FileSound, LogSound
<1>b. Idle \in State /\ Idle.pc = "idle"
  BY DEF Idle
<1>1. CASE AskLog(r)
  <2>1. [Idle EXCEPT !.pc = "log"] \in State /\ [Idle EXCEPT !.pc = "log"].pc = "log"
    BY DEF Idle
  <2>2. logs.count # 0 /\ Goes(r, [Idle EXCEPT !.pc = "log"])
    BY <1>1, <1>a DEF AskLog
  <2> QED BY <2>1, <2>2, GoesStep
<1>2. CASE _read_run_log_blocking(r)
  <2> DEFINE blocks == IF _pick_run_log = logs.count THEN logs.blocks ELSE Lines
  <2>1. CASE Goes(r, [Idle EXCEPT !.pc = "no_log"])
    <3>1. [Idle EXCEPT !.pc = "no_log"] \in State /\ [Idle EXCEPT !.pc = "no_log"].pc = "no_log"
      BY DEF Idle
    <3> QED BY <2>1, <3>1, GoesStep
  <2>2. CASE Answered(r, "run_log", _pick_run_log, blocks)
    <3>1. _pick_run_log \in Nat /\ (logs.count # 0 => blocks = Lines)
      BY <1>a DEF _pick_run_log
    <3>2. logs.count # 0
      BY <1>2 DEF _read_run_log_blocking, ReceiptInv, LogSound
    <3> QED BY <2>2, <3>1, <3>2, AnsweredStep
  <2> QED BY <1>2, <2>1, <2>2 DEF _read_run_log_blocking
<1>3. CASE AskReceipt(r)
  <2> DEFINE q == [Idle EXCEPT !.pc = "stat", !.key = file.stamp]
  <2>1. q \in State /\ q.pc = "stat"
    BY <1>a DEF Idle
  <2>2. Goes(r, Idle) \/ Goes(r, q)
    BY <1>3 DEF AskReceipt
  <2> HIDE DEF q
  <2> QED BY <1>b, <2>1, <2>2, GoesStep
<1>4. CASE StatBefore(r)
  <2>1. CASE file.age < COMPOSITE_RECEIPT_SETTLE
    <3> DEFINE q == [reader[r] EXCEPT !.pc = "settling", !.left = COMPOSITE_RECEIPT_SETTLE - file.age]
    <3>1. /\ COMPOSITE_RECEIPT_SETTLE - file.age \in Nat
          /\ file.age + (COMPOSITE_RECEIPT_SETTLE - file.age) <= COMPOSITE_RECEIPT_SETTLE
          /\ file.writing =>
               file.took + (COMPOSITE_RECEIPT_SETTLE - file.age) >= COMPOSITE_RECEIPT_SETTLE
      BY <1>a, <2>1
    <3>2. q \in State /\ q.pc = "settling" /\ q.left = COMPOSITE_RECEIPT_SETTLE - file.age
      BY <1>a, <3>1
    <3>3. Goes(r, q)
      BY <1>4, <2>1 DEF StatBefore
    <3> HIDE DEF q
    <3> QED BY <3>1, <3>2, <3>3, GoesStep
  <2>2. CASE ~(file.age < COMPOSITE_RECEIPT_SETTLE)
    <3> DEFINE q == [reader[r] EXCEPT !.pc = "read", !.before = file.stamp]
    <3>1. ~file.writing
      BY <1>a, <2>2
    <3>2. q \in State /\ q.pc = "read" /\ q.before = file.stamp /\ file.stamp <= file.stamp
      <4>1. file.stamp \in Nat
        BY <1>a
      <4>2. file.stamp <= file.stamp
        BY <4>1
      <4> QED BY <1>a, <4>1, <4>2
    <3>3. Goes(r, q)
      BY <1>4, <2>2 DEF StatBefore
    <3> HIDE DEF q
    <3> QED BY <3>1, <3>2, <3>3, GoesStep
  <2> QED BY <2>1, <2>2
<1>5. CASE Settled(r)
  <2> DEFINE q == [reader[r] EXCEPT !.pc = "read", !.before = file.stamp]
  <2>1. ~file.writing
    <3>1. reader[r].pc = "settling" /\ reader[r].left = 0
      BY <1>5 DEF Settled
    <3>2. file.writing => file.took + 0 >= COMPOSITE_RECEIPT_SETTLE
      BY <3>1 DEF ReceiptInv, Settling
    <3> QED BY <1>a, <3>2
  <2>2. q \in State /\ q.pc = "read" /\ q.before = file.stamp /\ file.stamp <= file.stamp
    <3>1. file.stamp \in Nat
      BY <1>a
    <3>2. file.stamp <= file.stamp
      BY <3>1
    <3> QED BY <1>a, <3>1, <3>2
  <2>3. Goes(r, q)
    BY <1>5 DEF Settled
  <2> HIDE DEF q
  <2> QED BY <2>1, <2>2, <2>3, GoesStep
<1>6. CASE Read(r)
  <2> DEFINE q == [reader[r] EXCEPT !.pc = "check", !.lines = file.lines]
  <2>1. q \in State /\ q.pc = "check" /\ q.lines = file.lines /\ q.before = reader[r].before
    BY <1>a
  <2>2. /\ reader[r].before <= file.stamp
        /\ reader[r].before = file.stamp => ~file.writing
    BY <1>6 DEF Read, ReceiptInv, Reading
  <2>3. Goes(r, q)
    BY <1>6 DEF Read
  <2> HIDE DEF q
  <2> QED BY <1>a, <2>1, <2>2, <2>3, GoesStep
<1>7. CASE StatAfter(r)
  <2>1. reader[r].lines = Lines
    BY <1>7 DEF StatAfter, Torn, ReceiptInv, Reading
  <2>2. Answered(r, "receipt", reader[r].key, Lines)
    BY <1>7, <2>1 DEF StatAfter
  <2>3. reader[r].key \in Nat
    BY <1>a
  <2> QED BY <2>2, <2>3, AnsweredStep
<1>8. CASE TornReceipt(r)
  <2> DEFINE q == [reader[r] EXCEPT !.pc = "stat", !.again = TRUE]
  <2>1. q \in State /\ q.pc = "stat"
    BY <1>a
  <2>2. Goes(r, Idle) \/ Goes(r, q)
    BY <1>8 DEF TornReceipt
  <2> HIDE DEF q
  <2> QED BY <1>b, <2>1, <2>2, GoesStep
<1> QED BY <1>1, <1>2, <1>3, <1>4, <1>5, <1>6, <1>7, <1>8

LEMMA ReceiptInductive == ReceiptSpec => []ReceiptInv
<1>1. ReceiptInit => ReceiptInv
  <2> SUFFICES ASSUME ReceiptInit PROVE ReceiptInv
    OBVIOUS
  <2>1. ReceiptTypeOK
    BY ReceiptAssumption DEF ReceiptInit, ReceiptTypeOK, Idle
  <2>2. FileSound /\ LogSound
    BY ReceiptAssumption DEF ReceiptInit, FileSound, LogSound, Idle
  <2>3. Settling /\ Reading /\ ParsedIsWhole
    BY DEF ReceiptInit, Settling, Reading, ParsedIsWhole, Idle
  <2> QED BY <2>1, <2>2, <2>3 DEF ReceiptInv
<1>2. ReceiptInv /\ [ReceiptNext]_receiptVars => ReceiptInv'
  <2> SUFFICES ASSUME ReceiptInv, [ReceiptNext]_receiptVars PROVE ReceiptInv'
    OBVIOUS
  <2>1. CASE UNCHANGED receiptVars
    BY <2>1 DEF ReceiptInv, ReceiptTypeOK, FileSound, LogSound, Settling, Reading,
      ParsedIsWhole, receiptVars
  <2>2. CASE ReceiptNext
    BY <2>2, WriterStep, ClockStep, LogStep, ReaderStep DEF ReceiptNext
  <2> QED BY <2>1, <2>2
<1> QED BY <1>1, <1>2, PTL DEF ReceiptSpec

\* However a rewrite falls around a read, the checks of the radars are told a
\* whole receipt or the log of a run that is over (_participation,
\* _read_receipt_blocking).
THEOREM ReceiptsAreReadWhole == ReceiptSpec => []ParsedIsWhole
<1>1. ReceiptInv => ParsedIsWhole
  BY DEF ReceiptInv
<1> QED BY <1>1, ReceiptInductive, PTL
-----------------------------------------------------------------------------
(* The task that mails the daily report *)

DigestSpec == DigestInit /\ [][DigestNext]_digestVars

DigestTypeOK ==
  /\ clock \in Nat /\ ticked \in BOOLEAN
  /\ cfg \in Schedule /\ setting \in Schedule
  /\ unapplied \in BOOLEAN /\ release \in BOOLEAN
  /\ claim \in Nat \cup {Unclaimed}
  /\ tick \in [pc : {"idle", "release", "claim", "send"}, date : Nat, hour : Nat, version : Nat]
  /\ reports \in Seq([date : Nat, version : Nat])
  /\ version \in Nat
  /\ started \in Nat \cup {-1}
  /\ upset \in [now : BOOLEAN, count : Nat]

\* A date was reported on under a version of the schedule.
Told(log, d, v) == \E i \in 1..Len(log) : log[i] = [date |-> d, version |-> v]

\* The tick in flight began under the schedule in force.
Current == tick.pc # "idle" /\ tick.version = version

VersionsKnown ==
  /\ tick.pc # "idle" => tick.version <= version
  /\ \A d, v \in Nat : Told(reports, d, v) => v <= version

\* What the tick in flight may rely on: none of its schedule's reports is of a
\* later date, one of its own date still holds the claim, and a tick that
\* releases or sends is the first to.
TickKnows ==
  tick.pc # "idle" =>
    /\ tick.version = version => tick.date <= Date(clock, cfg.tz)
    /\ tick.version # version => \A d \in Nat : ~Told(reports, d, version)
    /\ tick.pc = "send" => claim = tick.date
    /\ \A d \in Nat : Told(reports, d, tick.version) =>
         /\ tick.pc # "release"
         /\ d <= tick.date
         /\ d = tick.date => tick.pc = "claim" /\ claim = tick.date

\* Once a schedule has a report, its release is over, and the claim lies between
\* its last report and today.
ClaimKnows ==
  \A d \in Nat : Told(reports, d, version) =>
    /\ ~release
    /\ claim # Unclaimed /\ d <= claim /\ claim <= Date(clock, cfg.tz)

\* The flag of a new schedule waits for the tick of the old one, and is down for
\* the ticks of its own.
FlagKnows ==
  /\ Current => ~release
  /\ tick.pc # "idle" /\ tick.version # version /\ ~upset.now => release

\* Where nothing failed, a claim that is not about to be released is kept by a
\* report, sent or about to be.
ClaimIsKept ==
  ~upset.now /\ ~release /\ claim # Unclaimed =>
    \/ Told(reports, claim, version)
    \/ Current /\ tick.pc \in {"release", "send"}

\* The hour of the schedule does not pass without its report, sent or about to be.
HoursDone ==
  \A t \in started + 1 .. clock :
    /\ t < clock \/ ticked
    /\ cfg.enabled /\ Hour(t, cfg.tz) = cfg.hour /\ ~upset.now
    => \/ Told(reports, Date(t, cfg.tz), version)
       \/ Current /\ tick.date = Date(t, cfg.tz) /\ tick.hour = cfg.hour

DigestInv ==
  /\ DigestTypeOK /\ VersionsKnown /\ OneReportPerSchedule
  /\ TickKnows /\ ClaimKnows /\ FlagKnows /\ ClaimIsKept /\ HoursDone

\* Days do not go back, and an hour of the day is a number.
LEMMA DateFacts ==
  ASSUME NEW t \in Nat, NEW tz \in Nat
  PROVE  Date(t, tz) \in Nat /\ Hour(t, tz) \in Nat /\ Date(t, tz) <= Date(t + 1, tz)
<1>1. HoursPerDay \in Nat \ {0}
  BY DigestAssumption
<1> DEFINE n == HoursPerDay
           x == t + tz
           q == x \div n
           p == (x + 1) \div n
<1>2. x \in Nat /\ x + 1 \in Nat /\ t + 1 + tz = x + 1
  OBVIOUS
<1>3. q \in Int /\ q * n <= x /\ x < (q + 1) * n
  BY <1>1, <1>2
<1>4. p \in Int /\ p * n <= x + 1 /\ x + 1 < (p + 1) * n
  BY <1>1, <1>2
<1>5. q \in Nat /\ q <= p
  <2> HIDE DEF q, p, x, n
  <2> QED BY <1>1, <1>2, <1>3, <1>4 DEF n
<1>6. x % n \in Nat
  BY <1>1, <1>2
<1> QED BY <1>2, <1>5, <1>6 DEF Date, Hour

LEMMA ToldAppend ==
  ASSUME NEW log \in Seq([date : Nat, version : Nat]), NEW e \in [date : Nat, version : Nat]
  PROVE  /\ Append(log, e) \in Seq([date : Nat, version : Nat])
         /\ \A d, v \in Nat :
              Told(Append(log, e), d, v) <=> Told(log, d, v) \/ (d = e.date /\ v = e.version)
<1> DEFINE more == Append(log, e)
<1>1. /\ more \in Seq([date : Nat, version : Nat]) /\ Len(log) \in Nat /\ Len(more) = Len(log) + 1
      /\ \A i \in 1..Len(log) : more[i] = log[i]
      /\ more[Len(log) + 1] = e
  OBVIOUS
<1> HIDE DEF more
<1>2. ASSUME NEW d \in Nat, NEW v \in Nat
      PROVE  Told(more, d, v) <=> Told(log, d, v) \/ (d = e.date /\ v = e.version)
  <2> DEFINE row == [date |-> d, version |-> v]
  <2>1. (e = row) <=> (d = e.date /\ v = e.version)
    OBVIOUS
  <2> HIDE DEF row
  <2>2. (\E i \in 1..Len(more) : more[i] = row) <=> (\E i \in 1..Len(log) : log[i] = row) \/ e = row
    <3>1. ASSUME NEW i \in 1..Len(more), more[i] = row
          PROVE  (\E j \in 1..Len(log) : log[j] = row) \/ e = row
      <4>1. i \in 1..Len(log) \/ i = Len(log) + 1
        BY <1>1
      <4> QED BY <1>1, <3>1, <4>1
    <3>2. ASSUME NEW i \in 1..Len(log), log[i] = row
          PROVE  \E j \in 1..Len(more) : more[j] = row
      <4>1. i \in 1..Len(more)
        BY <1>1
      <4>2. more[i] = row
        BY <1>1, <3>2
      <4> QED BY <4>1, <4>2
    <3>3. Len(log) + 1 \in 1..Len(more)
      BY <1>1
    <3> QED BY <1>1, <3>1, <3>2, <3>3
  <2> QED BY <2>1, <2>2 DEF Told, row
<1> QED BY <1>1, <1>2 DEF more

\* What the state of the task is made of.
LEMMA DigestTypes ==
  ASSUME DigestTypeOK
  PROVE  /\ clock \in Nat /\ cfg \in [enabled : BOOLEAN, hour : 0..HoursPerDay - 1, tz : Zone]
         /\ cfg.tz \in Nat /\ cfg.enabled \in BOOLEAN
         /\ Date(clock, cfg.tz) \in Nat /\ Hour(clock, cfg.tz) \in Nat
         /\ Date(clock, cfg.tz) <= Date(clock + 1, cfg.tz)
         /\ tick \in [pc : {"idle", "release", "claim", "send"}, date : Nat, hour : Nat,
                      version : Nat]
         /\ upset \in [now : BOOLEAN, count : Nat]
         /\ NoTick \in [pc : {"idle", "release", "claim", "send"}, date : Nat, hour : Nat,
                        version : Nat]
         /\ NoTick.pc = "idle"
<1>1. cfg.tz \in Nat /\ clock \in Nat
  BY DigestAssumption DEF DigestTypeOK, Schedule
<1>2. NoTick \in [pc : {"idle", "release", "claim", "send"}, date : Nat, hour : Nat, version : Nat]
      /\ NoTick.pc = "idle"
  BY DEF NoTick
<1> QED BY <1>1, <1>2, DateFacts DEF DigestTypeOK, Schedule

LEMMA UpsetCounts ==
  ASSUME DigestTypeOK, Upset
  PROVE  upset' \in [now : BOOLEAN, count : Nat] /\ upset'.now
BY DEF DigestTypeOK, Upset

\* What is stored, and not yet in force, changes nothing.
LEMMA StoredStep ==
  ASSUME DigestInv, setting' \in Schedule, unapplied' \in BOOLEAN,
         UNCHANGED <<clock, ticked, cfg, release, claim, tick, reports, version, started, upset>>
  PROVE  DigestInv'
BY DEF DigestInv, DigestTypeOK, VersionsKnown, OneReportPerSchedule, TickKnows, ClaimKnows,
  FlagKnows, ClaimIsKept, HoursDone, Current

LEMMA HourStep ==
  ASSUME DigestInv, HourPasses
  PROVE  DigestInv'
<1>a. /\ clock \in Nat /\ started \in Nat \cup {-1}
      /\ Date(clock, cfg.tz) \in Nat /\ Date(clock + 1, cfg.tz) \in Nat
      /\ Date(clock, cfg.tz) <= Date(clock + 1, cfg.tz)
      /\ tick.date \in Nat /\ claim \in Nat \cup {Unclaimed} /\ version \in Nat
  <2>1. DigestTypeOK
    BY DEF DigestInv
  <2>2. Date(clock + 1, cfg.tz) \in Nat
    BY <2>1, DigestTypes, DateFacts
  <2> QED BY <2>1, <2>2, DigestTypes DEF DigestTypeOK
<1>b. /\ clock' = clock + 1 /\ ticked /\ ticked' = FALSE
      /\ UNCHANGED <<cfg, setting, unapplied, release, claim, tick, reports, version, started, upset>>
  BY DEF HourPasses
<1>1. DigestTypeOK'
  <2>1. clock' \in Nat
    <3>1. clock + 1 \in Nat
      BY <1>a
    <3> QED BY <1>b, <3>1
  <2>2. ticked' \in BOOLEAN
    BY <1>b
  <2> QED BY <1>b, <2>1, <2>2 DEF DigestInv, DigestTypeOK
<1>2. VersionsKnown' /\ OneReportPerSchedule' /\ FlagKnows' /\ ClaimIsKept'
  BY <1>b DEF DigestInv, VersionsKnown, OneReportPerSchedule, FlagKnows, ClaimIsKept, Current
<1>3. TickKnows'
  BY <1>a, <1>b DEF DigestInv, TickKnows
<1>4. ClaimKnows'
  <2> SUFFICES ASSUME NEW d \in Nat, Told(reports, d, version)
               PROVE  /\ ~release /\ claim # Unclaimed /\ d <= claim
                      /\ claim <= Date(clock + 1, cfg.tz)
    BY <1>b DEF ClaimKnows
  <2>1. /\ ~release /\ claim # Unclaimed /\ d <= claim /\ claim <= Date(clock, cfg.tz)
    BY DEF DigestInv, ClaimKnows
  <2>2. claim \in Nat
    BY <1>a, <2>1
  <2> QED BY <1>a, <2>1, <2>2
<1>5. HoursDone'
  <2> SUFFICES ASSUME NEW t \in started + 1 .. clock + 1, t < clock + 1,
                      cfg.enabled, Hour(t, cfg.tz) = cfg.hour, ~upset.now
               PROVE  \/ Told(reports, Date(t, cfg.tz), version)
                      \/ Current /\ tick.date = Date(t, cfg.tz) /\ tick.hour = cfg.hour
    BY <1>b DEF HoursDone, Current
  <2>1. t \in started + 1 .. clock
    BY <1>a
  <2> QED BY <1>b, <2>1 DEF DigestInv, HoursDone
<1> QED BY <1>1, <1>2, <1>3, <1>4, <1>5 DEF DigestInv

LEMMA BeginStep ==
  ASSUME DigestInv, TickBegins
  PROVE  DigestInv'
<1> DEFINE reading == [pc |-> "release", version |-> version,
                   date |-> Date(clock, cfg.tz), hour |-> Hour(clock, cfg.tz)]
<1>a. /\ DigestTypeOK /\ version \in Nat /\ started \in Nat \cup {-1} /\ clock \in Nat
      /\ claim \in Nat \cup {Unclaimed} /\ cfg.enabled \in BOOLEAN /\ release \in BOOLEAN
      /\ Date(clock, cfg.tz) \in Nat /\ Hour(clock, cfg.tz) \in Nat
      /\ tick \in [pc : {"idle", "release", "claim", "send"}, date : Nat, hour : Nat, version : Nat]
  BY DigestTypes DEF DigestInv, DigestTypeOK
<1>b. /\ tick.pc = "idle" /\ ticked' = TRUE /\ release' = (release /\ ~cfg.enabled)
      /\ UNCHANGED <<clock, cfg, setting, unapplied, claim, reports, version, started, upset>>
  BY DEF TickBegins
<1>1. CASE ~cfg.enabled
  <2>1. tick' = tick /\ release' = release
    BY <1>1, <1>a, <1>b DEF TickBegins
  <2>2. HoursDone'
    BY <1>1, <1>b DEF HoursDone
  <2> QED
    BY <1>a, <1>b, <2>1, <2>2 DEF DigestInv, DigestTypeOK, VersionsKnown, OneReportPerSchedule,
      TickKnows, ClaimKnows, FlagKnows, ClaimIsKept, Current
<1>2. CASE cfg.enabled
  <2>1. release' = FALSE
    BY <1>2, <1>b
  <2>2. /\ tick' \in [pc : {"idle", "release", "claim", "send"}, date : Nat, hour : Nat,
                      version : Nat]
        /\ tick'.version = version /\ tick'.date = Date(clock, cfg.tz)
        /\ tick'.hour = Hour(clock, cfg.tz)
        /\ release => tick'.pc = "release"
        /\ ~release => tick'.pc = IF Hour(clock, cfg.tz) = cfg.hour THEN "claim" ELSE "idle"
    <3>1. tick' = IF release THEN reading ELSE AtTheHour(reading)
      BY <1>2 DEF TickBegins
    <3>2. reading \in [pc : {"idle", "release", "claim", "send"}, date : Nat, hour : Nat, version : Nat]
      BY <1>a
    <3> QED BY <1>a, <3>1, <3>2 DEF AtTheHour
  <2>3. DigestTypeOK'
    BY <1>a, <1>b, <2>1, <2>2 DEF DigestTypeOK
  <2>4. VersionsKnown' /\ OneReportPerSchedule'
    BY <1>a, <1>b, <2>2 DEF DigestInv, VersionsKnown, OneReportPerSchedule
  <2>5. TickKnows'
    <3> SUFFICES ASSUME tick'.pc # "idle"
                 PROVE  /\ tick'.date <= Date(clock, cfg.tz)
                        /\ tick'.pc # "send"
                        /\ \A d \in Nat : Told(reports, d, version) =>
                             /\ tick'.pc # "release" /\ d <= tick'.date
                             /\ d = tick'.date => tick'.pc = "claim" /\ claim = tick'.date
      BY <1>b, <2>2 DEF TickKnows
    <3>1. tick'.date <= Date(clock, cfg.tz) /\ tick'.pc # "send"
      BY <1>a, <2>2
    <3>2. ASSUME NEW d \in Nat, Told(reports, d, version)
          PROVE  /\ tick'.pc # "release" /\ d <= tick'.date
                 /\ d = tick'.date => tick'.pc = "claim" /\ claim = tick'.date
      <4>1. ~release /\ claim # Unclaimed /\ d <= claim /\ claim <= Date(clock, cfg.tz)
        BY <3>2 DEF DigestInv, ClaimKnows
      <4>2. claim \in Nat
        BY <1>a, <4>1
      <4> QED BY <1>a, <2>2, <4>1, <4>2
    <3> QED BY <3>1, <3>2
  <2>6. ClaimKnows' /\ FlagKnows'
    BY <1>a, <1>b, <2>1, <2>2 DEF DigestInv, ClaimKnows, FlagKnows, Current
  <2>7. ClaimIsKept'
    BY <1>a, <1>b, <2>1, <2>2 DEF DigestInv, ClaimIsKept, Current
  <2>8. HoursDone'
    <3> SUFFICES ASSUME NEW t \in started + 1 .. clock, Hour(t, cfg.tz) = cfg.hour, ~upset.now
                 PROVE  \/ Told(reports, Date(t, cfg.tz), version)
                        \/ Current' /\ tick'.date = Date(t, cfg.tz) /\ tick'.hour = cfg.hour
      BY <1>b DEF HoursDone
    <3>1. CASE t < clock
      BY <1>2, <1>b, <3>1 DEF DigestInv, HoursDone, Current
    <3>2. CASE t = clock
      BY <1>b, <2>2, <3>2 DEF Current
    <3> QED BY <1>a, <3>1, <3>2
  <2> QED BY <2>3, <2>4, <2>5, <2>6, <2>7, <2>8 DEF DigestInv
<1> QED BY <1>1, <1>2, <1>a

LEMMA ReleaseStep ==
  ASSUME DigestInv, _release
  PROVE  DigestInv'
<1>a. /\ DigestTypeOK /\ version \in Nat /\ claim \in Nat \cup {Unclaimed}
      /\ tick \in [pc : {"idle", "release", "claim", "send"}, date : Nat, hour : Nat, version : Nat]
  BY DigestTypes DEF DigestInv, DigestTypeOK
<1>b. /\ tick.pc = "release"
      /\ UNCHANGED <<clock, ticked, cfg, setting, unapplied, release, reports, version, started>>
      /\ tick' = [tick EXCEPT !.pc = IF tick.hour = cfg.hour THEN "claim" ELSE "idle"]
  BY DEF _release, AtTheHour
<1>c. /\ tick' \in [pc : {"idle", "release", "claim", "send"}, date : Nat, hour : Nat, version : Nat]
      /\ tick'.pc = (IF tick.hour = cfg.hour THEN "claim" ELSE "idle")
      /\ tick'.date = tick.date /\ tick'.hour = tick.hour /\ tick'.version = tick.version
  BY <1>a, <1>b
<1>d. \/ claim' = Unclaimed /\ upset' = upset
      \/ claim' = claim /\ upset' \in [now : BOOLEAN, count : Nat] /\ upset'.now
  BY <1>a, UpsetCounts DEF _release
<1>e. \A d \in Nat : ~Told(reports, d, tick.version)
  BY <1>b DEF DigestInv, TickKnows
<1>f. \A d \in Nat : ~Told(reports, d, version)
  BY <1>b, <1>e DEF DigestInv, TickKnows
<1>1. DigestTypeOK'
  BY <1>a, <1>b, <1>c, <1>d DEF DigestTypeOK
<1>2. VersionsKnown' /\ OneReportPerSchedule'
  BY <1>b, <1>c DEF DigestInv, VersionsKnown, OneReportPerSchedule
<1>3. TickKnows' /\ ClaimKnows'
  BY <1>a, <1>b, <1>c, <1>e, <1>f DEF DigestInv, TickKnows, ClaimKnows
<1>4. FlagKnows'
  BY <1>a, <1>b, <1>c, <1>d DEF DigestInv, FlagKnows, Current
<1>5. ClaimIsKept'
  BY <1>a, <1>b, <1>c, <1>d DEF DigestInv, FlagKnows, ClaimIsKept, Current
<1>6. HoursDone'
  BY <1>a, <1>b, <1>c, <1>d DEF DigestInv, HoursDone, Current
<1> QED BY <1>1, <1>2, <1>3, <1>4, <1>5, <1>6 DEF DigestInv

LEMMA ClaimStep ==
  ASSUME DigestInv, _claim \/ ClaimFails
  PROVE  DigestInv'
<1>a. /\ DigestTypeOK /\ version \in Nat /\ claim \in Nat \cup {Unclaimed}
      /\ tick \in [pc : {"idle", "release", "claim", "send"}, date : Nat, hour : Nat, version : Nat]
      /\ NoTick \in [pc : {"idle", "release", "claim", "send"}, date : Nat, hour : Nat,
                     version : Nat]
      /\ NoTick.pc = "idle" /\ Date(clock, cfg.tz) \in Nat /\ Unclaimed = -1
  BY DigestTypes DEF DigestInv, DigestTypeOK, Unclaimed
<1>b. /\ tick.pc = "claim" /\ claim' \in {claim, tick.date}
      /\ UNCHANGED <<clock, ticked, cfg, setting, unapplied, release, reports, version, started>>
  BY DEF _claim, ClaimFails
<1>c. ASSUME NEW d \in Nat, Told(reports, d, version)
      PROVE  /\ ~release /\ claim' # Unclaimed /\ d <= claim' /\ claim' <= Date(clock, cfg.tz)
  <2>1. ~release /\ claim # Unclaimed /\ d <= claim /\ claim <= Date(clock, cfg.tz)
    BY <1>c DEF DigestInv, ClaimKnows
  <2>2. tick.version = version /\ d <= tick.date /\ tick.date <= Date(clock, cfg.tz)
    BY <1>b, <1>c DEF DigestInv, TickKnows
  <2> QED BY <1>a, <1>b, <2>1, <2>2
<1>d. ClaimKnows'
  BY <1>b, <1>c DEF ClaimKnows
<1>e. VersionsKnown' /\ OneReportPerSchedule'
      <=> (tick'.pc # "idle" => tick'.version <= version)
  BY <1>b DEF DigestInv, VersionsKnown, OneReportPerSchedule
<1>1. CASE _claim
  <2>1. /\ claim' = tick.date /\ UNCHANGED upset
        /\ tick' \in [pc : {"idle", "release", "claim", "send"}, date : Nat, hour : Nat,
                      version : Nat]
        /\ tick'.pc = (IF claim = tick.date THEN "idle" ELSE "send")
        /\ tick'.date = tick.date /\ tick'.hour = tick.hour /\ tick'.version = tick.version
    BY <1>a, <1>1 DEF _claim
  <2>2. DigestTypeOK'
    BY <1>a, <1>b, <2>1 DEF DigestTypeOK
  <2>3. VersionsKnown' /\ OneReportPerSchedule'
    BY <1>b, <1>e, <2>1 DEF DigestInv, VersionsKnown
  <2>4. TickKnows'
    BY <1>a, <1>b, <2>1 DEF DigestInv, TickKnows
  <2>5. FlagKnows'
    BY <1>b, <2>1 DEF DigestInv, FlagKnows, Current
  <2>6. ClaimIsKept'
    BY <1>a, <1>b, <2>1 DEF DigestInv, FlagKnows, ClaimIsKept, Current
  <2>7. HoursDone'
    <3> SUFFICES ASSUME NEW t \in started + 1 .. clock, t < clock \/ ticked,
                        cfg.enabled, Hour(t, cfg.tz) = cfg.hour, ~upset.now
                 PROVE  \/ Told(reports, Date(t, cfg.tz), version)
                        \/ Current' /\ tick'.date = Date(t, cfg.tz) /\ tick'.hour = cfg.hour
      BY <1>b, <2>1 DEF HoursDone
    <3>1. \/ Told(reports, Date(t, cfg.tz), version)
          \/ Current /\ tick.date = Date(t, cfg.tz) /\ tick.hour = cfg.hour
      BY DEF DigestInv, HoursDone
    <3>2. CASE Current /\ tick.date = Date(t, cfg.tz) /\ tick.hour = cfg.hour
      <4>1. CASE claim = tick.date
        <5>1. ~release
          BY <3>2 DEF DigestInv, FlagKnows
        <5>2. Told(reports, claim, version)
          BY <1>a, <1>b, <4>1, <5>1 DEF DigestInv, ClaimIsKept
        <5> QED BY <3>2, <4>1, <5>2
      <4>2. CASE claim # tick.date
        BY <1>b, <2>1, <3>2, <4>2 DEF Current
      <4> QED BY <4>1, <4>2
    <3> QED BY <3>1, <3>2
  <2> QED BY <1>d, <2>2, <2>3, <2>4, <2>5, <2>6, <2>7 DEF DigestInv
<1>2. CASE ClaimFails
  <2>1. tick' = NoTick /\ upset' \in [now : BOOLEAN, count : Nat] /\ upset'.now
    BY <1>a, <1>2, UpsetCounts DEF ClaimFails
  <2>2. DigestTypeOK'
    BY <1>a, <1>b, <2>1 DEF DigestTypeOK
  <2>3. TickKnows' /\ FlagKnows' /\ ClaimIsKept' /\ HoursDone'
    BY <1>a, <2>1 DEF TickKnows, FlagKnows, ClaimIsKept, HoursDone, Current
  <2> QED BY <1>a, <1>d, <1>e, <2>1, <2>2, <2>3 DEF DigestInv
<1> QED BY <1>1, <1>2

LEMMA SendStep ==
  ASSUME DigestInv, send \/ SendFails
  PROVE  DigestInv'
<1>a. /\ DigestTypeOK /\ version \in Nat /\ claim \in Nat \cup {Unclaimed}
      /\ tick \in [pc : {"idle", "release", "claim", "send"}, date : Nat, hour : Nat, version : Nat]
      /\ NoTick \in [pc : {"idle", "release", "claim", "send"}, date : Nat, hour : Nat,
                     version : Nat]
      /\ NoTick.pc = "idle" /\ Unclaimed = -1
      /\ reports \in Seq([date : Nat, version : Nat])
  BY DigestTypes DEF DigestInv, DigestTypeOK, Unclaimed
<1>b. /\ tick.pc = "send" /\ tick' = NoTick
      /\ UNCHANGED <<clock, ticked, cfg, setting, unapplied, release, claim, version, started>>
  BY DEF send, SendFails
<1>c. TickKnows' /\ FlagKnows'
  BY <1>a, <1>b DEF TickKnows, FlagKnows, Current
<1>d. claim = tick.date /\ ~Told(reports, tick.date, tick.version)
  BY <1>a, <1>b DEF DigestInv, TickKnows
<1>1. CASE send
  <2> DEFINE e == [date |-> tick.date, version |-> tick.version]
  <2>a. /\ UNCHANGED upset /\ reports' = Append(reports, e)
        /\ e \in [date : Nat, version : Nat] /\ e.date = tick.date /\ e.version = tick.version
    BY <1>a, <1>1 DEF send
  <2> HIDE DEF e
  <2>b. /\ reports' \in Seq([date : Nat, version : Nat])
        /\ \A d, v \in Nat :
             Told(reports', d, v) <=> Told(reports, d, v) \/ (d = tick.date /\ v = tick.version)
    BY <1>a, <2>a, ToldAppend
  <2>1. DigestTypeOK'
    BY <1>a, <1>b, <2>a, <2>b DEF DigestTypeOK
  <2>2. VersionsKnown'
    BY <1>a, <1>b, <2>b DEF DigestInv, VersionsKnown
  <2>3. OneReportPerSchedule'
    <3>1. /\ Len(reports) \in Nat /\ Len(reports') = Len(reports) + 1
          /\ \A i \in 1..Len(reports) : reports'[i] = reports[i]
          /\ reports'[Len(reports) + 1] = e
      BY <1>a, <2>a
    <3>2. \A i \in 1..Len(reports) : reports[i] # e
      BY <1>d DEF Told, e
    <3>3. \A i, j \in 1..Len(reports) : reports[i] = reports[j] => i = j
      BY DEF DigestInv, OneReportPerSchedule
    <3>4. ASSUME NEW i \in 1..Len(reports'), NEW j \in 1..Len(reports'), reports'[i] = reports'[j]
          PROVE  i = j
      <4>1. /\ i \in 1..Len(reports) \/ i = Len(reports) + 1
            /\ j \in 1..Len(reports) \/ j = Len(reports) + 1
        BY <3>1
      <4> QED BY <3>1, <3>2, <3>3, <3>4, <4>1
    <3> QED BY <3>4 DEF OneReportPerSchedule
  <2>4. ClaimKnows'
    <3> SUFFICES ASSUME NEW d \in Nat, Told(reports', d, version)
                 PROVE  ~release /\ claim # Unclaimed /\ d <= claim /\ claim <= Date(clock, cfg.tz)
      BY <1>b DEF ClaimKnows
    <3>1. CASE Told(reports, d, version)
      BY <3>1 DEF DigestInv, ClaimKnows
    <3>2. CASE d = tick.date /\ version = tick.version
      <4>1. ~release /\ tick.date <= Date(clock, cfg.tz)
        BY <1>b, <3>2 DEF DigestInv, FlagKnows, TickKnows, Current
      <4> QED BY <1>a, <1>d, <3>2, <4>1
    <3> QED BY <1>a, <2>b, <3>1, <3>2
  <2>5. ClaimIsKept'
    <3> SUFFICES ASSUME ~upset.now, ~release, claim # Unclaimed
                 PROVE  Told(reports', claim, version)
      BY <1>b, <2>a DEF ClaimIsKept
    <3>1. tick.version = version
      BY <1>b DEF DigestInv, FlagKnows
    <3> QED BY <1>a, <1>d, <2>b, <3>1
  <2>6. HoursDone'
    <3> SUFFICES ASSUME NEW t \in started + 1 .. clock, t < clock \/ ticked,
                        cfg.enabled, Hour(t, cfg.tz) = cfg.hour, ~upset.now
                 PROVE  Told(reports', Date(t, cfg.tz), version)
      BY <1>b, <2>a DEF HoursDone
    <3>1. \/ Told(reports, Date(t, cfg.tz), version)
          \/ Current /\ tick.date = Date(t, cfg.tz) /\ tick.hour = cfg.hour
      BY DEF DigestInv, HoursDone
    <3>2. Date(t, cfg.tz) \in Nat
      <4>1. cfg.tz \in Nat /\ clock \in Nat /\ started \in Nat \cup {-1}
        BY <1>a, DigestTypes DEF DigestTypeOK
      <4>2. t \in Nat
        BY <4>1
      <4> QED BY <4>1, <4>2, DateFacts
    <3> QED BY <1>a, <2>b, <3>1, <3>2 DEF Current
  <2> QED BY <1>c, <2>1, <2>2, <2>3, <2>4, <2>5, <2>6 DEF DigestInv
<1>2. CASE SendFails
  <2>1. UNCHANGED reports /\ upset' \in [now : BOOLEAN, count : Nat] /\ upset'.now
    BY <1>a, <1>2, UpsetCounts DEF SendFails
  <2>2. DigestTypeOK'
    BY <1>a, <1>b, <2>1 DEF DigestTypeOK
  <2>3. VersionsKnown' /\ OneReportPerSchedule' /\ ClaimKnows'
    BY <1>a, <1>b, <2>1 DEF DigestInv, VersionsKnown, OneReportPerSchedule, ClaimKnows
  <2>4. ClaimIsKept' /\ HoursDone'
    BY <2>1 DEF ClaimIsKept, HoursDone
  <2> QED BY <1>c, <2>2, <2>3, <2>4 DEF DigestInv
<1> QED BY <1>1, <1>2

\* A new schedule has no report yet, and finds the flag up unless the task was
\* restarted.
LEMMA NewSchedule ==
  ASSUME DigestInv, setting # cfg, InForce(setting),
         DigestTypeOK', UNCHANGED <<clock, claim, reports>>,
         \/ release' = TRUE /\ tick' = tick
         \/ tick'.pc = "idle" /\ upset'.now
  PROVE  DigestInv'
<1>1. /\ cfg' = setting /\ version' = version + 1 /\ started' = clock /\ version \in Nat
      /\ clock \in Nat
      /\ tick.version \in Nat /\ UNCHANGED <<clock, claim, reports>>
  BY DEF InForce, DigestInv, DigestTypeOK
<1>2. \A d \in Nat : ~Told(reports, d, version + 1)
  BY <1>1 DEF DigestInv, VersionsKnown
<1>3. tick'.pc # "idle" => tick' = tick /\ tick.version <= version /\ release'
  BY DEF DigestInv, VersionsKnown
<1>4. \A d, v \in Nat : Told(reports, d, v) => v <= version + 1
  BY <1>1 DEF DigestInv, VersionsKnown
<1>5. VersionsKnown' /\ OneReportPerSchedule'
  BY <1>1, <1>3, <1>4 DEF DigestInv, VersionsKnown, OneReportPerSchedule
<1>6. TickKnows'
  BY <1>1, <1>2, <1>3 DEF DigestInv, TickKnows
<1>7. ClaimKnows' /\ FlagKnows' /\ ClaimIsKept'
  BY <1>1, <1>2, <1>3 DEF ClaimKnows, FlagKnows, ClaimIsKept, Current
<1>8. HoursDone'
  <2>1. \A t : t \notin clock + 1 .. clock
    BY <1>1
  <2> QED BY <1>1, <2>1 DEF HoursDone
<1> QED BY <1>5, <1>6, <1>7, <1>8 DEF DigestInv

LEMMA ReloadStep ==
  ASSUME DigestInv, reload
  PROVE  DigestInv'
<1>1. CASE setting = cfg
  <2>1. /\ UNCHANGED <<clock, ticked, cfg, release, claim, tick, reports, version, started, upset>>
        /\ setting' = setting /\ unapplied' = FALSE
    BY <1>1 DEF reload, InForce, Changed, DigestInv, DigestTypeOK
  <2> QED BY <2>1, StoredStep DEF DigestInv, DigestTypeOK
<1>2. CASE setting # cfg
  <2>1. /\ UNCHANGED <<clock, ticked, setting, claim, tick, reports>> /\ InForce(setting)
        /\ release' = TRUE /\ unapplied' = FALSE /\ upset' = [upset EXCEPT !.now = FALSE]
    BY <1>2 DEF reload, Changed
  <2>2. cfg' \in Schedule /\ version' \in Nat /\ started' \in Nat \cup {-1}
    BY <1>2, <2>1 DEF InForce, DigestInv, DigestTypeOK
  <2>3. upset' \in [now : BOOLEAN, count : Nat]
    BY <2>1 DEF DigestInv, DigestTypeOK
  <2>4. DigestTypeOK'
    BY <2>1, <2>2, <2>3 DEF DigestInv, DigestTypeOK
  <2>5. release' = TRUE /\ tick' = tick /\ UNCHANGED <<clock, claim, reports>>
    BY <2>1
  <2> QED BY <1>2, <2>1, <2>4, <2>5, NewSchedule
<1> QED BY <1>1, <1>2

LEMMA RestartTaskStep ==
  ASSUME DigestInv, RestartTask
  PROVE  DigestInv'
<1>a. DigestTypeOK /\ version \in Nat /\ claim \in Nat \cup {Unclaimed}
  BY DEF DigestInv, DigestTypeOK
<1>b. /\ UNCHANGED <<clock, ticked, setting, claim, reports>> /\ InForce(setting)
      /\ release' = FALSE /\ unapplied' = FALSE /\ tick' = NoTick
      /\ upset' \in [now : BOOLEAN, count : Nat] /\ upset'.now
      /\ NoTick \in [pc : {"idle", "release", "claim", "send"}, date : Nat, hour : Nat,
                     version : Nat]
      /\ NoTick.pc = "idle"
  BY <1>a, UpsetCounts, DigestTypes DEF RestartTask
<1>c. cfg' \in Schedule /\ version' \in Nat /\ started' \in Nat \cup {-1}
  BY <1>a, <1>b DEF InForce, DigestTypeOK
<1>d. DigestTypeOK'
  BY <1>a, <1>b, <1>c DEF DigestTypeOK
<1>1. CASE setting = cfg
  <2>1. UNCHANGED <<cfg, version, started>>
    BY <1>1, <1>b DEF InForce
  <2>2. VersionsKnown' /\ OneReportPerSchedule' /\ ClaimKnows'
    BY <1>a, <1>b, <2>1 DEF DigestInv, VersionsKnown, OneReportPerSchedule, ClaimKnows
  <2>3. TickKnows' /\ FlagKnows' /\ ClaimIsKept' /\ HoursDone'
    BY <1>b DEF TickKnows, FlagKnows, ClaimIsKept, HoursDone, Current
  <2> QED BY <1>d, <2>2, <2>3 DEF DigestInv
<1>2. CASE setting # cfg
  BY <1>b, <1>d, <1>2, NewSchedule
<1> QED BY <1>1, <1>2

LEMMA DigestInductive == DigestSpec => []DigestInv
<1>1. DigestInit => DigestInv
  <2> SUFFICES ASSUME DigestInit PROVE DigestInv
    OBVIOUS
  <2>1. /\ NoTick \in [pc : {"idle", "release", "claim", "send"}, date : Nat, hour : Nat,
                       version : Nat]
        /\ NoTick.pc = "idle" /\ <<>> \in Seq([date : Nat, version : Nat])
    BY DEF NoTick
  <2>2. DigestTypeOK
    BY <2>1 DEF DigestInit, DigestTypeOK
  <2>3. \A d, v : ~Told(<<>>, d, v)
    BY DEF Told
  <2>4. OneReportPerSchedule
    BY DEF DigestInit, OneReportPerSchedule
  <2>5. VersionsKnown /\ TickKnows /\ ClaimKnows /\ FlagKnows /\ ClaimIsKept
    BY <2>1, <2>3
    DEF DigestInit, VersionsKnown, TickKnows, ClaimKnows, FlagKnows, ClaimIsKept, Current
  <2>6. HoursDone
    BY DEF DigestInit, HoursDone
  <2> QED BY <2>2, <2>4, <2>5, <2>6 DEF DigestInv
<1>2. DigestInv /\ [DigestNext]_digestVars => DigestInv'
  <2> SUFFICES ASSUME DigestInv, [DigestNext]_digestVars PROVE DigestInv'
    OBVIOUS
  <2>1. CASE UNCHANGED digestVars
    BY <2>1, StoredStep DEF digestVars, DigestInv, DigestTypeOK
  <2>2. CASE put_config
    <3>1. setting' \in Schedule /\ unapplied' = TRUE
      BY <2>2 DEF put_config, DigestInv, DigestTypeOK
    <3> QED BY <2>2, <3>1, StoredStep DEF put_config
  <2> QED
    BY <2>1, <2>2, HourStep, BeginStep, ReleaseStep, ClaimStep, SendStep, ReloadStep,
      RestartTaskStep DEF DigestNext
<1> QED BY <1>1, <1>2, PTL DEF DigestSpec

\* Whatever restarts, fails and is saved, no date is reported on twice under one
\* schedule (DigestTask._tick, its claim in `settings`).
THEOREM ReportsAreSentOnce == DigestSpec => []OneReportPerSchedule
<1>1. DigestInv => OneReportPerSchedule
  BY DEF DigestInv
<1> QED BY <1>1, DigestInductive, PTL

\* And none is skipped: a schedule under which nothing failed has reported on
\* every day whose hour came after it did, though an earlier one had claimed the
\* day (reload raises the flag, the next tick releases the claim).
THEOREM ReportsSkipNoDay == DigestSpec => []EveryDayReported
<1>1. DigestInv => EveryDayReported
  <2> SUFFICES ASSUME DigestInv, NEW t \in started + 1 .. clock - 1, cfg.enabled,
                      Hour(t, cfg.tz) = cfg.hour, ~upset.now, tick.pc = "idle"
               PROVE  Told(reports, Date(t, cfg.tz), version)
    BY DEF EveryDayReported, Told
  <2>1. clock \in Nat /\ started \in Nat \cup {-1}
    BY DEF DigestInv, DigestTypeOK
  <2>2. t \in started + 1 .. clock /\ t < clock
    BY <2>1
  <2> QED BY <2>2 DEF DigestInv, HoursDone, Current
<1> QED BY <1>1, DigestInductive, PTL

-----------------------------------------------------------------------------
(* The latch of the fleets *)

FleetSpec == FleetInit /\ [][FleetNext]_fleetVars

FleetTypeOK ==
  /\ family \in {"xband", "backend"}
  /\ due \in [Radar \cup {"fleet"} -> Nat] /\ \A r \in Radar : due[r] <= RadarCadence
  /\ verdict \in [Radar -> [is : {"none", "HEALTHY", "GHOST_UP", "CONFIRMED_DOWN", "ARRIVING",
                                  "SILENT", "UNREADABLE", "CONFIG_ERROR"}, age : Nat]]
  /\ clean \in [Radar -> 0..HoldDownMinutes]
  /\ open \in [Radar -> BOOLEAN]
  /\ fleet \in [systemic : BOOLEAN, since : Nat, status : {"none", "pass", "fail", "skip"}]
  /\ named \in [Radar -> BOOLEAN]

\* While a radar that was counted waits for its alarm, the latch holds: its last
\* systemic reading is no older than the radar's last clean run, nor, once the
\* hold-down is over, than the run that is to come.
LatchHolds ==
  \A r \in Radar : named[r] /\ ~open[r] =>
    /\ fleet.systemic /\ fleet.status \in {"fail", "skip"}
    /\ fleet.since + due[r] < HoldDownMinutes + RadarCadence
    /\ clean[r] < HoldDownMinutes => fleet.since <= clean[r]

FleetInv == FleetTypeOK /\ LatchHolds

LEMMA FleetTypes ==
  ASSUME FleetTypeOK
  PROVE  /\ RadarCadence \in {1, 2} /\ FleetCadence \in Nat
         /\ HoldDownMinutes \in Nat \ {0} /\ FLEET_MIN_DWELL \in Nat
         /\ HoldDownMinutes + RadarCadence <= FLEET_MIN_DWELL
         /\ FLEET_SYSTEMIC_ENTER \in Nat /\ FLEET_SYSTEMIC_EXIT \in Nat
         /\ due \in [Radar \cup {"fleet"} -> Nat] /\ "fleet" \notin Radar
         /\ \A r \in Radar : due[r] \in Nat /\ due[r] <= RadarCadence
         /\ fleet \in [systemic : BOOLEAN, since : Nat, status : {"none", "pass", "fail", "skip"}]
         /\ clean \in [Radar -> 0..HoldDownMinutes]
         /\ \A r \in Radar : clean[r] \in Nat
<1>1. RadarCadence \in {1, 2} /\ FleetCadence \in Nat
  BY DEF RadarCadence, FleetCadence
<1>2. /\ HoldDownMinutes \in Nat \ {0} /\ FLEET_MIN_DWELL \in Nat
      /\ HoldDownMinutes + 2 <= FLEET_MIN_DWELL
      /\ FLEET_SYSTEMIC_ENTER \in Nat /\ FLEET_SYSTEMIC_EXIT \in Nat /\ "fleet" \notin Radar
  BY FleetAssumption
<1>3. \A r \in Radar : due[r] \in Nat /\ due[r] <= RadarCadence /\ clean[r] \in Nat
  BY <1>2 DEF FleetTypeOK
<1> QED BY <1>1, <1>2, <1>3 DEF FleetTypeOK

LEMMA MinuteStep ==
  ASSUME FleetInv, Minute
  PROVE  FleetInv'
<1>a. FleetTypeOK
  BY DEF FleetInv
<1>b. /\ \A r \in Radar : due'[r] = due[r] - 1 /\ due[r] \in Nat \ {0}
      /\ UNCHANGED <<family, open, named>>
      /\ due' \in [Radar \cup {"fleet"} -> Nat]
  BY <1>a, FleetTypes DEF Minute
<1>c. /\ fleet' \in [systemic : BOOLEAN, since : Nat, status : {"none", "pass", "fail", "skip"}]
      /\ fleet'.systemic = fleet.systemic /\ fleet'.status = fleet.status
      /\ fleet'.since <= fleet.since + 1
  <2> DEFINE n == Older(fleet.since, FLEET_MIN_DWELL)
  <2>1. n \in Nat /\ n <= fleet.since + 1
    BY <1>a, FleetTypes DEF Older
  <2>2. fleet' = [fleet EXCEPT !.since = n]
    BY DEF Minute
  <2> HIDE DEF n
  <2> QED BY <1>a, <2>1, <2>2, FleetTypes
<1>d. /\ clean' \in [Radar -> 0..HoldDownMinutes]
      /\ \A r \in Radar : clean'[r] = IF clean[r] < HoldDownMinutes THEN clean[r] + 1 ELSE clean[r]
  BY <1>a, FleetTypes DEF Minute, Older
<1>e. verdict' \in [Radar -> [is : {"none", "HEALTHY", "GHOST_UP", "CONFIRMED_DOWN", "ARRIVING",
                                  "SILENT", "UNREADABLE", "CONFIG_ERROR"}, age : Nat]]
  <2>1. \A r \in Radar : Older(verdict[r].age, _VERDICT_TTL + 1) \in Nat
    BY <1>a DEF FleetTypeOK, Older, _VERDICT_TTL
  <2>2. verdict' = [r \in Radar |-> [verdict[r] EXCEPT !.age = Older(verdict[r].age, _VERDICT_TTL + 1)]]
    BY DEF Minute
  <2> HIDE DEF Older
  <2> QED BY <1>a, <2>1, <2>2 DEF FleetTypeOK
<1>1. \A r \in Radar : due'[r] <= RadarCadence'
  BY <1>a, <1>b, FleetTypes DEF RadarCadence
<1>2. FleetTypeOK'
  BY <1>1, <1>a, <1>b, <1>c, <1>d, <1>e DEF FleetTypeOK
<1>3. LatchHolds'
  <2> SUFFICES ASSUME NEW r \in Radar, named[r], ~open[r]
               PROVE  /\ fleet'.systemic /\ fleet'.status \in {"fail", "skip"}
                      /\ fleet'.since + due'[r] < HoldDownMinutes + RadarCadence
                      /\ clean'[r] < HoldDownMinutes => fleet'.since <= clean'[r]
    BY <1>b DEF LatchHolds, RadarCadence
  <2>1. /\ fleet.systemic /\ fleet.status \in {"fail", "skip"}
        /\ fleet.since + due[r] < HoldDownMinutes + RadarCadence
        /\ clean[r] < HoldDownMinutes => fleet.since <= clean[r]
    BY DEF FleetInv, LatchHolds
  <2>2. /\ fleet.since \in Nat /\ fleet'.since \in Nat /\ due[r] \in Nat \ {0}
        /\ clean[r] \in Nat /\ HoldDownMinutes \in Nat /\ RadarCadence \in Nat
    BY <1>a, <1>b, <1>c, FleetTypes
  <2>3. fleet'.since + due'[r] < HoldDownMinutes + RadarCadence
    BY <1>b, <1>c, <2>1, <2>2
  <2>4. clean'[r] < HoldDownMinutes => fleet'.since <= clean'[r]
    BY <1>c, <1>d, <2>1, <2>2
  <2> QED BY <1>c, <2>1, <2>3, <2>4
<1> QED BY <1>2, <1>3 DEF FleetInv

\* A radar's run, red or not: it is counted no more once it was clean, and an
\* alarm that waits on has waited less than the hold-down.
LEMMA RadarStep ==
  ASSUME FleetInv, NEW r \in Radar, NEW red \in BOOLEAN, Ran(r, RadarCadence), Alarmed(r, red),
         verdict' \in [Radar -> [is : {"none", "HEALTHY", "GHOST_UP", "CONFIRMED_DOWN", "ARRIVING",
                                       "SILENT", "UNREADABLE", "CONFIG_ERROR"}, age : Nat]]
  PROVE  FleetInv'
<1>a. FleetTypeOK
  BY DEF FleetInv
<1>b. /\ due[r] = 0 /\ due' = [due EXCEPT ![r] = RadarCadence]
      /\ clean' = [clean EXCEPT ![r] = IF red THEN clean[r] ELSE 0]
      /\ open' = [open EXCEPT ![r] = red /\ (open[r] \/ clean[r] >= HoldDownMinutes)]
      /\ named' = [named EXCEPT ![r] = red /\ named[r]]
      /\ UNCHANGED <<family, fleet>> /\ RadarCadence' = RadarCadence
  BY DEF Ran, Alarmed, RadarCadence
<1>1. /\ due' \in [Radar \cup {"fleet"} -> Nat]
      /\ \A q \in Radar : due'[q] <= RadarCadence /\ due'[q] = IF q = r THEN RadarCadence ELSE due[q]
  BY <1>a, <1>b, FleetTypes
<1>2. /\ clean' \in [Radar -> 0..HoldDownMinutes]
      /\ \A q \in Radar : clean'[q] = IF q = r /\ ~red THEN 0 ELSE clean[q]
  BY <1>a, <1>b, FleetTypes
<1>3. /\ open' \in [Radar -> BOOLEAN] /\ named' \in [Radar -> BOOLEAN]
      /\ \A q \in Radar : q # r => open'[q] = open[q] /\ named'[q] = named[q]
      /\ open'[r] <=> red /\ (open[r] \/ clean[r] >= HoldDownMinutes)
      /\ named'[r] <=> red /\ named[r]
  <2>1. open \in [Radar -> BOOLEAN] /\ named \in [Radar -> BOOLEAN]
    BY <1>a DEF FleetTypeOK
  <2> QED BY <1>b, <2>1
<1>4. FleetTypeOK'
  BY <1>a, <1>b, <1>1, <1>2, <1>3 DEF FleetTypeOK
<1>5. ASSUME NEW q \in Radar, named'[q], ~open'[q]
      PROVE  /\ fleet.systemic /\ fleet.status \in {"fail", "skip"}
             /\ fleet.since + due'[q] < HoldDownMinutes + RadarCadence
             /\ clean'[q] < HoldDownMinutes => fleet.since <= clean'[q]
  <2>1. CASE q # r
    BY <1>1, <1>2, <1>3, <1>5, <2>1 DEF FleetInv, LatchHolds
  <2>2. CASE q = r
    <3>1. named[r] /\ ~open[r] /\ red /\ ~(clean[r] >= HoldDownMinutes)
      BY <1>3, <1>5, <2>2
    <3>2. clean[r] < HoldDownMinutes
      BY <3>1, <1>a, FleetTypes
    <3>3. /\ fleet.systemic /\ fleet.status \in {"fail", "skip"} /\ fleet.since <= clean[r]
      BY <3>1, <3>2 DEF FleetInv, LatchHolds
    <3>4. fleet.since + RadarCadence < HoldDownMinutes + RadarCadence
      BY <1>a, <3>2, <3>3, FleetTypes
    <3> QED BY <1>1, <1>2, <2>2, <3>1, <3>3, <3>4
  <2> QED BY <2>1, <2>2
<1> QED BY <1>4, <1>5, <1>b DEF FleetInv, LatchHolds

\* A fleet check: the reading that counts a radar arms the latch, and a later one
\* does not find the dwell over before the radar's alarm opens.
LEMMA TallyStep ==
  ASSUME FleetInv, NEW known \in SUBSET Radar, NEW bad \in SUBSET known, Tally(known, bad)
  PROVE  FleetInv'
<1>a. FleetTypeOK
  BY DEF FleetInv
<1>b. /\ Cardinality(known) \in Nat /\ Cardinality(bad) \in Nat
      /\ Cardinality(bad) <= Cardinality(known)
  <2>1. IsFiniteSet(known)
    BY FleetAssumption, FS_Subset
  <2>2. IsFiniteSet(bad) /\ Cardinality(bad) <= Cardinality(known)
    BY <2>1, FS_Subset
  <2> QED BY <2>1, <2>2, FS_CardinalityType
<1> DEFINE n == Cardinality(bad)
           ENTER == FLEET_SYSTEMIC_ENTER
<1>1. /\ due' \in [Radar \cup {"fleet"} -> Nat]
      /\ \A r \in Radar : due'[r] = due[r]
      /\ UNCHANGED <<family, verdict, clean, open>> /\ RadarCadence' = RadarCadence
  BY <1>a, FleetTypes DEF Tally, Ran, RadarCadence
<1>2. /\ named' \in [Radar -> BOOLEAN]
      /\ \A r \in Radar : named'[r] <=> named[r] \/ (r \in bad /\ n >= ENTER)
  <2>1. named \in [Radar -> BOOLEAN]
    BY <1>a DEF FleetTypeOK
  <2> QED BY <2>1 DEF Tally
<1>3. CASE n >= ENTER
  <2>1. fleet' = [systemic |-> TRUE, since |-> 0, status |-> "fail"]
    <3>1. ~(Cardinality(known) < FLEET_SYSTEMIC_ENTER)
      BY <1>a, <1>b, <1>3, FleetTypes
    <3> QED BY <1>3, <3>1 DEF Tally, Latch
  <2>2. FleetTypeOK'
    BY <1>a, <1>1, <1>2, <2>1 DEF FleetTypeOK
  <2>3. \A r \in Radar : /\ 0 + due[r] < HoldDownMinutes + RadarCadence
                         /\ 0 <= clean[r]
    BY <1>a, FleetTypes
  <2> QED BY <1>1, <2>1, <2>2, <2>3 DEF FleetInv, LatchHolds
<1>4. CASE ~(n >= ENTER)
  <2>1. /\ fleet' \in [systemic : BOOLEAN, since : Nat, status : {"none", "pass", "fail", "skip"}]
        /\ fleet.systemic /\ fleet.since < FLEET_MIN_DWELL =>
             /\ fleet'.systemic /\ fleet'.since = fleet.since
             /\ fleet'.status \in {"fail", "skip"}
    <3>1. \/ fleet' = [fleet EXCEPT !.status = "skip"]
          \/ /\ fleet' = [fleet EXCEPT !.status = "fail"]
          \/ /\ ~(fleet.systemic /\ ~(n <= FLEET_SYSTEMIC_EXIT /\ fleet.since >= FLEET_MIN_DWELL))
             /\ fleet' = [systemic |-> FALSE, since |-> 0, status |-> "pass"]
      BY <1>4 DEF Tally, Latch
    <3>2. ASSUME NEW status \in {"fail", "skip"}, fleet' = [fleet EXCEPT !.status = status]
          PROVE  /\ fleet' \in [systemic : BOOLEAN, since : Nat,
                                status : {"none", "pass", "fail", "skip"}]
                 /\ fleet'.systemic = fleet.systemic /\ fleet'.since = fleet.since
                 /\ fleet'.status = status
      BY <1>a, <3>2, FleetTypes
    <3>3. ASSUME fleet' = [systemic |-> FALSE, since |-> 0, status |-> "pass"],
                 fleet.systemic => fleet.since >= FLEET_MIN_DWELL
          PROVE  /\ fleet' \in [systemic : BOOLEAN, since : Nat,
                                status : {"none", "pass", "fail", "skip"}]
                 /\ ~(fleet.systemic /\ fleet.since < FLEET_MIN_DWELL)
      BY <1>a, <3>3, FleetTypes
    <3> QED BY <3>1, <3>2, <3>3
  <2>2. FleetTypeOK'
    BY <1>a, <1>1, <1>2, <2>1 DEF FleetTypeOK
  <2>3. ASSUME NEW r \in Radar, named[r], ~open[r]
        PROVE  /\ fleet'.systemic /\ fleet'.status \in {"fail", "skip"}
               /\ fleet'.since + due[r] < HoldDownMinutes + RadarCadence
               /\ clean[r] < HoldDownMinutes => fleet'.since <= clean[r]
    <3>1. /\ fleet.systemic /\ fleet.since + due[r] < HoldDownMinutes + RadarCadence
          /\ clean[r] < HoldDownMinutes => fleet.since <= clean[r]
      BY <2>3 DEF FleetInv, LatchHolds
    <3>2. fleet.since < FLEET_MIN_DWELL
      <4>1. fleet.since \in Nat /\ due[r] \in Nat
        BY <1>a, FleetTypes
      <4> QED BY <1>a, <3>1, <4>1, FleetTypes
    <3> QED BY <2>1, <3>1, <3>2
  <2> QED BY <1>1, <1>2, <1>4, <2>2, <2>3 DEF FleetInv, LatchHolds
<1> QED BY <1>3, <1>4

LEMMA FleetStep ==
  ASSUME FleetInv, FleetNext
  PROVE  FleetInv'
<1> DEFINE Verdicts == [Radar -> [is : {"none", "HEALTHY", "GHOST_UP", "CONFIRMED_DOWN", "ARRIVING",
                                        "SILENT", "UNREADABLE", "CONFIG_ERROR"}, age : Nat]]
<1>a. verdict \in Verdicts
  BY DEF FleetInv, FleetTypeOK
<1>1. CASE Layer2XbandFleet
  <2>1. _fresh_verdicts \in SUBSET Radar /\ _not_reporting_xband \in SUBSET _fresh_verdicts
    BY DEF _fresh_verdicts, _not_reporting_xband
  <2> QED BY <1>1, <2>1, TallyStep DEF Layer2XbandFleet
<1>2. CASE Layer2BackendFleet
  <2>1. _lb_fresh \in SUBSET Radar /\ _lb_not_arriving \in SUBSET _lb_fresh
    BY DEF _lb_fresh, _lb_not_arriving
  <2> QED BY <1>2, <2>1, TallyStep DEF Layer2BackendFleet
<1>3. ASSUME NEW r \in Radar, Radar2Run(r) PROVE FleetInv'
  <2>1. PICK v \in {"HEALTHY", "GHOST_UP", "CONFIRMED_DOWN"} :
          _publish_verdict(r, v) /\ Alarmed(r, v # "HEALTHY")
    BY <1>3 DEF Radar2Run
  <2>2. verdict' \in Verdicts
    BY <1>a, <2>1 DEF _publish_verdict
  <2>3. Ran(r, RadarCadence) /\ (v # "HEALTHY") \in BOOLEAN
    BY <1>3 DEF Radar2Run
  <2> QED BY <2>1, <2>2, <2>3, RadarStep
<1>4. ASSUME NEW r \in Radar, Radar2Unknown(r) PROVE FleetInv'
  BY <1>4, <1>a, RadarStep DEF Radar2Unknown
<1>5. ASSUME NEW r \in Radar, RadarB2Run(r) PROVE FleetInv'
  <2>1. PICK v \in {"ARRIVING", "SILENT", "UNREADABLE", "CONFIG_ERROR"} :
          _lb_publish_verdict(r, v) /\ Alarmed(r, v # "ARRIVING")
    BY <1>5 DEF RadarB2Run
  <2>2. verdict' \in Verdicts
    BY <1>a, <2>1 DEF _lb_publish_verdict
  <2>3. Ran(r, RadarCadence) /\ (v # "ARRIVING") \in BOOLEAN
    BY <1>5 DEF RadarB2Run
  <2> QED BY <2>1, <2>2, <2>3, RadarStep
<1> QED BY <1>1, <1>2, <1>3, <1>4, <1>5, MinuteStep DEF FleetNext

LEMMA FleetInductive == FleetSpec => []FleetInv
<1>1. FleetInit => FleetInv
  <2> SUFFICES ASSUME FleetInit PROVE FleetInv
    OBVIOUS
  <2>1. /\ RadarCadence \in {1, 2} /\ HoldDownMinutes \in 0..HoldDownMinutes
        /\ family \in {"xband", "backend"}
    BY FleetAssumption DEF FleetInit, RadarCadence
  <2>2. /\ due \in [Radar \cup {"fleet"} -> Nat]
        /\ \A r \in Radar : due[r] <= RadarCadence
    BY <2>1 DEF FleetInit
  <2>3. FleetTypeOK
    BY <2>1, <2>2 DEF FleetInit, FleetTypeOK
  <2> QED BY <2>3 DEF FleetInit, FleetInv, LatchHolds
<1>2. FleetInv /\ [FleetNext]_fleetVars => FleetInv'
  <2>1. FleetInv /\ UNCHANGED fleetVars => FleetInv'
    BY DEF FleetInv, FleetTypeOK, LatchHolds, fleetVars, RadarCadence
  <2> QED BY <2>1, FleetStep
<1> QED BY <1>1, <1>2, PTL DEF FleetSpec

\* The verdict of the fleet outlasts the hold-down of the radars it was about, for
\* fleets of any size and whatever the other radars do: whichever of them stays
\* red opens its alarm under it (Layer2XbandFleet and its backend twin).
THEOREM EpisodesAreSuppressed == FleetSpec => EpisodeSuppresses
<1>1. FleetInv /\ [FleetNext]_fleetVars =>
        \A r \in Radar : open'[r] /\ ~open[r] /\ named[r] =>
          fleet.systemic /\ fleet.status \in {"fail", "skip"}
  <2> SUFFICES ASSUME FleetInv, NEW r \in Radar, ~open[r], named[r]
               PROVE  fleet.systemic /\ fleet.status \in {"fail", "skip"}
    OBVIOUS
  <2> QED BY DEF FleetInv, LatchHolds
<1> QED BY <1>1, FleetInductive, PTL DEF FleetSpec, EpisodeSuppresses

-----------------------------------------------------------------------------
(* The age of the newest volume *)

ArrivalSpec == ArrivalInit /\ [][ArrivalNext]_arrivalVars

Entry == [at : Int, stamp : Nat, kind : {"part", "drifted", "volume"}]

\* What a look keeps.
LookRecord ==
  [by : {"none", "LB2", "drops", "staging"}, t0 : Nat, had : Nat \cup {Never},
   left : Seq(Int), said : {"looking", "seen", "silent", "no age", "unparseable",
                            "nothing", "unreadable", "unread"}, age : Int]

ArrivalTypeOK ==
  /\ layout \in {"dated", "flat"}
  /\ now \in Nat
  /\ tree \subseteq Entry
  /\ latest \in Nat \cup {Never}
  /\ look \in LookRecord

\* An entry lies where its name says, was observed by now, and if it is whole the
\* newest observation is no older.
TreeSound ==
  \A e \in tree :
    /\ e.at = Place(e.stamp)
    /\ e.stamp <= now
    /\ e.kind = "volume" => e.stamp <= latest

\* An observation that was once complete still lies in the tree, unless it is of
\* an age at which a flat folder is cleared of it.
Lies(t) ==
  \/ \E e \in tree : e.kind = "volume" /\ e.stamp = t
  \/ layout = "flat" /\ t + Retained < now

LatestLies == latest # Never => latest <= now /\ Lies(latest)

\* A look lasts into the next moment at most; what it had when it began is there to
\* be found, and the places it has passed by are none where that could lie.
Looking ==
  look.left # <<>> =>
    /\ look.t0 <= now /\ now <= look.t0 + 1
    /\ look.by # "none" /\ look.had <= latest
    /\ look.had # Never => look.had <= look.t0 /\ Lies(look.had)
    /\ LET today == Day(look.t0) IN
       IF layout = "dated"
       THEN \/ look.left = <<Flat, today, today - 1>> \/ look.left = <<today, today - 1>>
            \/ look.left = <<today - 1>> /\ (look.had # Never => Day(look.had) # today)
       ELSE \/ look.left = <<Flat, today, today - 1>> \/ look.left = <<Flat>>
            \/ ~Reachable /\ (look.left = <<today, today - 1>> \/ look.left = <<today - 1>>)

ArrivalInv == ArrivalTypeOK /\ TreeSound /\ LatestLies /\ Looking /\ AgeIsTrue

\* Days follow each other as their moments do.
LEMMA DaysInOrder ==
  /\ \A t \in Nat : Day(t) \in Nat
  /\ \A s, t \in Nat : s <= t => Day(s) <= Day(t)
<1>1. DayLen \in Nat /\ DayLen > 0
  BY ArrivalAssumption
<1>2. ASSUME NEW t \in Nat, NEW k \in Nat, k > 0 PROVE t \div k \in Nat
  BY <1>2, Z3
<1>3. ASSUME NEW s \in Nat, NEW t \in Nat, s <= t, NEW k \in Nat, k > 0 PROVE s \div k <= t \div k
  BY <1>3, Z3
<1> QED BY <1>1, <1>2, <1>3 DEF Day

\* A set of moments has a last one.
LEMMA LastMomentOf ==
  ASSUME NEW m \in Int, NEW S \in SUBSET Int, S # {}, \A s \in S : s <= m
  PROVE  Max(S) \in S /\ \A s \in S : s <= Max(S)
<1> DEFINE T == {m - s : s \in S}
<1>1. T \subseteq Nat /\ T # {}
  <2>1. PICK s \in S : TRUE
    OBVIOUS
  <2>2. m - s \in T
    OBVIOUS
  <2>3. \A z \in S : m - z \in Nat
    OBVIOUS
  <2> QED BY <2>2, <2>3
<1> DEFINE R == OpToRel(<, Nat)
<1>2. IsWellFoundedOn(R, Nat)
  BY NatLessThanWellFounded
<1>3. PICK x \in T : \A y \in T : ~(<<y, x>> \in R)
  <2> HIDE DEF T, R
  <2> QED BY <1>1, <1>2, WFMin
<1>4. \A y \in T : ~(y < x)
  BY <1>1, <1>3 DEF OpToRel
<1>5. PICK s \in S : x = m - s
  BY <1>3
<1>6. ASSUME NEW y \in S PROVE s >= y
  <2>1. m - y \in T
    OBVIOUS
  <2>2. ~(m - y < m - s)
    BY <1>4, <1>5, <2>1
  <2> QED BY <2>2
<1>7. \E z \in S : \A y \in S : z >= y
  BY <1>6
<1> HIDE DEF T, R
<1>8. Max(S) \in S /\ \A y \in S : Max(S) >= y
  BY <1>7 DEF Max
<1> QED BY <1>8

\* What a place declares is the stamp of a whole volume there, and none is newer.
LEMMA NewestDeclared ==
  ASSUME ArrivalTypeOK, TreeSound, NEW d
  PROVE  /\ _newest_declared(d) \in Nat \cup {Never}
         /\ _newest_declared(d) # Never => \E e \in tree : /\ e.at = d /\ e.kind = "volume"
                                                           /\ e.stamp = _newest_declared(d)
         /\ _newest_declared(d) # Never => _newest_declared(d) <= latest
         /\ \A e \in tree : /\ e.at = d
                            /\ e.kind = "volume"
                            => e.stamp <= _newest_declared(d) /\ _newest_declared(d) # Never
<1> DEFINE S == Declared(d) \cup {Never}
<1>a. tree \subseteq [at : Int, stamp : Nat, kind : {"part", "drifted", "volume"}]
  BY DEF ArrivalTypeOK, Entry, LookRecord
<1>b. \A e \in tree : e.stamp <= now /\ (e.kind = "volume" => e.stamp <= latest)
  BY DEF TreeSound
<1>c. now \in Nat
  BY DEF ArrivalTypeOK, LookRecord
<1>d. Never = -1 /\ Never \in Int /\ Never \notin Nat
  BY DEF Never
<1>1. /\ \A e \in tree : e.at \in Int /\ e.stamp \in Nat /\ e.stamp <= now
      /\ \A e \in tree : e.kind = "volume" => e.stamp <= latest
      /\ now \in Nat /\ Never = -1 /\ Never \in Int /\ Never \notin Nat
  BY <1>a, <1>b, <1>c, <1>d
<1>2. /\ \A s \in Declared(d) : \E e \in tree : e.at = d /\ e.kind = "volume" /\ e.stamp = s
      /\ \A e \in tree : e.at = d /\ e.kind = "volume" => e.stamp \in Declared(d)
  BY DEF Declared, In
<1>3. /\ S \in SUBSET Int /\ Never \in S /\ S # {}
      /\ \A s \in S : s <= now
      /\ \A s \in S : s # Never => s \in Declared(d) /\ s \in Nat
  BY <1>1, <1>2
<1>4. _newest_declared(d) = Max(S)
  BY DEF _newest_declared
<1> HIDE DEF S
<1>5. Max(S) \in S /\ \A s \in S : s <= Max(S)
  <2>1. now \in Int
    BY <1>1
  <2> QED BY <1>3, <2>1, LastMomentOf
<1> DEFINE n == Max(S)
<1>6. n \in Nat \cup {Never} /\ (n # Never => n \in Declared(d))
  BY <1>3, <1>5
<1>7. \A s \in Declared(d) : s \in S
  BY DEF S
<1>8. \A e \in tree : e.at = d /\ e.kind = "volume" => e.stamp <= n
  BY <1>2, <1>5, <1>7
<1> HIDE DEF n
<1>9. \A e \in tree : e.at = d /\ e.kind = "volume" => n # Never
  BY <1>1, <1>6, <1>8
<1> QED BY <1>1, <1>2, <1>4, <1>6, <1>8, <1>9 DEF n

\* What happens without a look, or beside one: time passes by a moment at most,
\* the entries stay or are cleared in their time, a volume may come to be.
LEMMA Beside ==
  ASSUME ArrivalInv, UNCHANGED <<layout, look>>,
         ArrivalTypeOK', TreeSound', LatestLies',
         latest <= latest',
         \A t \in Nat : Lies(t) => Lies(t)',
         \/ now' = now
         \/ now' = now + 1 /\ (look.left # <<>> => now <= look.t0)
  PROVE  ArrivalInv'
<1>1. latest \in Int /\ latest' \in Int /\ look.t0 \in Nat /\ look.age \in Int
      /\ look.had \in Nat \cup {Never} /\ Never = -1 /\ now \in Nat
  <2>1. latest \in Nat \cup {Never} /\ latest' \in Nat \cup {Never} /\ now \in Nat
    BY DEF ArrivalInv, ArrivalTypeOK, LookRecord
  <2>2. look.t0 \in Nat /\ look.age \in Int /\ look.had \in Nat \cup {Never}
    BY DEF ArrivalInv, ArrivalTypeOK, LookRecord
  <2>3. Never = -1
    BY DEF Never
  <2> QED BY <2>1, <2>2, <2>3
<1>2. Reachable' <=> Reachable
  BY DEF Reachable
<1>3. TellsTrueAge' <=> TellsTrueAge
  BY DEF TellsTrueAge
<1>4. \A by : Done(by)' <=> Done(by)
  BY DEF Done
<1>5. AgeIsTrue'
  <2>1. ASSUME Done({"LB2", "drops", "staging"}), look.said = "seen"
        PROVE  look.t0 - look.age <= latest'
    <3>1. look.t0 - look.age <= latest
      BY <2>1 DEF ArrivalInv, AgeIsTrue
    <3> QED BY <1>1, <3>1
  <2> QED BY <1>2, <1>3, <1>4, <2>1 DEF ArrivalInv, AgeIsTrue
<1>6. Looking'
  <2> SUFFICES ASSUME look.left # <<>> PROVE Looking'
    BY DEF Looking
  <2>1. look.t0 <= now' /\ now' <= look.t0 + 1 /\ look.had <= latest'
    <3>1. look.t0 <= now /\ now <= look.t0 + 1 /\ look.had <= latest
      BY DEF ArrivalInv, Looking
    <3> QED BY <1>1, <3>1
  <2>2. look.had # Never => look.had <= look.t0 /\ Lies(look.had)'
    BY <1>1 DEF ArrivalInv, Looking
  <2>3. Day(look.t0)' = Day(look.t0) /\ Day(look.had)' = Day(look.had)
    BY DEF Day
  <2> QED BY <1>2, <2>1, <2>2, <2>3 DEF ArrivalInv, Looking
<1> QED BY <1>5, <1>6 DEF ArrivalInv

\* What the producer does.
LEMMA ProducerStep ==
  ASSUME ArrivalInv,
         \/ Pass \/ ClearOld
         \/ \E kind \in {"part", "drifted"} : Begin(kind)
         \/ \E e \in tree : Complete(e)
         \/ \E d \in {Day(now), Stray} : MakeDay(d)
  PROVE  ArrivalInv'
<1>a. ArrivalTypeOK /\ TreeSound /\ LatestLies /\ Looking
  BY DEF ArrivalInv
<1>b. /\ tree \subseteq Entry /\ now \in Nat /\ latest \in Nat \cup {Never}
      /\ layout \in {"dated", "flat"}
  BY <1>a DEF ArrivalTypeOK, LookRecord
<1>c. Never = -1 /\ Flat = -2 /\ Flat \in Int /\ Retained \in Nat /\ latest \in Int
  BY <1>b, ArrivalAssumption DEF Never, Flat
<1>d. \A t \in Nat : Place(t) \in Int
  BY <1>c, DaysInOrder DEF Place
<1>e. ASSUME UNCHANGED <<layout, look>>, tree' \subseteq Entry, now' \in Nat,
             latest' \in Nat \cup {Never}
      PROVE  ArrivalTypeOK'
  <2>1. look' = look /\ layout' = layout
    BY <1>e
  <2> QED BY <1>a, <1>e, <2>1 DEF ArrivalTypeOK, LookRecord
<1>f. ASSUME UNCHANGED layout, NEW t PROVE Place(t)' = Place(t)
  BY <1>f DEF Place, Day
<1>g. \A e \in tree : e.stamp \in Nat /\ e.stamp \in Int
  BY <1>b DEF Entry
<1>1. CASE Pass
  <2>1. /\ now' = now + 1 /\ UNCHANGED <<layout, tree, latest, look>>
        /\ look.left # <<>> => look.t0 = now
    BY <1>1 DEF Pass
  <2>2. ArrivalTypeOK'
    BY <1>b, <1>e, <2>1
  <2>3. TreeSound'
    <3>1. \A e \in tree : e.stamp <= now + 1
      BY <1>a, <1>b, <1>g DEF TreeSound
    <3>2. \A e \in tree : e.at = Place(e.stamp)'
      BY <1>a, <1>f, <2>1 DEF TreeSound
    <3> QED BY <1>a, <2>1, <3>1, <3>2 DEF TreeSound
  <2>4. \A t \in Nat : Lies(t) => Lies(t)'
    <3>1. \A t \in Nat : t + Retained < now => t + Retained < now + 1
      BY <1>b, <1>c
    <3> QED BY <2>1, <3>1 DEF Lies
  <2>5. LatestLies'
    <3>1. latest <= now => latest <= now + 1
      BY <1>b, <1>c
    <3> QED BY <1>a, <1>b, <2>1, <2>4, <3>1 DEF LatestLies
  <2>6. latest <= latest' /\ (look.left # <<>> => now <= look.t0)
    BY <1>b, <1>c, <2>1
  <2> QED BY <2>1, <2>2, <2>3, <2>4, <2>5, <2>6, Beside
<1>2. ASSUME NEW kind \in {"part", "drifted"}, Begin(kind) PROVE ArrivalInv'
  <2>1. PICK new : /\ new = [at |-> Place(now), stamp |-> now, kind |-> kind]
                   /\ tree' = tree \cup {new} /\ UNCHANGED <<layout, now, latest, look>>
    BY <1>2 DEF Begin
  <2>2. new \in Entry /\ new.at = Place(now) /\ new.stamp = now /\ new.kind = kind
    BY <1>b, <1>d, <2>1 DEF Entry
  <2>3. ArrivalTypeOK'
    BY <1>b, <1>e, <2>1, <2>2
  <2>4. TreeSound'
    <3>1. \A e \in tree : e.at = Place(e.stamp)'
      BY <1>a, <1>f, <2>1 DEF TreeSound
    <3>2. new.at = Place(new.stamp)' /\ new.stamp <= now' /\ new.kind # "volume"
      BY <1>b, <1>f, <2>1, <2>2
    <3> QED BY <1>a, <2>1, <3>1, <3>2 DEF TreeSound
  <2>5. \A t \in Nat : Lies(t) => Lies(t)'
    BY <2>1 DEF Lies
  <2>6. LatestLies'
    BY <1>a, <1>b, <2>1, <2>5 DEF LatestLies
  <2> QED BY <1>c, <2>1, <2>3, <2>4, <2>5, <2>6, Beside
<1>3. ASSUME NEW e \in tree, Complete(e) PROVE ArrivalInv'
  <2> DEFINE new == [e EXCEPT !.kind = "volume"]
  <2>1. /\ e.kind = "part" /\ tree' = (tree \ {e}) \cup {new}
        /\ latest' = IF e.stamp > latest THEN e.stamp ELSE latest
        /\ UNCHANGED <<layout, now, look>>
    BY <1>3 DEF Complete
  <2>2. new \in Entry /\ new.at = e.at /\ new.stamp = e.stamp /\ new.kind = "volume"
    BY <1>b DEF Entry
  <2> HIDE DEF new
  <2>3. latest <= latest' /\ e.stamp <= latest' /\ latest' \in {latest, e.stamp}
        /\ latest' \in Nat \cup {Never} /\ latest' \in Int
    BY <1>b, <1>c, <1>g, <2>1
  <2>4. ArrivalTypeOK'
    <3>1. tree' \subseteq Entry
      BY <1>b, <2>1, <2>2
    <3> QED BY <1>b, <1>e, <2>1, <2>3, <3>1
  <2>5. TreeSound'
    <3>1. \A f \in tree : f.at = Place(f.stamp)' /\ f.stamp <= now
      BY <1>a, <1>f, <2>1 DEF TreeSound
    <3>2. \A f \in tree : f.kind = "volume" => f.stamp <= latest'
      <4>1. \A f \in tree : f.kind = "volume" => f.stamp <= latest
        BY <1>a DEF TreeSound
      <4> QED BY <1>c, <1>g, <2>3, <4>1
    <3>3. new.at = Place(new.stamp)' /\ new.stamp <= now /\ new.stamp <= latest'
      BY <2>2, <2>3, <3>1
    <3> QED BY <2>1, <3>1, <3>2, <3>3 DEF TreeSound
  <2>6. \A t \in Nat : Lies(t) => Lies(t)'
    BY <2>1 DEF Lies
  <2>7. LatestLies'
    <3>1. CASE latest' = latest
      BY <1>a, <1>b, <2>1, <2>6, <3>1 DEF LatestLies
    <3>2. CASE latest' = e.stamp
      <4>1. new \in tree'
        BY <2>1
      <4>2. e.stamp <= now
        BY <1>a DEF TreeSound
      <4> QED BY <2>1, <2>2, <3>2, <4>1, <4>2 DEF LatestLies, Lies
    <3> QED BY <2>3, <3>1, <3>2
  <2> QED BY <2>1, <2>3, <2>4, <2>5, <2>6, <2>7, Beside
<1>4. ASSUME NEW d, MakeDay(d) PROVE ArrivalInv'
  <2>1. UNCHANGED <<layout, now, tree, latest, look>>
    BY <1>4 DEF MakeDay
  <2>2. ArrivalTypeOK'
    BY <1>b, <1>e, <2>1
  <2>3. TreeSound'
    BY <1>a, <1>f, <2>1 DEF TreeSound
  <2>4. \A t \in Nat : Lies(t) => Lies(t)'
    BY <2>1 DEF Lies
  <2>5. LatestLies'
    BY <1>a, <1>b, <2>1, <2>4 DEF LatestLies
  <2> QED BY <1>c, <2>1, <2>2, <2>3, <2>4, <2>5, Beside
<1>5. CASE ClearOld
  <2>1. PICK e \in tree : /\ layout = "flat" /\ e.stamp + Retained < now
                          /\ tree' = tree \ {e}
                          /\ UNCHANGED <<layout, now, days, latest, look>>
    BY <1>5 DEF ClearOld
  <2>2. ArrivalTypeOK'
    BY <1>b, <1>e, <2>1
  <2>3. TreeSound'
    BY <1>a, <1>f, <2>1 DEF TreeSound
  <2>4. \A t \in Nat : Lies(t) => Lies(t)'
    BY <2>1 DEF Lies
  <2>5. LatestLies'
    BY <1>a, <1>b, <2>1, <2>4 DEF LatestLies
  <2> QED BY <1>c, <2>1, <2>2, <2>3, <2>4, <2>5, Beside
<1> QED BY <1>1, <1>2, <1>3, <1>4, <1>5

\* What a look had, and what can be reached of it, lies where its name says.
LEMMA HadLies ==
  ASSUME ArrivalInv, look.left # <<>>, look.had # Never, layout = "dated" \/ Reachable
  PROVE  \E e \in tree : e.kind = "volume" /\ e.stamp = look.had /\ e.at = Place(look.had)
<1>1. /\ look.had \in Nat /\ look.t0 \in Nat /\ now \in Nat /\ Retained \in Nat
      /\ layout \in {"dated", "flat"}
  BY ArrivalAssumption DEF ArrivalInv, ArrivalTypeOK, LookRecord
<1>2. now <= look.t0 + 1 /\ Lies(look.had)
  BY DEF ArrivalInv, Looking
<1>3. CASE layout = "flat"
  <2>1. look.had + Retained > look.t0
    BY <1>3 DEF Reachable
  <2>2. ~(look.had + Retained < now)
    BY <1>1, <1>2, <2>1
  <2> QED BY <1>2, <2>2 DEF Lies, ArrivalInv, TreeSound
<1>4. CASE layout = "dated"
  BY <1>2, <1>4 DEF Lies, ArrivalInv, TreeSound
<1> QED BY <1>1, <1>3, <1>4

\* A look at the days goes by today and yesterday.
LEMMA DaysOfTheLook ==
  ASSUME ArrivalInv, look.left # <<>>
  PROVE  /\ look.t0 \in Nat /\ Day(look.t0) \in Nat
         /\ look.had # Never => /\ look.had \in Nat /\ Day(look.had) \in Nat
                                /\ Day(look.had) <= Day(look.t0)
         /\ Reachable /\ layout = "dated" =>
              Day(look.had) = Day(look.t0) \/ Day(look.had) = Day(look.t0) - 1
<1>1. look.t0 \in Nat /\ look.had \in Nat \cup {Never}
  BY DEF ArrivalInv, ArrivalTypeOK, LookRecord
<1>2. look.had # Never => look.had <= look.t0
  BY DEF ArrivalInv, Looking
<1>3. /\ Day(look.t0) \in Nat
      /\ look.had # Never => Day(look.had) \in Nat /\ Day(look.had) <= Day(look.t0)
  BY <1>1, <1>2, DaysInOrder
<1>4. Reachable /\ layout = "dated" => look.had # Never /\ Day(look.had) >= Day(look.t0) - 1
  BY DEF Reachable
<1> HIDE DEF Day
<1> QED BY <1>1, <1>3, <1>4

LEMMA LookBegins ==
  ASSUME ArrivalInv, NEW by \in {"LB2", "drops", "staging"}, Start(by)
  PROVE  ArrivalInv'
<1>a. ArrivalTypeOK /\ TreeSound /\ LatestLies
  BY DEF ArrivalInv
<1>b. now \in Nat /\ latest \in Nat \cup {Never} /\ layout \in {"dated", "flat"}
  BY <1>a DEF ArrivalTypeOK, LookRecord
<1>c. Day(now) \in Nat /\ Never = -1 /\ Flat = -2
  BY <1>b, DaysInOrder DEF Never, Flat
<1>1. /\ by \in Watching /\ UNCHANGED <<layout, now, tree, days, latest>>
      /\ look' = [by |-> by, t0 |-> now, had |-> latest, left |-> Candidates(by, now),
                  said |-> "looking", age |-> Never]
  BY DEF Start
<1>2. /\ look'.by = by /\ look'.t0 = now /\ look'.had = latest
      /\ look'.left = Candidates(by, now)
  BY <1>1
<1>3. /\ layout = "dated" =>
           \/ look'.left = <<Day(now), Day(now) - 1>>
           \/ look'.left = <<Flat, Day(now), Day(now) - 1>>
      /\ layout = "flat" =>
           \/ look'.left = <<Flat>>
           \/ look'.left = <<Flat, Day(now), Day(now) - 1>>
  <2>1. layout = "dated" => by \in {"LB2", "drops"}
    BY <1>1 DEF Watching
  <2>2. layout = "flat" => by \in {"drops", "staging"}
    BY <1>1 DEF Watching
  <2> QED BY <1>2, <2>1, <2>2 DEF Candidates
<1>4. look'.left \in Seq(Int) /\ look'.left # <<>>
  <2>1. Flat \in Int /\ Day(now) \in Int /\ Day(now) - 1 \in Int
    BY <1>c
  <2>2. ASSUME NEW x \in Int, NEW y \in Int, NEW z \in Int
        PROVE  /\ <<x>> \in Seq(Int) /\ <<x, y>> \in Seq(Int) /\ <<x, y, z>> \in Seq(Int)
               /\ <<x>> # <<>> /\ <<x, y>> # <<>> /\ <<x, y, z>> # <<>>
    OBVIOUS
  <2>3. /\ <<Flat>> \in Seq(Int) /\ <<Flat>> # <<>>
        /\ <<Day(now), Day(now) - 1>> \in Seq(Int) /\ <<Day(now), Day(now) - 1>> # <<>>
        /\ <<Flat, Day(now), Day(now) - 1>> \in Seq(Int)
        /\ <<Flat, Day(now), Day(now) - 1>> # <<>>
    BY ONLY <2>1, <2>2
  <2> QED BY <1>b, <1>3, <2>3
<1>5. ArrivalTypeOK'
  <2> DEFINE c == Candidates(by, now)
  <2>1. c \in Seq(Int)
    BY <1>2, <1>4
  <2>2. look' = [by |-> by, t0 |-> now, had |-> latest, left |-> c,
                 said |-> "looking", age |-> Never]
    BY <1>1
  <2>3. Never \in Int
    BY <1>c
  <2> HIDE DEF c
  <2>4. look' \in [by : {"none", "LB2", "drops", "staging"}, t0 : Nat, had : Nat \cup {Never},
               left : Seq(Int), said : {"looking", "seen", "silent", "no age", "unparseable",
                                        "nothing", "unreadable", "unread"}, age : Int]
    BY <1>b, <2>1, <2>2, <2>3
  <2> QED BY <1>a, <1>1, <2>4 DEF ArrivalTypeOK, LookRecord
<1>6. TreeSound' /\ LatestLies'
  <2>1. \A t : Place(t)' = Place(t) /\ (Lies(t) <=> Lies(t)')
    BY <1>1 DEF Place, Lies, Day
  <2> QED BY <1>a, <1>1, <2>1 DEF TreeSound, LatestLies
<1>7. AgeIsTrue'
  BY <1>4 DEF AgeIsTrue, Done
<1>8. Looking'
  <2>1. now' = now /\ now <= now + 1 /\ latest <= latest /\ now <= now /\ latest' = latest
    BY <1>b, <1>c, <1>1
  <2>2. latest # Never => latest <= now /\ Lies(latest)'
    BY <1>a, <1>1 DEF LatestLies, Lies
  <2>3. Day(now)' = Day(now)
    BY <1>1 DEF Day
  <2>4. Day(look.t0)' = Day(now)
    BY <1>2 DEF Day
  <2>5. layout' = layout
    BY <1>1
  <2>6. look'.had # Never => look'.had <= look'.t0 /\ Lies(look.had)'
    BY <1>1, <1>2, <2>2 DEF Lies
  <2>7. /\ look'.t0 <= now' /\ now' <= look'.t0 + 1
        /\ look'.by # "none" /\ look'.had <= latest'
    BY <1>2, <2>1
  <2> QED BY <1>b, <1>3, <2>4, <2>5, <2>6, <2>7 DEF Looking
<1> QED BY <1>5, <1>6, <1>7, <1>8 DEF ArrivalInv

\* A look that ends keeps the invariant if what it says is true.
LEMMA LookEnds ==
  ASSUME ArrivalInv, UNCHANGED <<layout, now, tree, days, latest>>,
         NEW said \in {"seen", "silent", "no age", "unparseable", "nothing", "unreadable", "unread"},
         NEW age \in Int,
         look' = [look EXCEPT !.left = <<>>, !.said = said, !.age = age],
         said = "seen" => look.t0 - age <= latest,
         Reachable /\ said \notin Unread => said = "seen" /\ age <= look.t0 - look.had
  PROVE  ArrivalInv'
<1>a. ArrivalTypeOK /\ TreeSound /\ LatestLies
  BY DEF ArrivalInv
<1>b. look \in LookRecord
  BY <1>a DEF ArrivalTypeOK, LookRecord
<1>1. /\ look' \in LookRecord
      /\ look'.left = <<>> /\ look'.said = said /\ look'.age = age
      /\ look'.t0 = look.t0 /\ look'.had = look.had
  <2>1. ASSUME NEW B, NEW T, NEW H, NEW L, NEW S, NEW A,
               NEW k \in [by : B, t0 : T, had : H, left : L, said : S, age : A],
               NEW l \in L, NEW s \in S, NEW a \in A, NEW q,
               q = [k EXCEPT !.left = l, !.said = s, !.age = a]
        PROVE  /\ q \in [by : B, t0 : T, had : H, left : L, said : S, age : A]
               /\ q.left = l /\ q.said = s /\ q.age = a
               /\ q.t0 = k.t0 /\ q.had = k.had
    BY <2>1
  <2> DEFINE B == {"none", "LB2", "drops", "staging"}
             H == Nat \cup {Never}
             S == {"looking", "seen", "silent", "no age", "unparseable", "nothing", "unreadable", "unread"}
             R == [by : B, t0 : Nat, had : H, left : Seq(Int), said : S, age : Int]
  <2>2. <<>> \in Seq(Int) /\ said \in S /\ look \in R /\ R = LookRecord
    <3>0. <<>> \in Seq(Int)
      BY EmptySeq
    <3>1. said \in S
      OBVIOUS
    <3>2. R = LookRecord
      BY DEF LookRecord
    <3> QED BY <1>b, <3>0, <3>1, <3>2
  <2>3. look' = [look EXCEPT !.left = <<>>, !.said = said, !.age = age] /\ age \in Int
    OBVIOUS
  <2> HIDE DEF B, H, S
  <2>4. /\ look' \in R
        /\ look'.left = <<>> /\ look'.said = said /\ look'.age = age
        /\ look'.t0 = look.t0 /\ look'.had = look.had
    BY ONLY <2>1, <2>2, <2>3
  <2> QED BY <2>2, <2>4
<1>2. ArrivalTypeOK'
  BY <1>a, <1>1 DEF ArrivalTypeOK, LookRecord
<1>3. TreeSound' /\ LatestLies'
  <2>1. \A t : Place(t)' = Place(t) /\ (Lies(t) <=> Lies(t)')
    BY DEF Place, Lies, Day
  <2> QED BY <1>a, <2>1 DEF TreeSound, LatestLies
<1>4. Looking'
  BY <1>1 DEF Looking
<1>5. AgeIsTrue'
  <2>1. Reachable' <=> Reachable
    BY <1>1 DEF Reachable, Day
  <2> QED BY <1>1, <2>1 DEF AgeIsTrue, Done, TellsTrueAge
<1> QED BY <1>2, <1>3, <1>4, <1>5 DEF ArrivalInv

\* The place that is looked at is not where what was had lies, if it declares
\* nothing; and what it declares is no older.
LEMMA PlaceTells ==
  ASSUME ArrivalInv, look.left # <<>>, NEW n, n = _newest_declared(Head(look.left))
  PROVE  /\ n \in Nat \cup {Never} /\ (n # Never => n <= latest)
         /\ n = Never /\ look.had # Never /\ (layout = "dated" \/ Reachable)
              => Head(look.left) # Place(look.had)
         /\ Reachable /\ n # Never => look.had <= n
<1>a. ArrivalTypeOK /\ TreeSound
  BY DEF ArrivalInv
<1>b. /\ layout \in {"dated", "flat"} /\ tree \subseteq Entry
      /\ look.had \in Nat \cup {Never}
  BY <1>a DEF ArrivalTypeOK, LookRecord
<1>1. /\ n \in Nat \cup {Never} /\ (n # Never => n <= latest)
      /\ n # Never => \E e \in tree : e.at = Head(look.left) /\ e.stamp = n
      /\ \A e \in tree : e.at = Head(look.left) /\ e.kind = "volume" => e.stamp <= n /\ n # Never
  BY <1>a, NewestDeclared
<1>2. look.had # Never /\ (layout = "dated" \/ Reachable) /\ Head(look.left) = Place(look.had)
        => look.had <= n /\ n # Never
  BY <1>1, HadLies
<1>3. ASSUME Reachable, n # Never PROVE look.had <= n
  <2>1. look.had # Never /\ look.had \in Nat
    BY <1>b, <1>3 DEF Reachable
  <2>2. CASE layout = "flat"
    <3>1. Head(look.left) = Flat
      BY <1>3, <2>2 DEF ArrivalInv, Looking
    <3> QED BY <1>2, <1>3, <2>1, <2>2, <3>1 DEF Place
  <2>3. CASE layout = "dated"
    <3>1. Place(look.had) = Day(look.had)
      BY <2>3 DEF Place
    <3>2. PICK e \in tree : e.at = Head(look.left) /\ e.stamp = n
      BY <1>1, <1>3
    <3>3. n \in Nat /\ Head(look.left) = Day(n) /\ Day(n) \in Nat
      BY <1>a, <1>b, <1>1, <1>3, <2>3, <3>2, DaysInOrder DEF TreeSound, Place, Entry, Never
    <3>4. /\ Day(look.t0) \in Nat /\ Day(look.had) \in Nat /\ Day(look.had) <= Day(look.t0)
          /\ Day(look.had) = Day(look.t0) \/ Day(look.had) = Day(look.t0) - 1
      BY <1>3, <2>1, <2>3, DaysOfTheLook
    <3>5. Head(look.left) # Flat
      <4>1. Flat \notin Nat
        BY DEF Flat
      <4> QED BY <3>3, <4>1
    <3>6. Day(look.had) = Day(n) \/ Day(look.had) < Day(n)
      <4>1. CASE look.left = <<Day(look.t0), Day(look.t0) - 1>>
        <5>1. Day(n) = Day(look.t0)
          BY <3>3, <4>1
        <5> HIDE DEF Day
        <5> QED BY <3>3, <3>4, <5>1
      <4>2. CASE look.left = <<Day(look.t0) - 1>> /\ Day(look.had) # Day(look.t0)
        <5>1. Day(n) = Day(look.t0) - 1
          BY <3>3, <4>2
        <5> QED BY <3>4, <4>2, <5>1
      <4>3. look.left # <<Flat, Day(look.t0), Day(look.t0) - 1>>
        BY <3>5
      <4> QED BY <2>1, <2>3, <4>1, <4>2, <4>3 DEF ArrivalInv, Looking
    <3>7. CASE Day(look.had) = Day(n)
      BY <1>2, <2>1, <2>3, <3>1, <3>3, <3>7
    <3>8. CASE Day(look.had) < Day(n)
      <4>1. ~(n <= look.had)
        <5>1. n <= look.had => Day(n) <= Day(look.had)
          BY <2>1, <3>3, DaysInOrder
        <5> HIDE DEF Day
        <5> QED BY <3>3, <3>4, <3>8, <5>1
      <4> QED BY <2>1, <3>3, <4>1
    <3> QED BY <3>6, <3>7, <3>8
  <2> QED BY <1>b, <2>2, <2>3
<1> QED BY <1>1, <1>2, <1>3

\* The look passes to its next place, which is left to look at.
LEMMA LookGoesOn ==
  ASSUME ArrivalInv, look.left # <<>>, UNCHANGED <<layout, now, tree, days, latest>>,
         _newest_declared(Head(look.left)) = Never, Tail(look.left) # <<>>,
         look' = [look EXCEPT !.left = Tail(look.left)]
  PROVE  ArrivalInv'
<1> DEFINE today == Day(look.t0)
<1>a. ArrivalTypeOK /\ TreeSound /\ LatestLies /\ Looking
  BY DEF ArrivalInv
<1>b. look \in LookRecord /\ layout \in {"dated", "flat"}
  BY <1>a DEF ArrivalTypeOK, LookRecord
<1>c. today \in Nat /\ Never = -1 /\ Flat = -2
  BY <1>b, DaysInOrder DEF LookRecord, Never, Flat
<1>1. /\ look' \in LookRecord /\ look'.left = Tail(look.left)
      /\ look'.t0 = look.t0 /\ look'.had = look.had /\ look'.by = look.by
  <2>1. look.left \in Seq(Int)
    BY <1>b DEF LookRecord
  <2>2. Tail(look.left) \in Seq(Int)
    BY <2>1
  <2>3. ASSUME NEW t, t = Tail(look.left)
        PROVE  /\ look' \in LookRecord /\ look'.left = t
               /\ look'.t0 = look.t0 /\ look'.had = look.had /\ look'.by = look.by
    <3>1. t \in Seq(Int) /\ look' = [look EXCEPT !.left = t]
      BY <2>2, <2>3
    <3> QED BY <1>b, <3>1 DEF LookRecord
  <2> QED BY <2>3
<1>2. ArrivalTypeOK'
  BY <1>a, <1>1 DEF ArrivalTypeOK, LookRecord
<1>3. TreeSound' /\ LatestLies' /\ (Reachable' <=> Reachable)
      /\ \A t : Place(t)' = Place(t) /\ (Lies(t) <=> Lies(t)') /\ Day(t)' = Day(t)
  <2>1. \A t : Place(t)' = Place(t) /\ (Lies(t) <=> Lies(t)') /\ Day(t)' = Day(t)
    BY DEF Place, Lies, Day
  <2>2. Reachable' <=> Reachable
    BY <1>1 DEF Reachable, Day
  <2> QED BY <1>a, <2>1, <2>2 DEF TreeSound, LatestLies
<1>4. AgeIsTrue'
  BY <1>1 DEF AgeIsTrue, Done
<1>5. look.had # Never /\ (layout = "dated" \/ Reachable) => Head(look.left) # Place(look.had)
  BY PlaceTells
<1>6. /\ Tail(<<Flat, today, today - 1>>) = <<today, today - 1>>
      /\ Tail(<<today, today - 1>>) = <<today - 1>>
      /\ Tail(<<today - 1>>) = <<>> /\ Tail(<<Flat>>) = <<>>
  <2>1. \A x, y, z : /\ Tail(<<x, y, z>>) = <<y, z>> /\ Tail(<<y, z>>) = <<z>>
                     /\ Tail(<<z>>) = <<>>
    OBVIOUS
  <2> HIDE DEF today
  <2> QED BY <2>1
<1>7. \/ layout = "dated" /\ look.left = <<Flat, today, today - 1>>
                          /\ look'.left = <<today, today - 1>>
      \/ layout = "dated" /\ look.left = <<today, today - 1>> /\ look'.left = <<today - 1>>
      \/ layout = "flat" /\ look.left = <<Flat, today, today - 1>>
                         /\ look'.left = <<today, today - 1>>
      \/ layout = "flat" /\ look.left = <<today, today - 1>> /\ look'.left = <<today - 1>>
                         /\ ~Reachable
  <2> HIDE DEF today
  <2> QED BY <1>a, <1>b, <1>1, <1>6 DEF Looking, today
<1>8. IF layout = "dated"
      THEN \/ look'.left = <<Flat, today, today - 1>> \/ look'.left = <<today, today - 1>>
           \/ look'.left = <<today - 1>> /\ (look.had # Never => Day(look.had) # today)
      ELSE \/ look'.left = <<Flat, today, today - 1>> \/ look'.left = <<Flat>>
           \/ ~Reachable /\ (look'.left = <<today, today - 1>> \/ look'.left = <<today - 1>>)
  <2>1. CASE layout = "dated" /\ look.left = <<today, today - 1>>
    <3>1. Head(look.left) = today
      <4> HIDE DEF today
      <4> QED BY <2>1
    <3>2. Place(look.had) = Day(look.had)
      BY <2>1 DEF Place
    <3> HIDE DEF today
    <3> QED BY <1>5, <1>7, <2>1, <3>1, <3>2
  <2>2. CASE layout = "flat" /\ look.left = <<Flat, today, today - 1>>
    <3>1. Head(look.left) = Flat
      <4> HIDE DEF today
      <4> QED BY <2>2
    <3>2. Place(look.had) = Flat /\ (Reachable => look.had # Never)
      BY <2>2 DEF Place, Reachable
    <3>3. ~Reachable
      BY <1>5, <3>1, <3>2
    <3> HIDE DEF today
    <3> QED BY <1>1, <1>6, <2>2, <3>3
  <2> HIDE DEF today
  <2> QED BY <1>7, <2>1, <2>2
<1>9. Looking'
  <2>1. /\ look'.t0 <= now' /\ now' <= look'.t0 + 1
        /\ look'.by # "none" /\ look'.had <= latest'
    BY <1>a, <1>1 DEF Looking
  <2>2. look'.had # Never => look'.had <= look'.t0 /\ Lies(look.had)'
    BY <1>a, <1>1, <1>3 DEF Looking
  <2>3. Day(look.t0)' = today /\ Day(look.had)' = Day(look.had)
    BY <1>1 DEF Day
  <2> HIDE DEF today
  <2> QED BY <1>1, <1>3, <1>8, <2>1, <2>2, <2>3 DEF Looking
<1> QED BY <1>2, <1>3, <1>4, <1>9 DEF ArrivalInv

\* Out of places, a look had nothing it could reach.
LEMMA NothingWasThere ==
  ASSUME ArrivalInv, look.left # <<>>,
         _newest_declared(Head(look.left)) = Never, Tail(look.left) = <<>>
  PROVE  ~Reachable
<1> SUFFICES ASSUME Reachable PROVE FALSE
  OBVIOUS
<1> DEFINE today == Day(look.t0)
<1>1. Looking /\ layout \in {"dated", "flat"} /\ look.had # Never
  BY DEF ArrivalInv, ArrivalTypeOK, Reachable, LookRecord
<1>2. Head(look.left) # Place(look.had)
  BY <1>1, PlaceTells
<1>3. /\ today \in Nat /\ Day(look.had) \in Nat
      /\ layout = "dated" => Day(look.had) = today \/ Day(look.had) = today - 1
  BY <1>1, DaysOfTheLook
<1>4. \A x, y, z : Tail(<<x, y, z>>) # <<>> /\ Tail(<<y, z>>) # <<>> /\ Head(<<z>>) = z
  OBVIOUS
<1>5. CASE layout = "dated"
  <2>1. look.left = <<today - 1>> /\ Day(look.had) # today
    <3>1. \/ look.left = <<Flat, today, today - 1>> \/ look.left = <<today, today - 1>>
          \/ look.left = <<today - 1>> /\ Day(look.had) # today
      BY <1>1, <1>5 DEF Looking
    <3> HIDE DEF today
    <3> QED BY <1>4, <3>1
  <2>2. Head(look.left) = today - 1
    <3> HIDE DEF today
    <3> QED BY <1>4, <2>1
  <2> QED BY <1>2, <1>3, <1>5, <2>1, <2>2 DEF Place
<1>6. CASE layout = "flat"
  <2>1. look.left = <<Flat>>
    <3>1. look.left = <<Flat, today, today - 1>> \/ look.left = <<Flat>>
      BY <1>1, <1>6 DEF Looking
    <3> HIDE DEF today
    <3> QED BY <1>4, <3>1
  <2> QED BY <1>2, <1>4, <1>6, <2>1 DEF Place
<1> QED BY <1>1, <1>5, <1>6

LEMMA LookStep ==
  ASSUME ArrivalInv, first_resolvable \/ \E said \in Unread : GiveUp(said)
  PROVE  ArrivalInv'
<1>a. look.left # <<>> /\ UNCHANGED <<layout, now, tree, days, latest>>
  BY DEF first_resolvable, GiveUp
<1>b. /\ look.t0 \in Nat /\ look.had \in Nat \cup {Never} /\ latest \in Nat \cup {Never}
      /\ look.age \in Int /\ look.by # "none"
      /\ look.by \in {"none", "LB2", "drops", "staging"}
      /\ look = [look EXCEPT !.age = look.age]
  <2>1. look \in LookRecord
    BY DEF ArrivalInv, ArrivalTypeOK, LookRecord
  <2>2. look.by # "none" /\ latest \in Nat \cup {Never}
    BY <1>a DEF ArrivalInv, ArrivalTypeOK, Looking, LookRecord
  <2> QED BY <2>1, <2>2 DEF LookRecord
<1>c. Never = -1
  BY DEF Never
<1>1. ASSUME NEW said \in Unread, GiveUp(said) PROVE ArrivalInv'
  <2>1. look' = [look EXCEPT !.left = <<>>, !.said = said]
    BY <1>1 DEF GiveUp
  <2>2. look' = [look EXCEPT !.left = <<>>, !.said = said, !.age = look.age]
    <3>1. look \in LookRecord
      BY DEF ArrivalInv, ArrivalTypeOK, LookRecord
    <3> QED BY <2>1, <3>1 DEF LookRecord
  <2>3. said # "seen" /\ said \in {"unreadable", "unread"}
    BY DEF Unread
  <2> QED BY <1>a, <1>b, <2>2, <2>3, LookEnds
<1>2. CASE first_resolvable
  <2> DEFINE stamp == _newest_declared(Head(look.left))
             rest == Tail(look.left)
             said == Exhausted(look.by, look.t0)
  <2>1. look' = IF stamp # Never
             THEN [look EXCEPT !.left = <<>>, !.said = "seen", !.age = look.t0 - stamp]
             ELSE IF rest # <<>> THEN [look EXCEPT !.left = rest]
             ELSE [look EXCEPT !.left = <<>>, !.said = said,
                     !.age = IF said = "seen" THEN look.t0 - Descend(look.t0) ELSE Never]
    BY <1>2 DEF first_resolvable
  <2>2. /\ stamp \in Nat \cup {Never} /\ (stamp # Never => stamp <= latest)
        /\ Reachable /\ stamp # Never => look.had <= stamp
    BY <1>a, PlaceTells
  <2>3. CASE stamp # Never
    <3>1. look' = [look EXCEPT !.left = <<>>, !.said = "seen", !.age = look.t0 - stamp]
      BY <2>1, <2>3
    <3>2. stamp \in Nat /\ stamp <= latest /\ (Reachable => look.had <= stamp)
      BY <2>2, <2>3
    <3> HIDE DEF stamp
    <3>3. /\ look.t0 - stamp \in Int
          /\ look.t0 - (look.t0 - stamp) <= latest
          /\ Reachable => look.t0 - stamp <= look.t0 - look.had
      <4>1. look.t0 - (look.t0 - stamp) = stamp /\ look.t0 - stamp \in Int
        BY <1>b, <3>2
      <4>2. Reachable => look.t0 - stamp <= look.t0 - look.had
        BY <1>b, <1>c, <3>2
      <4> QED BY <3>2, <4>1, <4>2
    <3> QED BY <1>a, <3>1, <3>3, LookEnds
  <2>4. CASE stamp = Never /\ rest # <<>>
    BY <1>a, <2>1, <2>4, LookGoesOn
  <2>5. CASE stamp = Never /\ rest = <<>>
    <3>1. ~Reachable
      BY <1>a, <2>5, NothingWasThere
    <3> DEFINE age == IF said = "seen" THEN look.t0 - Descend(look.t0) ELSE Never
    <3>2. look' = [look EXCEPT !.left = <<>>, !.said = said, !.age = age]
      BY <2>1, <2>5
    <3>3. said \in {"seen", "silent", "no age", "unparseable", "nothing", "unreadable", "unread"}
      BY <1>b DEF Exhausted, _scan_staging
    <3>4. said = "seen" => Descend(look.t0) # Never
      BY <1>b DEF Exhausted, _scan_staging
    <3>5. /\ Descend(look.t0) \in Nat \cup {Never}
          /\ Descend(look.t0) # Never => Descend(look.t0) <= latest
      <4>1. ArrivalTypeOK /\ TreeSound
        BY DEF ArrivalInv
      <4> QED BY <4>1, NewestDeclared DEF Descend
    <3>6. age \in Int /\ (said = "seen" => look.t0 - age <= latest)
      <4>1. CASE said = "seen"
        <5> DEFINE d == Descend(look.t0)
        <5>1. d \in Nat /\ d <= latest /\ age = look.t0 - d
          BY <3>4, <3>5, <4>1
        <5> HIDE DEF d, age, said
        <5>2. look.t0 - (look.t0 - d) = d /\ look.t0 - d \in Int
          BY <1>b, <5>1
        <5> QED BY <5>1, <5>2
      <4>2. CASE said # "seen"
        BY <1>c, <4>2
      <4> QED BY <4>1, <4>2
    <3> HIDE DEF said, age
    <3> QED BY <1>a, <3>1, <3>2, <3>3, <3>6, LookEnds
  <2> QED BY <2>3, <2>4, <2>5
<1> QED BY <1>1, <1>2

LEMMA ArrivalInductive == ArrivalInv /\ [ArrivalNext]_arrivalVars => ArrivalInv'
<1>1. ASSUME ArrivalInv, ArrivalNext PROVE ArrivalInv'
  BY <1>1, ProducerStep, LookBegins, LookStep DEF ArrivalNext
<1>2. ASSUME ArrivalInv, UNCHANGED arrivalVars PROVE ArrivalInv'
  <2>1. \A t : Place(t)' = Place(t) /\ (Lies(t) <=> Lies(t)') /\ Day(t)' = Day(t)
    BY <1>2 DEF arrivalVars, Place, Lies, Day
  <2>2. ArrivalTypeOK' /\ TreeSound' /\ LatestLies'
    BY <1>2, <2>1 DEF arrivalVars, ArrivalInv, ArrivalTypeOK, TreeSound, LatestLies, LookRecord
  <2>3. latest <= latest' /\ now' = now /\ UNCHANGED <<layout, look>>
    <3>1. latest \in Int
      <4>1. latest \in Nat \cup {Never}
        BY <1>2 DEF ArrivalInv, ArrivalTypeOK, LookRecord
      <4> QED BY <4>1 DEF Never
    <3> QED BY <1>2, <3>1 DEF arrivalVars
  <2> QED BY <1>2, <2>1, <2>2, <2>3, Beside
<1> QED BY <1>1, <1>2

\* No look makes the newest volume out to be younger than it is, and none that
\* ends overlooks what had arrived when it began, whatever the producer does
\* meanwhile: for any length of the day, any folder and any time a volume is kept.
THEOREM AgesAreTrue == ArrivalSpec => []AgeIsTrue
<1>1. ArrivalInit => ArrivalInv
  <2> SUFFICES ASSUME ArrivalInit PROVE ArrivalInv
    OBVIOUS
  <2>1. look = [by |-> "none", t0 |-> 0, had |-> Never, left |-> <<>>, said |-> "unreadable",
                age |-> Never]
    BY DEF ArrivalInit
  <2>2. <<>> \in Seq(Int)
    BY EmptySeq
  <2>3. Never \in Int
    BY DEF Never
  <2>4. look \in [by : {"none", "LB2", "drops", "staging"}, t0 : Nat, had : Nat \cup {Never},
               left : Seq(Int), said : {"looking", "seen", "silent", "no age", "unparseable",
                                        "nothing", "unreadable", "unread"}, age : Int]
    BY <2>1, <2>2, <2>3
  <2>5. ArrivalTypeOK
    BY <2>4 DEF ArrivalInit, ArrivalTypeOK, LookRecord
  <2>6. TreeSound /\ LatestLies
    BY DEF ArrivalInit, TreeSound, LatestLies
  <2>7. Looking /\ AgeIsTrue
    BY <2>1 DEF Looking, AgeIsTrue, Done, Unread
  <2> QED BY <2>5, <2>6, <2>7 DEF ArrivalInv
<1>2. ArrivalInv => AgeIsTrue
  BY DEF ArrivalInv
<1> QED BY <1>1, <1>2, ArrivalInductive, PTL DEF ArrivalSpec

-----------------------------------------------------------------------------
(* The rows that are judged again *)

ReprocessSpec == ReprocessInit /\ [][ReprocessNext]_reVars

Check == {"L1", "L2", "LB1", "LB2", "composite", "input", "drops", "L4"}

\* Of these there is nothing to judge by age, in any check but L2.
Ageless == {"http", "empty", "malformed", "absent", "nothing", "not_read", "receipt", "undated",
            "unbanded"}

IsRow(row) ==
  row = [status |-> row.status, sub |-> row.sub, facts |-> row.facts, original |-> row.original,
         live |-> row.live, obs |-> row.obs, under |-> row.under, known |-> row.known]

\* The first verdict of a radar, an image and an old timeout is the one it has, or is
\* kept with it.
FirstVerdict(c, row) ==
  LET kept == row.original = row.live
      untouched == row.original = "none" /\ row.status = row.live IN
  CASE c = "L1" -> IF row.obs.got = "old_timeout"
                   THEN row.facts.old_timeout /\ (untouched \/ (kept /\ row.status = "error"))
                   ELSE ~row.facts.old_timeout
    [] c \in {"L2", "L4"} -> row.live # "none" /\ (untouched \/ kept)
    [] OTHER -> row.obs.got # "old_timeout"

\* A radar that published nothing: nothing is judged of its age.
Stoppage(c, row) ==
  c = "L2" =>
    /\ row.facts = [verdict |-> row.facts.verdict, n |-> row.facts.n, last |-> row.facts.last]
    /\ row.obs.n <= 0 => row.facts.n <= 0 /\ row.status = row.live

\* What says nothing of an age has none, or no verdict on it that could be judged again.
NoVerdictOnAge(c, row) ==
  c # "L2" /\ row.obs.got \in Ageless =>
    /\ row.status = row.live
    /\ CASE c = "L1" -> /\ row.facts.last = NotThere /\ row.facts.med = NotThere
                        /\ row.facts.bytes = NotThere /\ ~row.facts.old_timeout
                        /\ "E_step_count" \notin DOMAIN row.sub /\ row.status = Worst(row.sub)
         [] c = "composite" -> \/ row.facts.age = NotThere
                               \/ "B_fresh" \notin DOMAIN row.sub /\ row.status = Worst(row.sub)
         [] OTHER -> c # "L4" /\ row.facts.age = NotThere

\* Where an age is only warned of, the verdicts beside it do not fail either.
OnlyWarns(c, row) ==
  c \in {"input", "drops"} =>
    \/ row.live = "fail" /\ row.facts.age = NotThere
    \/ row.status # "fail" /\ \A k \in DOMAIN row.sub : row.sub[k] \in {"pass", "warn"}

RowKept(c, row) ==
  IsRow(row) /\ FirstVerdict(c, row) /\ Stoppage(c, row) /\ NoVerdictOnAge(c, row)
    /\ OnlyWarns(c, row)

\* A job that walks, at what it has come to: what it read and what it has to write keep
\* the history of the rows.
Walk(from, at, upto, read, frame, updates, under, mixed) ==
  [state |-> "walking", from |-> from, at |-> at, upto |-> upto, read |-> read, frame |-> frame,
   updates |-> updates, under |-> under, mixed |-> mixed]
WalkKept(c, w) ==
  w.state = "walking" =>
    /\ w = Walk(w.from, w.at, w.upto, w.read, w.frame, w.updates, w.under, w.mixed)
    /\ w.at \in Nat /\ 1 <= w.at /\ w.upto \in Nat
    /\ \A i \in 1..w.upto : RowKept(c, w.read[i])
    /\ \A i \in DOMAIN w.updates : RowKept(c, w.updates[i])

HistoryInv ==
  /\ check \in Check /\ check \in DOMAIN Observation
  /\ \E S : rows \in Seq(S)
  /\ \A i \in 1..Len(rows) : RowKept(check, rows[i])
  /\ job = [k \in Job |-> job[k]]
  /\ \A k \in Job : WalkKept(check, job[k])

\* The worst of some verdicts is one of them.
LEMMA WorstIsOneOfThem ==
  ASSUME NEW S \in SUBSET {"skip", "pass", "warn", "fail", "error"}
  PROVE  S # {} => worst_of(S) \in S /\ \A t \in S : Rank[worst_of(S)] >= Rank[t]
<1> SUFFICES ASSUME S # {}
             PROVE  worst_of(S) \in S /\ \A t \in S : Rank[worst_of(S)] >= Rank[t]
  OBVIOUS
<1>1. /\ Rank["skip"] = 0 /\ Rank["pass"] = 1 /\ Rank["warn"] = 2 /\ Rank["fail"] = 3
      /\ Rank["error"] = 4
  BY DEF Rank
<1>2. \E s \in S : \A t \in S : Rank[s] >= Rank[t]
  <2>1. CASE "error" \in S
    BY <1>1, <2>1
  <2>2. CASE "error" \notin S /\ "fail" \in S
    BY <1>1, <2>2
  <2>3. CASE "error" \notin S /\ "fail" \notin S /\ "warn" \in S
    BY <1>1, <2>3
  <2>4. CASE "error" \notin S /\ "fail" \notin S /\ "warn" \notin S /\ "pass" \in S
    BY <1>1, <2>4
  <2>5. CASE "error" \notin S /\ "fail" \notin S /\ "warn" \notin S /\ "pass" \notin S
    <3>1. \A s \in S : s = "skip"
      BY <2>5
    <3>2. PICK s \in S : s = "skip"
      BY <3>1
    <3>3. \A t \in S : Rank[s] >= Rank[t]
      BY <1>1, <3>1, <3>2
    <3> QED BY <3>3
  <2> QED BY <2>1, <2>2, <2>3, <2>4, <2>5
<1> QED BY <1>2 DEF worst_of

\* What only passes and warns does not fail.
LEMMA WarnsAtWorst ==
  ASSUME NEW sub, \A k \in DOMAIN sub : sub[k] \in {"pass", "warn"}
  PROVE  Worst(sub) \in {"pass", "warn"}
<1> DEFINE S == {sub[k] : k \in DOMAIN sub}
<1>1. S \in SUBSET {"pass", "warn"} /\ S \in SUBSET {"skip", "pass", "warn", "fail", "error"}
  OBVIOUS
<1>2. Worst(sub) = worst_of(S)
  BY DEF Worst
<1> HIDE DEF S
<1>3. CASE S = {}
  BY <1>2, <1>3 DEF worst_of
<1>4. CASE S # {}
  BY <1>1, <1>2, <1>4, WorstIsOneOfThem
<1> QED BY <1>3, <1>4

\* A row of which the verdicts are replaced.
WithSub(row, b, s) == [row EXCEPT !.sub = b, !.status = s]
WithStatus(row, s, g) == [row EXCEPT !.status = s, !.original = g]
WithVerdict(row, v, s, g) == [row EXCEPT !.facts.verdict = v, !.status = s, !.original = g]

LEMMA ReplacedSub ==
  ASSUME NEW row, IsRow(row), NEW s, NEW b, NEW q, q = WithSub(row, b, s)
  PROVE  /\ IsRow(q) /\ q.sub = b /\ q.status = s /\ q.facts = row.facts
         /\ q.original = row.original /\ q.live = row.live /\ q.obs = row.obs
         /\ q.under = row.under /\ q.known = row.known
<1>1. q = [status |-> s, sub |-> b, facts |-> row.facts, original |-> row.original,
           live |-> row.live, obs |-> row.obs, under |-> row.under, known |-> row.known]
  BY DEF IsRow, WithSub
<1> QED BY <1>1 DEF IsRow

LEMMA ReplacedStatus ==
  ASSUME NEW row, IsRow(row), NEW s, NEW g, NEW q, q = WithStatus(row, s, g)
  PROVE  /\ IsRow(q) /\ q.sub = row.sub /\ q.status = s /\ q.facts = row.facts
         /\ q.original = g /\ q.live = row.live /\ q.obs = row.obs
         /\ q.under = row.under /\ q.known = row.known
<1>1. q = [status |-> s, sub |-> row.sub, facts |-> row.facts, original |-> g,
           live |-> row.live, obs |-> row.obs, under |-> row.under, known |-> row.known]
  BY DEF IsRow, WithStatus
<1> QED BY <1>1 DEF IsRow

LEMMA ReplacedVerdict ==
  ASSUME NEW row, IsRow(row), NEW v, NEW s, NEW g,
         row.facts = [verdict |-> row.facts.verdict, n |-> row.facts.n, last |-> row.facts.last],
         NEW q, q = WithVerdict(row, v, s, g)
  PROVE  /\ IsRow(q) /\ q.sub = row.sub /\ q.status = s /\ q.original = g
         /\ q.facts = [verdict |-> v, n |-> row.facts.n, last |-> row.facts.last]
         /\ q.live = row.live /\ q.obs = row.obs
         /\ q.under = row.under /\ q.known = row.known
<1>1. [row.facts EXCEPT !.verdict = v] = [verdict |-> v, n |-> row.facts.n, last |-> row.facts.last]
  OBVIOUS
<1>2. q = [row EXCEPT !.facts = [row.facts EXCEPT !.verdict = v], !.status = s, !.original = g]
  BY DEF IsRow, WithVerdict
<1> DEFINE f == [row.facts EXCEPT !.verdict = v]
<1> HIDE DEF f
<1>3. q = [status |-> s, sub |-> row.sub, facts |-> f, original |-> g,
           live |-> row.live, obs |-> row.obs, under |-> row.under, known |-> row.known]
  BY <1>2 DEF IsRow, f
<1> QED BY <1>1, <1>3 DEF IsRow, f

\* What the checks record keeps its history.
LEMMA RecordedKept ==
  ASSUME NEW o \in Observation[check], NEW l, NEW m, NEW row, NEW n,
         check \in Check, check \in DOMAIN Observation,
         NEW r, r = Judge(o, l, m),
         row = [status |-> r.status, sub |-> r.sub, facts |-> r.facts, obs |-> o,
                original |-> "none", live |-> r.status, under |-> l, known |-> n]
  PROVE  RowKept(check, row)
<1>1. /\ row.status = r.status /\ row.sub = r.sub /\ row.facts = r.facts /\ row.obs = o
      /\ row.original = "none" /\ row.live = r.status /\ IsRow(row)
  BY DEF IsRow
<1>2. o \in Measured[check]
  BY ReprocessAssumption
<1>f. check \in Check \ {"L1", "L2", "L4"} => FirstVerdict(check, row)
  <2>1. check \in Check \ {"L1", "L2", "L4"} => o.got # "old_timeout"
    <3>1. CASE check = "LB1"
      BY <1>2, <3>1 DEF Measured
    <3>2. CASE check = "LB2"
      BY <1>2, <3>2 DEF Measured
    <3>3. CASE check = "composite"
      BY <1>2, <3>3 DEF Measured
    <3>4. CASE check = "input"
      BY <1>2, <3>4 DEF Measured
    <3>5. CASE check = "drops"
      BY <1>2, <3>5 DEF Measured
    <3> QED BY <3>1, <3>2, <3>3, <3>4, <3>5 DEF Check
  <2> QED BY <1>1, <2>1 DEF FirstVerdict, Check
<1>a. \A s, b, f : Row(s, b, f).status = s /\ Row(s, b, f).sub = b /\ Row(s, b, f).facts = f
  BY DEF Row
<1>b. \A b, f : Final(b, f).status = Worst(b) /\ Final(b, f).sub = b /\ Final(b, f).facts = f
  BY <1>a DEF Final
<1>c. NoAge.age = NotThere
  BY DEF NoAge
<1>3. CASE check = "L1"
  <2>1. r = JudgeL1(o, l)
    BY <1>3 DEF Judge
  <2> DEFINE facts == [n |-> o.n, last |-> o.age + o.took,
                       med |-> IF l.cadence_s = NotThere THEN NotThere ELSE o.med,
                       bytes |-> IF o.got = "image" THEN o.bytes ELSE NotThere,
                       old_timeout |-> FALSE]
             none  == [facts EXCEPT !.last = NotThere, !.med = NotThere, !.bytes = NotThere]
  <2>2. none.last = NotThere /\ none.med = NotThere /\ none.bytes = NotThere /\ ~none.old_timeout
    OBVIOUS
  <2>3. FirstVerdict(check, row)
    <3>1. CASE o.got = "old_timeout"
      <4> DEFINE x == L1Manifest(o, l) ++ [F_image_exists |-> "fail"]
                 y == [facts EXCEPT !.old_timeout = TRUE]
      <4>1. r = Final(x, y)
        BY <2>1, <3>1 DEF JudgeL1
      <4>2. y.old_timeout
        OBVIOUS
      <4> HIDE DEF x, y
      <4>3. r.facts.old_timeout
        BY <1>b, <4>1, <4>2
      <4> QED BY <1>1, <1>3, <3>1, <4>3 DEF FirstVerdict
    <3>2. CASE o.got # "old_timeout"
      <4>1. ~facts.old_timeout
        OBVIOUS
      <4>2. \/ \E s, b : r = Row(s, b, none)
            \/ \E b : r = Final(b, none) \/ r = Final(b, facts)
        <5> HIDE DEF facts, none
        <5> QED BY <2>1, <3>2 DEF JudgeL1, facts, none
      <4> HIDE DEF facts, none
      <4>3. ~r.facts.old_timeout
        BY <1>a, <1>b, <2>2, <4>1, <4>2
      <4> QED BY <1>1, <1>3, <3>2, <4>3 DEF FirstVerdict
    <3> QED BY <3>1, <3>2
  <2>4. CASE o.got = "http"
    <3>1. r = Final([A_api_up |-> "fail"], none)
      BY <2>1, <2>4 DEF JudgeL1
    <3> HIDE DEF none
    <3>2. "E_step_count" \notin DOMAIN [A_api_up |-> "fail"]
      OBVIOUS
    <3>3. NoVerdictOnAge(check, row)
      BY <1>1, <1>3, <1>b, <2>2, <3>1, <3>2 DEF NoVerdictOnAge
    <3> QED BY <1>1, <1>3, <2>3, <3>3 DEF RowKept, Stoppage, OnlyWarns
  <2>5. CASE o.got = "empty"
    <3>1. r = Final([A_api_up |-> "pass", B_nonempty |-> "fail"], none)
      BY <2>1, <2>5 DEF JudgeL1
    <3> HIDE DEF none
    <3>2. "E_step_count" \notin DOMAIN [A_api_up |-> "pass", B_nonempty |-> "fail"]
      OBVIOUS
    <3>3. NoVerdictOnAge(check, row)
      BY <1>1, <1>3, <1>b, <2>2, <3>1, <3>2 DEF NoVerdictOnAge
    <3> QED BY <1>1, <1>3, <2>3, <3>3 DEF RowKept, Stoppage, OnlyWarns
  <2>6. CASE o.got = "malformed"
    <3>1. r = Final([A_api_up |-> "pass", B_schema |-> "fail"], none)
      BY <2>1, <2>6 DEF JudgeL1
    <3> HIDE DEF none
    <3>2. "E_step_count" \notin DOMAIN [A_api_up |-> "pass", B_schema |-> "fail"]
      OBVIOUS
    <3>3. NoVerdictOnAge(check, row)
      BY <1>1, <1>3, <1>b, <2>2, <3>1, <3>2 DEF NoVerdictOnAge
    <3> QED BY <1>1, <1>3, <2>3, <3>3 DEF RowKept, Stoppage, OnlyWarns
  <2>7. CASE o.got \notin {"http", "empty", "malformed"}
    <3>1. o.got \notin Ageless
      BY <1>2, <1>3, <2>7 DEF Measured, Ageless
    <3> QED BY <1>1, <1>3, <2>3, <3>1 DEF RowKept, Stoppage, OnlyWarns, NoVerdictOnAge
  <2> QED BY <2>4, <2>5, <2>6, <2>7
<1>4. CASE check = "L2"
  <2>1. r = JudgeL2(o, l, m.fresh)
    BY <1>4 DEF Judge
  <2>2. CASE o.declared = "unavailable"
    <3>1. /\ r.status = "error"
          /\ r.facts = [verdict |-> "none", n |-> NotThere, last |-> NotThere]
      BY <1>a, <2>1, <2>2 DEF JudgeL2
    <3>2. FirstVerdict(check, row)
      BY <1>1, <1>4, <3>1 DEF FirstVerdict
    <3>3. Stoppage(check, row)
      <4>1. NotThere <= 0
        BY DEF NotThere
      <4> QED BY <1>1, <1>4, <3>1, <4>1 DEF Stoppage
    <3> QED BY <1>1, <1>4, <3>2, <3>3 DEF RowKept, OnlyWarns, NoVerdictOnAge
  <2>3. CASE o.declared # "unavailable"
    <3> DEFINE v == RadarVerdict(o, Fresh(o, l, m.fresh))
               last == IF o.age = NotThere THEN NotThere ELSE o.age + o.took
    <3>1. r = Row(_VERDICT_STATUS[v], NoSub, [verdict |-> v, n |-> o.n, last |-> last])
      BY <2>1, <2>3 DEF JudgeL2
    <3>2. v \in {"HEALTHY", "CONFIRMED_DOWN", "GHOST_UP", "STUCK_DOWN_FLAG", "OBSERVED_API_ERROR"}
      BY DEF RadarVerdict
    <3> HIDE DEF v, last
    <3>3. r.status # "none" /\ r.facts = [verdict |-> v, n |-> o.n, last |-> last]
      BY <1>a, <3>1, <3>2 DEF _VERDICT_STATUS
    <3>4. FirstVerdict(check, row)
      BY <1>1, <1>4, <3>3 DEF FirstVerdict
    <3>5. Stoppage(check, row)
      BY <1>1, <1>4, <3>3 DEF Stoppage
    <3> QED BY <1>1, <1>4, <3>4, <3>5 DEF RowKept, OnlyWarns, NoVerdictOnAge
  <2> QED BY <2>2, <2>3
<1>5. CASE check \in {"LB1", "LB2"}
  <2> DEFINE e == InEffect(l)
  <2>1. r = JudgeLB1(o, e) \/ r = JudgeLB2(o, e)
    BY <1>5 DEF Judge
  <2> HIDE DEF e
  <2>2. o.got \in Ageless => r.facts.age = NotThere
    <3>1. o \in [got : {"file", "unreadable", "absent", "nothing"}, age : Nat]
      <4>1. CASE check = "LB1"
        BY <1>2, <4>1 DEF Measured
      <4>2. CASE check = "LB2"
        BY <1>2, <4>2 DEF Measured
      <4> QED BY <1>5, <4>1, <4>2
    <3>2. o.got \in Ageless => o.got \in {"absent", "nothing"}
      BY <3>1 DEF Ageless
    <3>3. o.got \in {"absent", "nothing"} =>
            r \in {Row("fail", NoSub, NoAge), Final([A_present |-> "fail"], NoAge),
                   Final([A_arriving |-> "fail"], NoAge)}
      <4>1. CASE r = JudgeLB1(o, e)
        BY <4>1 DEF JudgeLB1
      <4>2. CASE r = JudgeLB2(o, e)
        BY <4>2 DEF JudgeLB2
      <4> QED BY <2>1, <4>1, <4>2
    <3> QED BY <1>a, <1>b, <1>c, <3>2, <3>3
  <2>3. FirstVerdict(check, row) /\ NoVerdictOnAge(check, row)
    BY <1>1, <1>5, <1>f, <2>2 DEF NoVerdictOnAge, Check
  <2> QED BY <1>1, <1>5, <2>3 DEF RowKept, Stoppage, OnlyWarns
<1>6. CASE check = "composite"
  <2> DEFINE e == InEffect(l)
  <2>1. r = JudgeComposite(o, e)
    BY <1>6 DEF Judge
  <2> HIDE DEF e
  <2>2. o.got \in Ageless => \/ r.facts.age = NotThere
                             \/ "B_fresh" \notin DOMAIN r.sub /\ r.status = Worst(r.sub)
    <3>1. CASE o.got = "unbanded"
      <4>1. r = Final(Included(o, e), KeptAge(o.age, e))
        BY <2>1, <3>1 DEF JudgeComposite
      <4>2. Included(o, e) = [A_included |-> "pass"]
        BY <3>1 DEF Included
      <4>3. "B_fresh" \notin DOMAIN [A_included |-> "pass"]
        OBVIOUS
      <4> QED BY <1>b, <4>1, <4>2, <4>3
    <3>2. CASE o.got # "unbanded" /\ o.got \in Ageless
      <4>1. o.got # "run_log"
        BY <3>2 DEF Ageless
      <4>2. r = Row("error", NoSub, NoAge) \/ r = Final([A_included |-> "fail"], NoAge)
              \/ r = Final(Included(o, e), NoAge)
        BY <2>1, <3>2, <4>1 DEF JudgeComposite
      <4> QED BY <1>a, <1>b, <1>c, <4>2
    <3> QED BY <3>1, <3>2
  <2>3. FirstVerdict(check, row)
    BY <1>6, <1>f DEF Check
  <2>4. NoVerdictOnAge(check, row)
    BY <1>1, <1>6, <2>2 DEF NoVerdictOnAge
  <2> QED BY <1>1, <1>6, <2>3, <2>4 DEF RowKept, Stoppage, OnlyWarns
<1>d. /\ DOMAIN NoSub = {}
      /\ \A k : DOMAIN [A_staged |-> k] = {"A_staged"} /\ [A_staged |-> k]["A_staged"] = k
      /\ \A k : DOMAIN [B_fresh |-> k] = {"B_fresh"} /\ [B_fresh |-> k]["B_fresh"] = k
      /\ \A k : DOMAIN [folder |-> k] = {"folder"} /\ [folder |-> k]["folder"] = k
  BY DEF NoSub
<1>e. \A x, y : Within("pass", "warn", x, y) \in {"pass", "warn"}
  BY DEF Within
<1>7. CASE check = "input"
  <2> DEFINE e == InEffect(l)
             z == l.retention_s
  <2>1. r = JudgeInput(o, e, z)
    BY <1>7 DEF Judge
  <2> HIDE DEF e, z
  <2>2. /\ o.got \in Ageless => r.facts.age = NotThere
        /\ \/ r.status = "fail" /\ r.facts.age = NotThere
           \/ r.status # "fail" /\ \A k \in DOMAIN r.sub : r.sub[k] \in {"pass", "warn"}
    <3>1. CASE o.got \in {"unreadable", "absent", "unmatched"}
      <4>1. r = Row("error", NoSub, NoAge)
        BY <2>1, <3>1 DEF JudgeInput
      <4> QED BY <1>a, <1>c, <1>d, <4>1
    <3>2. CASE o.got = "nothing"
      <4>1. r = Final([A_staged |-> "fail"], NoAge)
        BY <2>1, <3>2 DEF JudgeInput
      <4> DEFINE S == [A_staged |-> "fail"]
      <4>2. {S[k] : k \in DOMAIN S} = {"fail"} /\ {"fail"} # {}
        BY <1>d
      <4>3. Worst(S) = "fail"
        <5>1. worst_of({"fail"}) \in {"fail"}
          BY WorstIsOneOfThem
        <5> HIDE DEF S
        <5> QED BY <4>2, <5>1 DEF Worst
      <4> QED BY <1>b, <1>c, <4>1, <4>3
    <3>3. CASE o.got = "file"
      <4>1. r = Staged(o.age, e, z)
        BY <2>1, <3>3 DEF JudgeInput
      <4>2. o.got \notin Ageless
        BY <3>3 DEF Ageless
      <4>3. CASE r = Row("error", NoSub, NoAge)
        BY <1>a, <1>c, <1>d, <4>3
      <4>4. CASE r # Row("error", NoSub, NoAge)
        <5> DEFINE g == IF e.input_warn_s = NotThere THEN NoSub
                        ELSE [B_fresh |-> Within("pass", "warn", o.age, e.input_warn_s)]
                   S == [A_staged |-> "pass"] ++ g
        <5>1. r = Final(S, KeptAge(o.age, e))
          BY <4>1, <4>4 DEF Staged
        <5>2. \A k \in DOMAIN g : g[k] \in {"pass", "warn"}
          <6>1. CASE g = NoSub
            BY <1>d, <6>1
          <6>2. CASE g = [B_fresh |-> Within("pass", "warn", o.age, e.input_warn_s)]
            <7> HIDE DEF g
            <7> QED BY <1>d, <1>e, <6>2
          <6> QED BY <6>1, <6>2
        <5>3. \A k \in DOMAIN S : S[k] \in {"pass", "warn"}
          <6> HIDE DEF g
          <6> QED BY <1>d, <5>2 DEF ++
        <5> HIDE DEF g, S
        <5>4. Worst(S) \in {"pass", "warn"}
          BY <5>3, WarnsAtWorst
        <5> QED BY <1>b, <4>2, <5>1, <5>3, <5>4
      <4> QED BY <4>3, <4>4
    <3> QED BY <1>2, <1>7, <3>1, <3>2, <3>3 DEF Measured
  <2>3. FirstVerdict(check, row) /\ NoVerdictOnAge(check, row)
    BY <1>1, <1>7, <1>f, <2>2 DEF NoVerdictOnAge, Check
  <2>4. OnlyWarns(check, row)
    BY <1>1, <1>7, <2>2 DEF OnlyWarns
  <2> QED BY <1>1, <1>7, <2>3, <2>4 DEF RowKept, Stoppage
<1>8. CASE check = "drops"
  <2> DEFINE e == InEffect(l)
  <2>1. r = JudgeDrops(o, e)
    BY <1>8 DEF Judge
  <2> HIDE DEF e
  <2>2. /\ o.got \in Ageless => r.facts.age = NotThere
        /\ r.status # "fail" /\ \A k \in DOMAIN r.sub : r.sub[k] \in {"pass", "warn"}
    <3>1. CASE o.got = "unreadable"
      BY <1>a, <1>c, <1>d, <2>1, <3>1 DEF JudgeDrops
    <3>2. CASE o.got # "unreadable"
      <4> DEFINE w == IF o.got # "file" THEN "warn" ELSE Within("pass", "warn", o.age, e.drops_s)
                 f == IF o.got # "file" THEN NoAge ELSE KeptAge(o.age, e)
                 S == [folder |-> w]
      <4>1. r = Final(S, f)
        BY <2>1, <3>2 DEF JudgeDrops
      <4>2. w \in {"pass", "warn"}
        BY <1>e
      <4>3. \A k \in DOMAIN S : S[k] \in {"pass", "warn"}
        <5> HIDE DEF w
        <5> QED BY <1>d, <4>2
      <4>4. o.got \in Ageless => f.age = NotThere
        BY <1>c DEF Ageless
      <4> HIDE DEF S, f
      <4>5. Worst(S) \in {"pass", "warn"}
        BY <4>3, WarnsAtWorst
      <4> QED BY <1>b, <4>1, <4>3, <4>4, <4>5
    <3> QED BY <3>1, <3>2
  <2>3. FirstVerdict(check, row) /\ NoVerdictOnAge(check, row)
    BY <1>1, <1>8, <1>f, <2>2 DEF NoVerdictOnAge, Check
  <2>4. OnlyWarns(check, row)
    BY <1>1, <1>8, <2>2 DEF OnlyWarns
  <2> QED BY <1>1, <1>8, <2>3, <2>4 DEF RowKept, Stoppage
<1>9. CASE check = "L4"
  <2>1. r.status # "none"
    <3>1. r = JudgeL4(o, l, m.frame)
      BY <1>9 DEF Judge
    <3> DEFINE V == {Extreme(o, l), o.speckle, Frozen(o, l, m.frame)}
               S == {IF v \in OK_VERDICTS THEN "pass" ELSE "warn" : v \in V}
    <3>2. S # {} /\ S \in SUBSET {"skip", "pass", "warn", "fail", "error"}
      OBVIOUS
    <3>3. L4Status(V) = worst_of(S)
      BY DEF L4Status
    <3> HIDE DEF S
    <3>4. L4Status(V) # "none"
      BY <3>2, <3>3, WorstIsOneOfThem
    <3>5. r = Row("skip", NoSub, o) \/ r = Row(L4Status(V), NoSub, Pictured(o))
      BY <3>1 DEF JudgeL4
    <3> HIDE DEF V
    <3> QED BY <1>a, <3>4, <3>5
  <2>2. o.got \notin Ageless
    BY <1>2, <1>9 DEF Ageless, Measured
  <2>3. FirstVerdict(check, row) /\ NoVerdictOnAge(check, row)
    BY <1>1, <1>9, <2>1, <2>2 DEF FirstVerdict, NoVerdictOnAge
  <2> QED BY <1>1, <1>9, <2>3 DEF RowKept, Stoppage, OnlyWarns
<1> QED BY <1>3, <1>4, <1>5, <1>6, <1>7, <1>8, <1>9 DEF Check

\* A verdict that is not there is not put there.
LEMMA ResubOnlyWhatIs ==
  ASSUME NEW row, NEW name, NEW v
  PROVE  /\ name \notin DOMAIN row.sub => Resub(row, name, v) = row.sub
         /\ (\A k \in DOMAIN row.sub : row.sub[k] \in {"pass", "warn"}) /\ v \in {"pass", "warn"}
              => \A k \in DOMAIN Resub(row, name, v) : Resub(row, name, v)[k] \in {"pass", "warn"}
<1>1. name \notin DOMAIN row.sub => Resub(row, name, v) = row.sub
  BY DEF Resub
<1>2. ASSUME \A k \in DOMAIN row.sub : row.sub[k] \in {"pass", "warn"}, v \in {"pass", "warn"}
      PROVE  \A k \in DOMAIN Resub(row, name, v) : Resub(row, name, v)[k] \in {"pass", "warn"}
  <2>1. CASE name \in DOMAIN row.sub
    <3> DEFINE s == row.sub
    <3>1. Resub(row, name, v) = [s EXCEPT ![name] = v]
      BY <2>1 DEF Resub
    <3>2. \A k \in DOMAIN s : s[k] \in {"pass", "warn"}
      BY <1>2
    <3> HIDE DEF s
    <3>3. DOMAIN [s EXCEPT ![name] = v] = DOMAIN s
      OBVIOUS
    <3>4. \A k \in DOMAIN s : [s EXCEPT ![name] = v][k] = IF k = name THEN v ELSE s[k]
      OBVIOUS
    <3> QED BY <1>2, <3>1, <3>2, <3>3, <3>4
  <2>2. CASE name \notin DOMAIN row.sub
    BY <1>1, <1>2, <2>2
  <2> QED BY <2>1, <2>2
<1> QED BY <1>1, <1>2

\* The verdict on an age: what it is named, and what it is.
AgeName(c) ==
  CASE c = "LB1" -> "B_freshness" [] c = "LB2" -> "A_arriving"
    [] c \in {"composite", "input"} -> "B_fresh" [] c = "drops" -> "folder"

AgeVerdict(c, a, l) ==
  CASE c = "LB1" -> Within("pass", "fail", a, l.backend_max_age_s)
    [] c = "LB2" -> Arriving(a, l)
    [] c = "composite" -> Contribution(a, l)
    [] c = "input" -> Within("pass", "warn", a, l.input_warn_s)
    [] c = "drops" -> Within("pass", "warn", a, l.drops_s)

\* A row that was held to an age, and is to limits.
HeldTo(row, name, l) ==
  row.facts.age # NotThere /\ name \in DOMAIN row.sub /\ \A k \in DOMAIN l : l[k] # NotThere

\* Where an age is judged again, it is by what the row keeps of it.
LEMMA AgeReverdict ==
  ASSUME check \in Check \ {"L1", "L2", "L4"}, NEW row, row.status \notin {"skip", "error"},
         NEW l, NEW frame
  PROVE  Reverdict(row, l, frame)
           = ReAged(row, AgeName(check), AgeVerdict(check, row.facts.age, Now(l, row)), Now(l, row))
<1> DEFINE q == Reverdict(row, l, frame)
<1>1. CASE check = "LB1"
  <2>1. q = _reverdict_lb1(row, l)
    BY <1>1 DEF Reverdict
  <2> HIDE DEF q
  <2> QED BY <1>1, <2>1 DEF q, _reverdict_lb1, AgeName, AgeVerdict
<1>2. CASE check = "LB2"
  <2>1. q = _reverdict_lb2(row, l)
    BY <1>2 DEF Reverdict
  <2> HIDE DEF q
  <2> QED BY <1>2, <2>1 DEF q, _reverdict_lb2, AgeName, AgeVerdict
<1>3. CASE check \in {"composite", "input", "drops"}
  <2>1. q = _reverdict_lb3(row, l)
    BY <1>3 DEF Reverdict
  <2> HIDE DEF q
  <2> QED BY <1>3, <2>1 DEF q, _reverdict_lb3, AgeName, AgeVerdict
<1> QED BY <1>1, <1>2, <1>3 DEF Check

LEMMA ReAgedRow ==
  ASSUME NEW row, IsRow(row), NEW name, NEW v, NEW l, NEW q, q = ReAged(row, name, v, l)
  PROVE  /\ HeldTo(row, name, l) =>
              /\ IsRow(q) /\ q.sub = Resub(row, name, v) /\ q.status = Worst(q.sub)
              /\ q.facts.age = row.facts.age /\ q.facts.limits = l
              /\ q.original = row.original /\ q.live = row.live /\ q.obs = row.obs
              /\ q.under = row.under /\ q.known = row.known
         /\ ~HeldTo(row, name, l) => q = row
<1>1. CASE ~HeldTo(row, name, l)
  BY <1>1 DEF ReAged, HeldTo
<1>2. CASE HeldTo(row, name, l)
  <2> DEFINE b == Resub(row, name, v)
  <2>1. PICK f : f = [age |-> row.facts.age, limits |-> l]
    OBVIOUS
  <2>2. PICK p : p = WithSub(row, b, Worst(b))
    OBVIOUS
  <2>3. q = [p EXCEPT !.facts = f]
    BY <1>2, <2>1, <2>2 DEF ReAged, HeldTo, Rejudged, WithSub
  <2> HIDE DEF b
  <2>4. p = [status |-> Worst(b), sub |-> b, facts |-> p.facts, original |-> row.original,
             live |-> row.live, obs |-> row.obs, under |-> row.under, known |-> row.known]
    BY <2>2, ReplacedSub DEF IsRow
  <2>5. q = [status |-> Worst(b), sub |-> b, facts |-> f, original |-> row.original,
             live |-> row.live, obs |-> row.obs, under |-> row.under, known |-> row.known]
    BY <2>3, <2>4
  <2> QED BY <1>2, <2>1, <2>5 DEF IsRow, b
<1> QED BY <1>1, <1>2

\* A row whose verdict on an age is replaced, by one that does not fail where none may.
LEMMA ReAgedKept ==
  ASSUME NEW c \in Check \ {"L1", "L2", "L4"}, NEW row, RowKept(c, row), NEW name, NEW v, NEW l,
         c = "composite" => name = "B_fresh",
         c \in {"input", "drops"} => v \in {"pass", "warn"}
  PROVE  RowKept(c, ReAged(row, name, v, l))
<1>q. PICK q : q = ReAged(row, name, v, l)
  OBVIOUS
<1>1. CASE ~HeldTo(row, name, l)
  BY <1>1 DEF ReAged, HeldTo
<1>2. CASE HeldTo(row, name, l)
  <2> DEFINE b == Resub(row, name, v)
  <2>2. IsRow(row) /\ row.facts.age # NotThere /\ name \in DOMAIN row.sub
    BY <1>2 DEF RowKept, HeldTo
  <2>3. /\ IsRow(q) /\ q.sub = b /\ q.status = Worst(b) /\ q.live = row.live /\ q.obs = row.obs
    BY <1>2, <1>q, <2>2, ReAgedRow
  <2>4. FirstVerdict(c, q)
    BY <2>3 DEF RowKept, FirstVerdict, Check
  <2>5. NoVerdictOnAge(c, q)
    <3>1. row.obs.got \notin Ageless
      BY <2>2 DEF RowKept, NoVerdictOnAge, Check
    <3> QED BY <2>3, <3>1 DEF NoVerdictOnAge
  <2>6. OnlyWarns(c, q)
    <3> SUFFICES ASSUME c \in {"input", "drops"}
                 PROVE  q.status # "fail" /\ \A k \in DOMAIN q.sub : q.sub[k] \in {"pass", "warn"}
      BY DEF OnlyWarns
    <3>1. \A k \in DOMAIN row.sub : row.sub[k] \in {"pass", "warn"}
      BY <2>2 DEF RowKept, OnlyWarns
    <3>2. \A k \in DOMAIN b : b[k] \in {"pass", "warn"}
      BY <3>1, ResubOnlyWhatIs DEF b
    <3>3. Worst(b) \in {"pass", "warn"}
      BY <3>2, WarnsAtWorst
    <3> QED BY <2>3, <3>2, <3>3
  <2> QED BY <1>q, <2>3, <2>4, <2>5, <2>6 DEF RowKept, Stoppage, Check
<1> QED BY <1>1, <1>2

\* What is judged again keeps its history.
LEMMA RejudgedKept ==
  ASSUME check \in Check, NEW row, RowKept(check, row), NEW l, NEW frame
  PROVE  RowKept(check, Reverdict(row, l, frame))
<1>a. IsRow(row)
  BY DEF RowKept
<1>1. CASE row.status \in {"skip", "error"}
  <2>1. Reverdict(row, l, frame) = row
    BY <1>1 DEF Reverdict
  <2> QED BY <2>1
<1>2. CASE row.status \notin {"skip", "error"} /\ check = "L1"
  <2>1. Reverdict(row, l, frame) = _reverdict_l1(row, l)
    BY <1>2 DEF Reverdict
  <2>2. CASE row.facts.old_timeout
    <3>q. PICK q : q = _reverdict_l1(row, l)
      OBVIOUS
    <3>1. q = WithStatus(row, "error", Original(row))
      BY <2>2, <3>q DEF _reverdict_l1, WithStatus
    <3>2. /\ IsRow(q) /\ q.sub = row.sub /\ q.status = "error" /\ q.facts = row.facts
          /\ q.original = Original(row) /\ q.live = row.live /\ q.obs = row.obs
      BY <1>a, <3>1, ReplacedStatus
    <3>3. /\ row.obs.got = "old_timeout" /\ row.original = "none"
          /\ row.status = row.live
      BY <1>2, <2>2 DEF RowKept, FirstVerdict
    <3>4. FirstVerdict(check, q)
      BY <1>2, <2>2, <3>2, <3>3 DEF FirstVerdict, Original
    <3>5. row.obs.got \notin Ageless
      BY <1>2, <2>2 DEF RowKept, NoVerdictOnAge
    <3> QED BY <1>2, <2>1, <3>q, <3>2, <3>4, <3>5
            DEF RowKept, Stoppage, NoVerdictOnAge, OnlyWarns
  <2>3. CASE ~row.facts.old_timeout
    <3> DEFINE f    == row.facts
               sub1 == IF f.last = NotThere THEN row.sub
                       ELSE Resub(row, "C_freshness", Within("pass", "fail", f.last, l.max_freshness_s))
               sub2 == IF f.med = NotThere THEN sub1
                       ELSE Resub([sub |-> sub1], "D_cadence", CadenceVerdict(f.med, l))
               sub3 == Resub([sub |-> sub2], "E_step_count", StepVerdict(f.n, l))
               sub4 == IF f.bytes = NotThere THEN sub3
                       ELSE Resub([sub |-> sub3], "G_image_size",
                                  IF f.bytes >= l.min_png_bytes THEN "pass" ELSE "warn")
    <3>q. PICK q : q = _reverdict_l1(row, l)
      OBVIOUS
    <3>1. q = WithSub(row, sub4, Worst(sub4))
      BY <2>3, <3>q DEF _reverdict_l1, Rejudged, WithSub
    <3>2. row.obs.got \in Ageless => sub4 = row.sub
      <4> SUFFICES ASSUME row.obs.got \in Ageless PROVE sub4 = row.sub
        OBVIOUS
      <4>1. /\ f.last = NotThere /\ f.med = NotThere /\ f.bytes = NotThere
            /\ "E_step_count" \notin DOMAIN row.sub
        BY <1>2 DEF RowKept, NoVerdictOnAge
      <4>2. sub2 = row.sub /\ sub4 = sub3
        BY <4>1
      <4>3. sub3 = row.sub
        <5>1. \A s : [sub |-> s].sub = s
          OBVIOUS
        <5> HIDE DEF sub2
        <5> QED BY <4>1, <4>2, <5>1, ResubOnlyWhatIs
      <4> HIDE DEF sub3, sub4
      <4> QED BY <4>2, <4>3
    <3> HIDE DEF sub4
    <3>3. /\ IsRow(q) /\ q.sub = sub4 /\ q.status = Worst(sub4) /\ q.facts = row.facts
          /\ q.original = row.original /\ q.live = row.live /\ q.obs = row.obs
      BY <1>a, <3>1, ReplacedSub
    <3> HIDE DEF f
    <3>4. FirstVerdict(check, q)
      BY <1>2, <2>3, <3>3 DEF RowKept, FirstVerdict
    <3>5. NoVerdictOnAge(check, q)
      <4> SUFFICES ASSUME row.obs.got \in Ageless PROVE NoVerdictOnAge(check, q)
        BY <3>3 DEF NoVerdictOnAge
      <4>1. /\ row.facts.last = NotThere /\ row.facts.med = NotThere
            /\ row.facts.bytes = NotThere /\ ~row.facts.old_timeout
            /\ "E_step_count" \notin DOMAIN row.sub /\ row.status = Worst(row.sub)
            /\ row.status = row.live
        BY <1>2 DEF RowKept, NoVerdictOnAge
      <4> QED BY <1>2, <3>2, <3>3, <4>1 DEF NoVerdictOnAge
    <3> QED BY <1>2, <2>1, <3>q, <3>3, <3>4, <3>5 DEF RowKept, Stoppage, OnlyWarns
  <2> QED BY <2>2, <2>3
<1>3. CASE row.status \notin {"skip", "error"} /\ check = "L2"
  <2>1. Reverdict(row, l, frame) = _reverdict_l2(row, l)
    BY <1>3 DEF Reverdict
  <2> DEFINE fresh == row.facts.last <= Upper(l)
             v == IF fresh THEN "HEALTHY" ELSE "GHOST_UP"
             s == IF fresh THEN "pass" ELSE "fail"
  <2>2. CASE _reverdict_l2(row, l) = row
    BY <2>1, <2>2
  <2>3. CASE _reverdict_l2(row, l) # row
    <3>q. PICK q : q = _reverdict_l2(row, l)
      OBVIOUS
    <3>1. /\ q = WithVerdict(row, v, s, Original(row))
          /\ ~(row.facts.n <= 0)
      BY <2>3, <3>q DEF _reverdict_l2, WithVerdict
    <3>2. row.facts = [verdict |-> row.facts.verdict, n |-> row.facts.n, last |-> row.facts.last]
      BY <1>3 DEF RowKept, Stoppage
    <3> HIDE DEF v, s, fresh
    <3>3. /\ IsRow(q) /\ q.sub = row.sub /\ q.status = s /\ q.original = Original(row)
          /\ q.facts = [verdict |-> v, n |-> row.facts.n, last |-> row.facts.last]
          /\ q.live = row.live /\ q.obs = row.obs
      BY <1>a, <3>1, <3>2, ReplacedVerdict
    <3>4. FirstVerdict(check, q)
      BY <1>3, <3>3 DEF RowKept, FirstVerdict, Original
    <3>5. Stoppage(check, q)
      <4>1. ~(row.obs.n <= 0)
        BY <1>3, <3>1 DEF RowKept, Stoppage
      <4> QED BY <3>3, <4>1 DEF Stoppage
    <3> QED BY <1>3, <2>1, <3>q, <3>3, <3>4, <3>5 DEF RowKept, NoVerdictOnAge, OnlyWarns
  <2> QED BY <2>2, <2>3
<1>4. CASE row.status \notin {"skip", "error"} /\ check = "L4"
  <2> DEFINE s == JudgeL4(row.facts, l, frame).status
  <2>q. PICK q : q = Reverdict(row, l, frame)
    OBVIOUS
  <2>1. q = WithStatus(row, s, Original(row))
    BY <1>4, <2>q DEF Reverdict, _reverdict_l4, WithStatus
  <2> HIDE DEF s
  <2>2. /\ IsRow(q) /\ q.sub = row.sub /\ q.status = s /\ q.facts = row.facts
        /\ q.original = Original(row) /\ q.live = row.live /\ q.obs = row.obs
    BY <1>a, <2>1, ReplacedStatus
  <2>3. FirstVerdict(check, q)
    BY <1>4, <2>2 DEF RowKept, FirstVerdict, Original
  <2>4. row.obs.got \notin Ageless
    BY <1>4 DEF RowKept, NoVerdictOnAge
  <2> QED BY <1>4, <2>q, <2>2, <2>3, <2>4 DEF RowKept, Stoppage, NoVerdictOnAge, OnlyWarns
<1>5. CASE row.status \notin {"skip", "error"} /\ check \in Check \ {"L1", "L2", "L4"}
  <2> DEFINE e == Now(l, row)
             v == AgeVerdict(check, row.facts.age, e)
  <2>1. Reverdict(row, l, frame) = ReAged(row, AgeName(check), v, e)
    BY <1>5, AgeReverdict
  <2>2. check = "composite" => AgeName(check) = "B_fresh"
    BY DEF AgeName
  <2>3. check \in {"input", "drops"} => v \in {"pass", "warn"}
    <3>1. \A x, y : Within("pass", "warn", x, y) \in {"pass", "warn"}
      BY DEF Within
    <3>2. CASE check = "input"
      BY <3>1, <3>2 DEF AgeVerdict
    <3>3. CASE check = "drops"
      BY <3>1, <3>3 DEF AgeVerdict
    <3> QED BY <3>2, <3>3
  <2> HIDE DEF e, v
  <2> QED BY <1>5, <2>1, <2>2, <2>3, ReAgedKept
<1> QED BY <1>1, <1>2, <1>3, <1>4, <1>5 DEF Check

Moved(w, at, frame, updates, mixed) ==
  [w EXCEPT !.at = at, !.frame = frame, !.updates = updates, !.mixed = mixed]

LEMMA MovedJob ==
  ASSUME NEW w, NEW at, NEW frame, NEW updates, NEW mixed,
         w = Walk(w.from, w.at, w.upto, w.read, w.frame, w.updates, w.under, w.mixed)
  PROVE  Moved(w, at, frame, updates, mixed)
           = Walk(w.from, at, w.upto, w.read, frame, updates, w.under, mixed)
<1>1. ASSUME NEW a, NEW b, NEW c, NEW d, NEW e, NEW f, NEW g, NEW h
      PROVE  Moved(Walk(a, b, c, d, e, f, g, h), at, frame, updates, mixed)
               = Walk(a, at, c, d, frame, updates, g, mixed)
  <2>1. PICK v : v = Walk(a, b, c, d, e, f, g, h)
    OBVIOUS
  <2>2. PICK x : x = [v EXCEPT !.at = at]
    OBVIOUS
  <2>3. PICK y : y = [x EXCEPT !.frame = frame]
    OBVIOUS
  <2>4. PICK z : z = [y EXCEPT !.updates = updates]
    OBVIOUS
  <2>5. x = Walk(a, at, c, d, e, f, g, h)
    BY <2>1, <2>2 DEF Walk
  <2>6. y = Walk(a, at, c, d, frame, f, g, h)
    BY <2>3, <2>5 DEF Walk
  <2>7. z = Walk(a, at, c, d, frame, updates, g, h)
    BY <2>4, <2>6 DEF Walk
  <2>8. [z EXCEPT !.mixed = mixed] = Walk(a, at, c, d, frame, updates, g, mixed)
    BY <2>7 DEF Walk
  <2>9. Moved(v, at, frame, updates, mixed) = [z EXCEPT !.mixed = mixed]
    BY <2>2, <2>3, <2>4, Zenon DEF Moved
  <2> QED BY <2>1, <2>8, <2>9, Zenon
<1>2. Moved(Walk(w.from, w.at, w.upto, w.read, w.frame, w.updates, w.under, w.mixed),
            at, frame, updates, mixed)
        = Walk(w.from, at, w.upto, w.read, frame, updates, w.under, mixed)
  BY <1>1
<1> QED BY <1>2, Zenon

LEMMA MixedJob ==
  ASSUME NEW w, NEW mixed,
         w = Walk(w.from, w.at, w.upto, w.read, w.frame, w.updates, w.under, w.mixed)
  PROVE  [w EXCEPT !.mixed = mixed]
           = Walk(w.from, w.at, w.upto, w.read, w.frame, w.updates, w.under, mixed)
<1>1. ASSUME NEW a, NEW b, NEW c, NEW d, NEW e, NEW f, NEW g, NEW h
      PROVE  [Walk(a, b, c, d, e, f, g, h) EXCEPT !.mixed = mixed]
               = Walk(a, b, c, d, e, f, g, mixed)
  BY DEF Walk
<1>2. [Walk(w.from, w.at, w.upto, w.read, w.frame, w.updates, w.under, w.mixed) EXCEPT !.mixed = mixed]
        = Walk(w.from, w.at, w.upto, w.read, w.frame, w.updates, w.under, mixed)
  BY <1>1
<1> QED BY <1>2, Zenon

\* What is done to one job is done to no other.
OtherJobs(j) == job' = [k \in Job |-> job'[k]] /\ \A k \in Job \ {j} : job'[k] = job[k]

LEMMA OneJobMoves ==
  ASSUME NEW j \in Job, NEW w, job = [k \in Job |-> job[k]], job' = [job EXCEPT ![j] = w]
  PROVE  OtherJobs(j) /\ job'[j] = w
BY DEF OtherJobs

\* A job begins.
LEMMA JobBegins ==
  ASSUME HistoryInv, NEW j \in Job, NEW from \in 1..Len(rows), JobStart(j, from)
  PROVE  /\ OtherJobs(j) /\ job'[j] = Walk(from, from, Len(rows), rows, NoFrame, <<>>, lim, FALSE)
         /\ UNCHANGED <<check, lim, memory, rows, settled>>
<1> DEFINE w == Walk(from, from, Len(rows), rows, NoFrame, <<>>, lim, FALSE)
<1>1. job' = [job EXCEPT ![j] = w] /\ UNCHANGED <<check, lim, memory, rows, settled>>
  BY DEF JobStart, Walk
<1> HIDE DEF w
<1>2. OtherJobs(j) /\ job'[j] = w
  BY <1>1, OneJobMoves DEF HistoryInv
<1> QED BY <1>1, <1>2 DEF w

\* A job goes one row further.
NewRow(w, l) == Reverdict(w.read[w.at], l, w.frame)
Updated(w, l) ==
  IF NewRow(w, l).status = w.read[w.at].status THEN w.updates
  ELSE w.updates ++ [i \in {w.at} |-> NewRow(w, l)]
MixedBy(w, l) == w.mixed \/ l # w.under
GoneOn(w, l) ==
  Walk(w.from, w.at + 1, w.upto, w.read, Trail(w.frame, w.read[w.at]), Updated(w, l), w.under,
       MixedBy(w, l))

LEMMA WhatIsToWrite ==
  ASSUME NEW w, NEW l
  PROVE  \/ NewRow(w, l).status = w.read[w.at].status /\ Updated(w, l) = w.updates
         \/ /\ NewRow(w, l).status # w.read[w.at].status
            /\ DOMAIN Updated(w, l) = DOMAIN w.updates \cup {w.at}
            /\ \A i \in DOMAIN w.updates : Updated(w, l)[i] = w.updates[i]
            /\ w.at \notin DOMAIN w.updates => Updated(w, l)[w.at] = NewRow(w, l)
<1> DEFINE new == NewRow(w, l)
<1>1. CASE new.status = w.read[w.at].status
  BY <1>1 DEF Updated
<1>2. CASE new.status # w.read[w.at].status
  <2>1. Updated(w, l) = w.updates ++ [i \in {w.at} |-> new]
    BY <1>2 DEF Updated
  <2> HIDE DEF new
  <2> QED BY <1>2, <2>1 DEF ++, new
<1> QED BY <1>1, <1>2

LEMMA JobGoesOn ==
  ASSUME HistoryInv, NEW j \in Job, JobRow(j), NEW w, w = job[j]
  PROVE  /\ OtherJobs(j) /\ UNCHANGED <<check, lim, memory, rows, settled>>
         /\ w.state = "walking" /\ w.at \in 1..w.upto /\ w.at \in Nat /\ w.upto \in Nat
         /\ job'[j] = GoneOn(w, lim)
<1>1. /\ w.state = "walking" /\ w.at <= w.upto /\ UNCHANGED <<check, lim, memory, rows, settled>>
      /\ job' = [job EXCEPT ![j] = Onward(w, lim)]
  BY DEF JobRow, Walking
<1>2. Onward(w, lim)
        = Moved(w, w.at + 1, Trail(w.frame, w.read[w.at]), Updated(w, lim), MixedBy(w, lim))
  BY Zenon DEF Onward, Moved, Updated, MixedBy, NewRow
<1>3. /\ w = Walk(w.from, w.at, w.upto, w.read, w.frame, w.updates, w.under, w.mixed)
      /\ w.at \in Nat /\ 1 <= w.at /\ w.upto \in Nat
  BY <1>1 DEF HistoryInv, WalkKept
<1>4. Onward(w, lim) = GoneOn(w, lim)
  <2>1. PICK a, f, u, x : /\ a = w.at + 1 /\ f = Trail(w.frame, w.read[w.at])
                          /\ u = Updated(w, lim) /\ x = MixedBy(w, lim)
    OBVIOUS
  <2>2. Moved(w, a, f, u, x) = Walk(w.from, a, w.upto, w.read, f, u, w.under, x)
    BY <1>3, MovedJob
  <2> QED BY <1>2, <2>1, <2>2, Zenon DEF GoneOn
<1>5. OtherJobs(j) /\ job'[j] = GoneOn(w, lim)
  BY <1>1, <1>4, OneJobMoves DEF HistoryInv
<1>6. w.at \in 1..w.upto
  BY <1>1, <1>3
<1> QED BY <1>1, <1>3, <1>5, <1>6

\* The rows after what a job has to write.
Written(u) == [i \in 1..Len(rows) |-> IF i \in DOMAIN u THEN u[i] ELSE rows[i]]
AreJobs(f) == f = [k \in Job |-> f[k]]

\* A job writes: it is over, and the others that walk know that the rows they read may
\* be others now.
LEMMA JobIsWritten ==
  ASSUME HistoryInv, NEW j \in Job, JobWrite(j), NEW u, u = job[j].updates
  PROVE  /\ job[j].state = "walking" /\ job[j].at > job[j].upto
         /\ UNCHANGED <<check, lim, memory>>
         /\ rows' = Written(u) /\ AreJobs(job')
         /\ \A k \in Job :
              job'[k].state = "walking" =>
                /\ k # j /\ job[k].state = "walking"
                /\ \/ job'[k] = job[k] /\ DOMAIN u = {}
                   \/ job'[k] = Walk(job[k].from, job[k].at, job[k].upto, job[k].read, job[k].frame,
                                     job[k].updates, job[k].under, TRUE)
<1>1. /\ job[j].state = "walking" /\ job[j].at > job[j].upto
      /\ UNCHANGED <<check, lim, memory>>
      /\ rows' = Written(u)
      /\ job' = [k \in Job |-> IF k = j THEN Ended
                              ELSE IF Walking(k) /\ u # <<>> THEN [job[k] EXCEPT !.mixed = TRUE]
                              ELSE job[k]]
  BY DEF JobWrite, Walked, Walking, Written
<1>2. AreJobs(job')
  BY <1>1 DEF AreJobs
<1>3. ASSUME NEW k \in Job, job'[k].state = "walking"
      PROVE  /\ k # j /\ job[k].state = "walking"
             /\ \/ job'[k] = job[k] /\ DOMAIN u = {}
                \/ job'[k] = Walk(job[k].from, job[k].at, job[k].upto, job[k].read, job[k].frame,
                                  job[k].updates, job[k].under, TRUE)
  <2>1. k # j
    BY <1>1, <1>3 DEF Ended
  <2>2. job'[k] = IF Walking(k) /\ u # <<>> THEN [job[k] EXCEPT !.mixed = TRUE] ELSE job[k]
    BY <1>1, <2>1
  <2>3. CASE Walking(k) /\ u # <<>>
    <3>1. PICK w : w = job[k]
      OBVIOUS
    <3>2. w.state = "walking" /\ w = Walk(w.from, w.at, w.upto, w.read, w.frame, w.updates, w.under, w.mixed)
      BY <2>3, <3>1 DEF Walking, HistoryInv, WalkKept
    <3>3. [w EXCEPT !.mixed = TRUE]
            = Walk(w.from, w.at, w.upto, w.read, w.frame, w.updates, w.under, TRUE)
      BY <3>2, MixedJob
    <3> QED BY <2>1, <2>2, <2>3, <3>1, <3>2, <3>3
  <2>4. CASE ~(Walking(k) /\ u # <<>>)
    <3>1. job'[k] = job[k]
      BY <2>2, <2>4
    <3>2. u = <<>>
      BY <1>3, <2>4, <3>1 DEF Walking
    <3>3. DOMAIN u = {}
      BY <3>2
    <3> QED BY <1>3, <2>1, <3>1, <3>3
  <2> QED BY <2>3, <2>4
<1> QED BY <1>1, <1>2, <1>3

\* The other steps leave the jobs as they are, or end them.
JobsRest ==
  /\ job' = [k \in Job |-> job'[k]]
  /\ \A k \in Job : job'[k] = job[k] \/ job'[k].state # "walking"

LEMMA JobsEnd ==
  ASSUME job = [k \in Job |-> job[k]],
         Restart \/ \E j \in Job : reprocess_cancel(j) \/ JobFails(j)
  PROVE  JobsRest /\ UNCHANGED <<check, lim, rows, settled>> /\ (memory' = memory \/ memory' = Forgotten)
<1>1. Ended.state # "walking"
  BY DEF Ended
<1>2. CASE Restart
  <2>1. job' = [k \in Job |-> IF job[k].state = "walking" THEN Ended ELSE job[k]]
    BY <1>2 DEF Restart
  <2> QED BY <1>1, <1>2, <2>1 DEF JobsRest, Restart
<1>3. ASSUME NEW j \in Job, reprocess_cancel(j) \/ JobFails(j)
      PROVE  JobsRest /\ UNCHANGED <<check, lim, rows, settled, memory>>
  <2>1. job' = [job EXCEPT ![j] = Ended] /\ UNCHANGED <<check, lim, rows, settled, memory>>
    BY <1>3 DEF reprocess_cancel, JobFails
  <2>2. OtherJobs(j) /\ job'[j] = Ended
    BY <2>1, OneJobMoves
  <2> QED BY <1>1, <2>1, <2>2 DEF JobsRest, OtherJobs
<1> QED BY <1>2, <1>3

\* Rows are added to the others.
LEMMA HistoryGrows ==
  ASSUME NEW row, \E S : rows \in Seq(S), rows' = Append(rows, row)
  PROVE  /\ \E S : rows' \in Seq(S)
         /\ Len(rows) \in Nat /\ Len(rows') = Len(rows) + 1
         /\ \A i \in 1..Len(rows) : rows'[i] = rows[i]
         /\ rows'[Len(rows) + 1] = row
<1>1. PICK S : rows \in Seq(S)
  OBVIOUS
<1> DEFINE T == S \cup {row}
<1>2. rows \in Seq(T)
  BY <1>1, SeqMonotonic
<1>3. row \in T
  OBVIOUS
<1> HIDE DEF T
<1> QED BY <1>2, <1>3, AppendProperties, LenProperties

\* Nor do they move when some are written anew.
LEMMA HistoryStays ==
  ASSUME NEW u, \E S : rows \in Seq(S),
         rows' = Written(u)
  PROVE  /\ \E S : rows' \in Seq(S)
         /\ Len(rows) \in Nat /\ Len(rows') = Len(rows)
         /\ \A i \in 1..Len(rows) : rows'[i] = IF i \in DOMAIN u THEN u[i] ELSE rows[i]
<1> DEFINE n == Len(rows)
           T == {rows'[i] : i \in 1..n}
<1>1. n \in Nat
  BY LenProperties
<1> HIDE DEF n
<1>2. rows' \in [1..n -> T] /\ \A i \in 1..n : rows'[i] = IF i \in DOMAIN u THEN u[i] ELSE rows[i]
  BY DEF n, Written
<1> HIDE DEF T
<1>3. rows' \in Seq(T)
  BY <1>1, <1>2, SeqDef
<1>4. Len(rows') = n
  <2>1. DOMAIN rows' = 1..Len(rows') /\ Len(rows') \in Nat
    BY <1>3, LenProperties
  <2>2. DOMAIN rows' = 1..n
    BY <1>2
  <2>3. 1..Len(rows') = 1..n
    BY <2>1, <2>2
  <2>4. CASE Len(rows') < n
    <3>1. n \in 1..n /\ n \notin 1..Len(rows')
      BY <1>1, <2>1, <2>4
    <3> QED BY <2>3, <3>1
  <2>5. CASE Len(rows') > n
    <3>1. Len(rows') \in 1..Len(rows') /\ Len(rows') \notin 1..n
      BY <1>1, <2>1, <2>5
    <3> QED BY <2>3, <3>1
  <2>6. n \in Nat /\ Len(rows') \in Nat
    BY <1>1, <2>1
  <2>7. ~(Len(rows') < n) /\ ~(Len(rows') > n)
    BY <2>4, <2>5, <2>6
  <2> QED BY <2>6, <2>7
<1>5. (\E S : rows' \in Seq(S))
  BY <1>3
<1>6. \A i \in 1..n : rows'[i] = IF i \in DOMAIN u THEN u[i] ELSE rows[i]
  BY <1>2
<1> QED BY <1>1, <1>4, <1>5, <1>6, Zenon DEF n

\* Steps that leave the rows alone, and the jobs as they were or gone.
LEMMA HistoryRests ==
  ASSUME HistoryInv, UNCHANGED <<check, rows>>, JobsRest
  PROVE  HistoryInv'
<1>1. /\ check' \in Check /\ check' \in DOMAIN Observation
      /\ (\E S : rows' \in Seq(S))
      /\ \A i \in 1..Len(rows') : RowKept(check', rows'[i])
  BY DEF HistoryInv
<1>2. ASSUME NEW k \in Job PROVE WalkKept(check', job'[k])
  <2>1. WalkKept(check, job[k]) /\ check' = check
    BY DEF HistoryInv
  <2>2. CASE job'[k] = job[k]
    BY <2>1, <2>2
  <2>3. CASE job'[k].state # "walking"
    BY <2>3 DEF WalkKept
  <2> QED BY <2>2, <2>3 DEF JobsRest
<1> QED BY <1>1, <1>2 DEF HistoryInv, JobsRest

LEMMA HistoryInductive == HistoryInv /\ [ReprocessNext]_reVars => HistoryInv'
<1> SUFFICES ASSUME HistoryInv, [ReprocessNext]_reVars PROVE HistoryInv'
  OBVIOUS
<1>a. /\ check \in Check /\ check \in DOMAIN Observation
      /\ \E S : rows \in Seq(S)
      /\ \A i \in 1..Len(rows) : RowKept(check, rows[i])
      /\ job = [k \in Job |-> job[k]] /\ \A k \in Job : WalkKept(check, job[k])
      /\ Len(rows) \in Nat
  <2>1. \A S : rows \in Seq(S) => Len(rows) \in Nat
    BY LenProperties
  <2> QED BY <2>1 DEF HistoryInv
<1>b. ASSUME job' = job PROVE JobsRest
  BY <1>a, <1>b DEF JobsRest
<1>c. ASSUME NEW j \in Job, OtherJobs(j), UNCHANGED <<check, rows>>, WalkKept(check, job'[j])
      PROVE  HistoryInv'
  <2>1. \A k \in Job : WalkKept(check, job'[k])
    BY <1>a, <1>c DEF OtherJobs
  <2> QED BY <1>a, <1>c, <2>1 DEF HistoryInv, OtherJobs
<1>1. ASSUME NEW o \in Observation[check], Run(o) PROVE HistoryInv'
  <2> DEFINE r == Judge(o, lim, memory)
  <2>1. PICK row : /\ row = [status |-> r.status, sub |-> r.sub, facts |-> r.facts, obs |-> o,
                             original |-> "none", live |-> r.status, under |-> lim,
                             known |-> memory.known]
                   /\ rows' = Append(rows, row) /\ UNCHANGED <<check, job>>
    BY <1>1 DEF Run
  <2>2. RowKept(check, row)
    <3>1. PICK p : p = r
      OBVIOUS
    <3>2. row = [status |-> p.status, sub |-> p.sub, facts |-> p.facts, obs |-> o,
                 original |-> "none", live |-> p.status, under |-> lim, known |-> memory.known]
      BY <2>1, <3>1
    <3> QED BY <1>a, <3>1, <3>2, RecordedKept
  <2>3. /\ \E S : rows' \in Seq(S)
        /\ Len(rows') = Len(rows) + 1
        /\ \A i \in 1..Len(rows) : rows'[i] = rows[i]
        /\ rows'[Len(rows) + 1] = row
    BY <1>a, <2>1, HistoryGrows
  <2>4. \A i \in 1..Len(rows') : RowKept(check, rows'[i])
    <3> SUFFICES ASSUME NEW i \in 1..Len(rows') PROVE RowKept(check, rows'[i])
      OBVIOUS
    <3>1. i \in 1..Len(rows) \/ i = Len(rows) + 1
      BY <1>a, <2>3
    <3> QED BY <1>a, <2>2, <2>3, <3>1
  <2> QED BY <1>a, <2>1, <2>3, <2>4 DEF HistoryInv
<1>2. ASSUME NEW l, save_blob(l) PROVE HistoryInv'
  BY <1>2, <1>b, HistoryRests DEF save_blob
<1>3. CASE Restart \/ \E j \in Job : reprocess_cancel(j) \/ JobFails(j)
  BY <1>3, <1>a, JobsEnd, HistoryRests
<1>4. ASSUME NEW j \in Job, NEW from \in 1..Len(rows), JobStart(j, from) PROVE HistoryInv'
  <2>1. /\ OtherJobs(j) /\ job'[j] = Walk(from, from, Len(rows), rows, NoFrame, <<>>, lim, FALSE)
        /\ UNCHANGED <<check, rows>>
    BY <1>4, JobBegins
  <2>2. from \in Nat /\ 1 <= from /\ DOMAIN <<>> = {}
    BY <1>a
  <2>3. WalkKept(check, job'[j])
    BY <1>a, <2>1, <2>2 DEF WalkKept, Walk
  <2> QED BY <1>c, <2>1, <2>3
<1>5. ASSUME NEW j \in Job, JobRow(j) PROVE HistoryInv'
  <2>1. PICK w : w = job[j]
    OBVIOUS
  <2>2. /\ OtherJobs(j) /\ UNCHANGED <<check, rows>>
        /\ w.state = "walking" /\ w.at \in 1..w.upto /\ w.at \in Nat /\ w.upto \in Nat
        /\ job'[j] = GoneOn(w, lim)
    BY <1>5, <2>1, JobGoesOn
  <2>3. /\ \A i \in 1..w.upto : RowKept(check, w.read[i])
        /\ \A i \in DOMAIN w.updates : RowKept(check, w.updates[i])
    BY <1>a, <2>1, <2>2 DEF WalkKept
  <2>4. PICK new : new = NewRow(w, lim)
    OBVIOUS
  <2>5. RowKept(check, new)
    BY <1>a, <2>2, <2>3, <2>4, RejudgedKept DEF NewRow
  <2>6. PICK u : u = Updated(w, lim)
    OBVIOUS
  <2>7. \A i \in DOMAIN u : RowKept(check, u[i])
    <3>1. \/ u = w.updates
          \/ /\ DOMAIN u = DOMAIN w.updates \cup {w.at}
             /\ \A i \in DOMAIN w.updates : u[i] = w.updates[i]
             /\ w.at \notin DOMAIN w.updates => u[w.at] = new
      BY <2>4, <2>6, WhatIsToWrite
    <3> QED BY <2>3, <2>5, <3>1
  <2>8. w.at + 1 \in Nat /\ 1 <= w.at + 1
    BY <2>2
  <2>9. PICK f, x : job'[j] = Walk(w.from, w.at + 1, w.upto, w.read, f, u, w.under, x)
    BY <2>2, <2>6, Zenon DEF GoneOn
  <2>10. WalkKept(check, job'[j])
    BY <2>2, <2>3, <2>7, <2>8, <2>9 DEF WalkKept, Walk
  <2> QED BY <1>c, <2>2, <2>10
<1>6. ASSUME NEW j \in Job, JobWrite(j) PROVE HistoryInv'
  <2>1. PICK u : u = job[j].updates
    OBVIOUS
  <2>2. /\ job[j].state = "walking" /\ UNCHANGED check
        /\ rows' = Written(u) /\ AreJobs(job')
    BY <1>6, <2>1, JobIsWritten
  <2>3. /\ \E S : rows' \in Seq(S)
        /\ Len(rows') = Len(rows)
        /\ \A i \in 1..Len(rows) : rows'[i] = IF i \in DOMAIN u THEN u[i] ELSE rows[i]
    BY <1>a, <2>2, HistoryStays
  <2>4. \A i \in DOMAIN u : RowKept(check, u[i])
    BY <1>a, <2>1, <2>2 DEF WalkKept
  <2>5. \A i \in 1..Len(rows') : RowKept(check, rows'[i])
    BY <1>a, <2>3, <2>4
  <2>6. ASSUME NEW k \in Job PROVE WalkKept(check, job'[k])
    <3>1. CASE job'[k].state # "walking"
      BY <3>1 DEF WalkKept
    <3>2. CASE job'[k].state = "walking"
      <4>1. PICK w : w = job[k]
        OBVIOUS
      <4>2. /\ w.state = "walking"
            /\ \/ job'[k] = w
               \/ job'[k] = Walk(w.from, w.at, w.upto, w.read, w.frame, w.updates, w.under, TRUE)
        BY <1>6, <2>1, <3>2, <4>1, JobIsWritten
      <4>3. WalkKept(check, w)
        BY <1>a, <4>1
      <4>4. CASE job'[k] = Walk(w.from, w.at, w.upto, w.read, w.frame, w.updates, w.under, TRUE)
        <5>1. /\ w.at \in Nat /\ 1 <= w.at /\ w.upto \in Nat
              /\ \A i \in 1..w.upto : RowKept(check, w.read[i])
              /\ \A i \in DOMAIN w.updates : RowKept(check, w.updates[i])
          BY <4>2, <4>3 DEF WalkKept
        <5> QED BY <4>4, <5>1 DEF WalkKept, Walk
      <4> QED BY <4>2, <4>3, <4>4
    <3> QED BY <3>1, <3>2
  <2> QED BY <1>a, <2>2, <2>3, <2>5, <2>6 DEF HistoryInv, AreJobs
<1>7. CASE UNCHANGED reVars
  <2>1. UNCHANGED <<check, rows, job>>
    BY <1>7 DEF reVars
  <2> QED BY <1>b, <2>1, HistoryRests
<1> QED BY <1>1, <1>2, <1>3, <1>4, <1>5, <1>6, <1>7 DEF ReprocessNext

LEMMA HistoryBegins == ReprocessInit => HistoryInv
<1> SUFFICES ASSUME ReprocessInit PROVE HistoryInv
  OBVIOUS
<1>1. check \in DOMAIN Observation /\ rows = <<>> /\ job = [k \in Job |-> NoJob]
  BY DEF ReprocessInit
<1>2. check \in Check
  BY <1>1, ReprocessAssumption DEF Measured, Check
<1>3. rows \in Seq({}) /\ Len(rows) = 0
  BY <1>1, EmptySeq
<1>4. \A i \in 1..Len(rows) : RowKept(check, rows[i])
  BY <1>3
<1>5. job = [k \in Job |-> job[k]] /\ \A k \in Job : WalkKept(check, job[k])
  <2>1. NoJob.state # "walking"
    BY DEF NoJob
  <2> QED BY <1>1, <2>1 DEF WalkKept
<1> QED BY <1>1, <1>2, <1>3, <1>4, <1>5 DEF HistoryInv

\* Through any number of jobs, side by side or one after another, under any thresholds,
\* with cancellations and restarts between them, a real stoppage keeps its status, and
\* so does what was not judged by its age; a radar, an image and an old timeout whose
\* status was changed say what it was at first; and the checks that only warn of an
\* age do not come to fail.
THEOREM HistoryIsKept == ReprocessSpec => []HistoryKept
<1>1. HistoryInv => HistoryKept
  <2> SUFFICES ASSUME HistoryInv, NEW i \in 1..Len(rows)
               PROVE  LET row == rows[i] IN
                      /\ check \in {"L2", "L4"} \/ row.obs.got = "old_timeout" =>
                           /\ row.original \in {"none", row.live}
                           /\ row.status # row.live => row.original = row.live
                      /\ check = "L2" /\ row.obs.n <= 0 => row.status = row.live
                      /\ check # "L2" /\ row.obs.got \in Ageless => row.status = row.live
                      /\ check \in {"input", "drops"} /\ row.status = "fail" => row.live = "fail"
    BY DEF HistoryKept, Ageless
  <2> DEFINE row == rows[i]
  <2>1. RowKept(check, row) /\ check \in Check
    BY DEF HistoryInv
  <2> HIDE DEF row
  <2>2. ASSUME check \in {"L2", "L4"} \/ row.obs.got = "old_timeout"
        PROVE  /\ row.original \in {"none", row.live}
               /\ row.status # row.live => row.original = row.live
    <3>1. \/ row.original = "none" /\ row.status = row.live
          \/ row.original = row.live
      BY <2>1, <2>2 DEF RowKept, FirstVerdict, Check
    <3> QED BY <3>1
  <2>3. check = "L2" /\ row.obs.n <= 0 => row.status = row.live
    BY <2>1 DEF RowKept, Stoppage
  <2>4. check # "L2" /\ row.obs.got \in Ageless => row.status = row.live
    BY <2>1 DEF RowKept, NoVerdictOnAge
  <2>5. check \in {"input", "drops"} /\ row.status = "fail" => row.live = "fail"
    BY <2>1 DEF RowKept, OnlyWarns
  <2> QED BY <2>2, <2>3, <2>4, <2>5 DEF row
<1> QED BY <1>1, HistoryBegins, HistoryInductive, PTL DEF ReprocessSpec

-----------------------------------------------------------------------------
(* The two ways of judging *)

\* The frame that later ones are compared with, of the rows from one to another.
SeenFrom(rs, from, i) == {j \in from..(i - 1) : rs[j].facts.got # "no_image"}
TrailOf(rs, from, i) ==
  IF SeenFrom(rs, from, i) = {} THEN NoFrame
  ELSE LET last == CHOOSE j \in SeenFrom(rs, from, i) : \A k \in SeenFrom(rs, from, i) : k <= j
       IN  Advanced(NoFrame, rs[last].facts)

\* The verdicts, judged again from what the row kept.
WithAge(s, name, v) == [k \in DOMAIN s |-> IF k = name THEN v ELSE s[k]]
WithProduct(s, f, l) ==
  [k \in DOMAIN s |->
    IF k = "C_freshness" /\ f.last # NotThere
    THEN Within("pass", "fail", f.last, l.max_freshness_s)
    ELSE IF k = "D_cadence" /\ f.med # NotThere THEN CadenceVerdict(f.med, l)
    ELSE IF k = "E_step_count" THEN StepVerdict(f.n, l)
    ELSE IF k = "G_image_size" /\ f.bytes # NotThere
    THEN IF f.bytes >= l.min_png_bytes THEN "pass" ELSE "warn"
    ELSE s[k]]

\* Verdicts of which the worst is a verdict, neither an error nor nothing said.
Fine(c, s) ==
  /\ \A k \in DOMAIN s : s[k] \in {"skip", "pass", "warn", "fail"}
  /\ c = "L1" => "A_api_up" \in DOMAIN s /\ s["A_api_up"] # "skip"
  /\ c # "L1" => \A k \in DOMAIN s : s[k] # "skip"

\* What judging again leaves alone has kept its first status.
Untouched(c, row) ==
  CASE c = "L2" -> \/ row.facts.verdict \notin {"HEALTHY", "GHOST_UP"}
                   \/ row.facts.n <= 0 \/ row.facts.last = NotThere
                   => row.status = row.live
    [] c \in {"L1", "L4"} -> TRUE
    [] OTHER -> \/ row.facts.age = NotThere \/ AgeName(c) \notin DOMAIN row.sub
                \/ \E k \in DOMAIN row.facts.limits : row.facts.limits[k] = NotThere
                => row.status = row.live

RowSound(c, row) ==
  /\ row.live \in {"skip", "error"} => row.status = row.live
  /\ row.status \in {"skip", "error"}
       => row.status = row.live \/ (c = "L1" /\ row.obs.got = "old_timeout")
  /\ row.live \notin {"skip", "error"}
       => Fine(c, row.sub) /\ (c = "L4" => row.facts.got # "no_image")
  /\ Untouched(c, row)
  /\ c \notin {"L1", "L2", "L4"} /\ row.facts.age # NotThere
       => DOMAIN row.facts.limits = DOMAIN row.under.standard

\* The status these verdicts give is that of the live check.
Agrees(c, row) ==
  CASE c = "L1" -> /\ ~row.facts.old_timeout
                   /\ Worst(WithProduct(row.sub, row.facts, row.under)) = row.live
    [] c = "L2" -> row.facts.verdict \in {"HEALTHY", "GHOST_UP"} /\ ~(row.facts.n <= 0)
                     /\ row.facts.last # NotThere
                   => row.live = IF row.facts.last <= Upper(row.under) THEN "pass" ELSE "fail"
    [] c = "L4" -> TRUE
    [] OTHER -> HeldTo(row, AgeName(c), InEffect(row.under))
                => Worst(WithAge(row.sub, AgeName(c),
                                 AgeVerdict(c, row.facts.age, InEffect(row.under)))) = row.live

RowAgrees(c, row) ==
  /\ RowSound(c, row)
  /\ row.live \notin {"skip", "error"} /\ ~KeptApart(c, row) => Agrees(c, row)

\* A row judged again is of the same run.
SameRun(c, row, new) ==
  /\ new.live = row.live /\ new.under = row.under
  /\ new.known = row.known /\ new.obs = row.obs
  /\ c = "L4" => new.facts = row.facts

\* What a job has read and has to write is of the runs whose rows are there; and it is
\* where the rows it read have brought it.
FrameAt(c, rs, from, i) == IF c = "L4" THEN TrailOf(rs, from, i) ELSE NoFrame
WalkAgrees(c, w, rs) ==
  /\ w.upto \in Nat /\ w.upto <= Len(rs)
  /\ \A i \in 1..w.upto : RowAgrees(c, w.read[i]) /\ SameRun(c, rs[i], w.read[i])
  /\ \A i \in DOMAIN w.updates :
       i \in 1..w.upto /\ RowAgrees(c, w.updates[i]) /\ SameRun(c, rs[i], w.updates[i])
WalkIsAt(c, w) ==
  /\ w.from \in Nat /\ w.at \in Nat /\ 1 <= w.from /\ w.from <= w.at /\ w.at <= w.upto + 1
  /\ w.frame = FrameAt(c, w.read, w.from, w.at)
JobsAgree ==
  \A k \in Job : job[k].state = "walking"
    => WalkAgrees(check, job[k], rows) /\ WalkIsAt(check, job[k])

\* What the check compared a frame with is what the rows before it tell.
FramesAgree ==
  check = "L4" =>
    /\ memory.known => memory.frame = TrailOf(rows, 1, Len(rows) + 1)
    /\ \A i \in 1..Len(rows) :
         rows[i].known /\ ~KeptApart(check, rows[i]) =>
           JudgeL4(rows[i].facts, rows[i].under, TrailOf(rows, 1, i)).status = rows[i].live

InStepInv ==
  /\ HistoryInv
  /\ lim \in Limits[check]
  /\ memory = [fresh |-> memory.fresh, frame |-> memory.frame, known |-> memory.known]
  /\ \A i \in 1..Len(rows) : RowAgrees(check, rows[i])
  /\ JobsAgree /\ FramesAgree

\* The same verdicts have the same worst.
LEMMA SameWorst ==
  ASSUME NEW s, NEW t, DOMAIN s = DOMAIN t, \A k \in DOMAIN s : s[k] = t[k]
  PROVE  Worst(s) = Worst(t)
<1>1. {s[k] : k \in DOMAIN s} = {t[k] : k \in DOMAIN t}
  OBVIOUS
<1> QED BY <1>1 DEF Worst

\* What decides the same is not changed by being judged again.
LEMMA AgeChangesNothing ==
  ASSUME NEW s, NEW name, NEW v, name \in DOMAIN s => s[name] = v
  PROVE  Worst(WithAge(s, name, v)) = Worst(s)
<1> DEFINE t == WithAge(s, name, v)
<1>1. DOMAIN t = DOMAIN s /\ \A k \in DOMAIN s : t[k] = s[k]
  BY DEF WithAge
<1> HIDE DEF t
<1>2. Worst(t) = Worst(s)
  BY <1>1, SameWorst
<1> QED BY <1>2 DEF t

LEMMA ProductChangesNothing ==
  ASSUME NEW s, NEW f, NEW l,
         "C_freshness" \in DOMAIN s /\ f.last # NotThere
           => s["C_freshness"] = Within("pass", "fail", f.last, l.max_freshness_s),
         "D_cadence" \in DOMAIN s /\ f.med # NotThere
           => s["D_cadence"] = CadenceVerdict(f.med, l),
         "E_step_count" \in DOMAIN s => s["E_step_count"] = StepVerdict(f.n, l),
         "G_image_size" \in DOMAIN s /\ f.bytes # NotThere
           => s["G_image_size"] = IF f.bytes >= l.min_png_bytes THEN "pass" ELSE "warn"
  PROVE  Worst(WithProduct(s, f, l)) = Worst(s)
<1> DEFINE t == WithProduct(s, f, l)
<1>1. DOMAIN t = DOMAIN s
  BY DEF WithProduct
<1>2. ASSUME NEW k \in DOMAIN s PROVE t[k] = s[k]
  <2>1. CASE k = "C_freshness" /\ f.last # NotThere
    BY <2>1 DEF WithProduct
  <2>2. CASE k = "D_cadence" /\ f.med # NotThere
    BY <2>2 DEF WithProduct
  <2>3. CASE k = "E_step_count"
    BY <2>3 DEF WithProduct
  <2>4. CASE k = "G_image_size" /\ f.bytes # NotThere
    BY <2>4 DEF WithProduct
  <2>5. CASE /\ ~(k = "C_freshness" /\ f.last # NotThere) /\ ~(k = "D_cadence" /\ f.med # NotThere)
             /\ k # "E_step_count" /\ ~(k = "G_image_size" /\ f.bytes # NotThere)
    BY <2>5 DEF WithProduct
  <2> QED BY <2>1, <2>2, <2>3, <2>4, <2>5
<1> HIDE DEF t
<1>3. Worst(t) = Worst(s)
  BY <1>1, <1>2, SameWorst
<1> QED BY <1>3 DEF t

\* A verdict put among others is the one that is read there.
LEMMA FirstOfBoth ==
  ASSUME NEW f, NEW g, NEW k
  PROVE  /\ k \in DOMAIN (f ++ g) <=> k \in DOMAIN f \/ k \in DOMAIN g
         /\ k \in DOMAIN f => (f ++ g)[k] = f[k]
         /\ k \in DOMAIN g \ DOMAIN f => (f ++ g)[k] = g[k]
BY DEF ++

\* The live check of a product and its judgement again agree.
LEMMA ProductAgrees ==
  ASSUME NEW o \in Measured["L1"], NEW l \in Adjustable["L1"], NEW r, r = JudgeL1(o, l),
         r.status # "error", o.got # "old_timeout",
         ~(o.age <= l.max_freshness_s /\ l.max_freshness_s < o.age + o.took)
  PROVE  ~r.facts.old_timeout /\ Worst(WithProduct(r.sub, r.facts, l)) = r.status
<1>a. \A s, b, f : Row(s, b, f).status = s /\ Row(s, b, f).sub = b /\ Row(s, b, f).facts = f
  BY DEF Row
<1>b. \A b, f : Final(b, f).status = Worst(b) /\ Final(b, f).sub = b /\ Final(b, f).facts = f
  BY <1>a DEF Final
<1>c. /\ o.age \in Nat /\ o.took \in Nat /\ l.max_freshness_s \in Int
      /\ o.got \in {"image", "no_answer", "http", "empty", "malformed", "image_timeout",
                    "image_http", "image_error", "old_timeout"}
  BY DEF Measured, Adjustable
<1> DEFINE facts == [n |-> o.n, last |-> o.age + o.took,
                     med |-> IF l.cadence_s = NotThere THEN NotThere ELSE o.med,
                     bytes |-> IF o.got = "image" THEN o.bytes ELSE NotThere,
                     old_timeout |-> FALSE]
           none  == [facts EXCEPT !.last = NotThere, !.med = NotThere, !.bytes = NotThere]
<1>1. none.last = NotThere /\ none.med = NotThere /\ none.bytes = NotThere /\ ~none.old_timeout
  OBVIOUS
<1>2. /\ facts.last = o.age + o.took /\ facts.n = o.n /\ ~facts.old_timeout
      /\ facts.med # NotThere => facts.med = o.med
      /\ facts.bytes # NotThere => facts.bytes = o.bytes /\ o.got = "image"
  OBVIOUS
<1>3. ASSUME NEW b, r = Final(b, none), "E_step_count" \notin DOMAIN b
      PROVE  ~r.facts.old_timeout /\ Worst(WithProduct(r.sub, r.facts, l)) = r.status
  <2> HIDE DEF none
  <2>1. r.status = Worst(b) /\ r.sub = b /\ r.facts = none
    BY <1>b, <1>3
  <2>2. Worst(WithProduct(b, none, l)) = Worst(b)
    BY <1>1, <1>3, ProductChangesNothing
  <2> QED BY <1>1, <2>1, <2>2
<1>4. CASE o.got \in {"no_answer", "image_timeout"}
  <2>1. r = Row("error", NoSub, none)
    BY <1>4 DEF JudgeL1
  <2> HIDE DEF none
  <2> QED BY <1>a, <2>1
<1>5. CASE o.got = "http"
  <2>1. r = Final([A_api_up |-> "fail"], none)
    BY <1>5 DEF JudgeL1
  <2>2. "E_step_count" \notin DOMAIN [A_api_up |-> "fail"]
    OBVIOUS
  <2> HIDE DEF none
  <2> QED BY <1>3, <2>1, <2>2
<1>6. CASE o.got = "empty"
  <2>1. r = Final([A_api_up |-> "pass", B_nonempty |-> "fail"], none)
    BY <1>6 DEF JudgeL1
  <2>2. "E_step_count" \notin DOMAIN [A_api_up |-> "pass", B_nonempty |-> "fail"]
    OBVIOUS
  <2> HIDE DEF none
  <2> QED BY <1>3, <2>1, <2>2
<1>7. CASE o.got = "malformed"
  <2>1. r = Final([A_api_up |-> "pass", B_schema |-> "fail"], none)
    BY <1>7 DEF JudgeL1
  <2>2. "E_step_count" \notin DOMAIN [A_api_up |-> "pass", B_schema |-> "fail"]
    OBVIOUS
  <2> HIDE DEF none
  <2> QED BY <1>3, <2>1, <2>2
<1>8. CASE o.got \in {"image", "image_http", "image_error"}
  <2> DEFINE M == L1Manifest(o, l)
             I == L1Image(o, l)
             b == M ++ I
  <2>1. r = Final(b, facts)
    BY <1>8 DEF JudgeL1
  <2>2. /\ {"C_freshness", "D_cadence", "E_step_count"} \subseteq DOMAIN M
        /\ "G_image_size" \notin DOMAIN M
        /\ M["C_freshness"] = Within("pass", "fail", o.age, l.max_freshness_s)
        /\ M["D_cadence"] = IF o.med = NotThere THEN "pass" ELSE CadenceVerdict(o.med, l)
        /\ M["E_step_count"] = StepVerdict(o.n, l)
    BY DEF L1Manifest
  <2>3. "G_image_size" \in DOMAIN I /\ o.got = "image"
          => I["G_image_size"] = IF o.bytes >= l.min_png_bytes THEN "pass" ELSE "warn"
    BY DEF L1Image
  <2> HIDE DEF M, I
  <2>4. b["C_freshness"] = Within("pass", "fail", o.age, l.max_freshness_s)
        /\ b["D_cadence"] = (IF o.med = NotThere THEN "pass" ELSE CadenceVerdict(o.med, l))
        /\ b["E_step_count"] = StepVerdict(o.n, l)
    BY <2>2, FirstOfBoth
  <2>5. "G_image_size" \in DOMAIN b => "G_image_size" \in DOMAIN I /\ b["G_image_size"] = I["G_image_size"]
    BY <2>2, FirstOfBoth
  <2>6. b["C_freshness"] = Within("pass", "fail", facts.last, l.max_freshness_s)
    <3>1. (o.age <= l.max_freshness_s) <=> (facts.last <= l.max_freshness_s)
      BY <1>2, <1>c
    <3> HIDE DEF facts, b
    <3> QED BY <2>4, <3>1 DEF Within
  <2>7. "G_image_size" \in DOMAIN b /\ facts.bytes # NotThere
          => b["G_image_size"] = IF facts.bytes >= l.min_png_bytes THEN "pass" ELSE "warn"
    <3> HIDE DEF facts, b
    <3> QED BY <1>2, <2>3, <2>5
  <2>8. facts.med # NotThere => b["D_cadence"] = CadenceVerdict(facts.med, l)
    <3> HIDE DEF facts, b
    <3> QED BY <1>2, <2>4
  <2>9. b["E_step_count"] = StepVerdict(facts.n, l)
    <3> HIDE DEF facts, b
    <3> QED BY <1>2, <2>4
  <2> HIDE DEF facts, b
  <2>10. Worst(WithProduct(b, facts, l)) = Worst(b)
    BY <2>6, <2>7, <2>8, <2>9, ProductChangesNothing
  <2> QED BY <1>2, <1>b, <2>1, <2>10
<1> QED BY <1>4, <1>5, <1>6, <1>7, <1>8, <1>c

\* The worst of such verdicts is one, whatever becomes of some of them.
LEMMA FineIsJudged ==
  ASSUME NEW c \in Check \ {"L2", "L4"}, NEW s, Fine(c, s)
  PROVE  Worst(s) \notin {"skip", "error"}
<1> DEFINE S == {s[k] : k \in DOMAIN s}
<1>1. Worst(s) = worst_of(S)
  BY DEF Worst
<1>2. S \in SUBSET {"skip", "pass", "warn", "fail"}
        /\ S \in SUBSET {"skip", "pass", "warn", "fail", "error"}
  BY DEF Fine
<1>3. IF c = "L1" THEN \E t \in S : t # "skip" ELSE "skip" \notin S
  BY DEF Fine
<1> HIDE DEF S
<1>4. CASE S = {}
  BY <1>1, <1>4 DEF worst_of
<1>5. CASE S # {}
  <2>1. worst_of(S) \in S /\ \A t \in S : Rank[worst_of(S)] >= Rank[t]
    BY <1>2, <1>5, WorstIsOneOfThem
  <2>2. /\ Rank["skip"] = 0 /\ Rank["pass"] = 1 /\ Rank["warn"] = 2 /\ Rank["fail"] = 3
    BY DEF Rank
  <2>3. (\E t \in S : t # "skip") => worst_of(S) # "skip"
    <3> SUFFICES ASSUME NEW t \in S, t # "skip", worst_of(S) = "skip" PROVE FALSE
      OBVIOUS
    <3>1. 0 >= Rank[t]
      BY <2>1, <2>2
    <3>2. t \in {"pass", "warn", "fail"}
      BY <1>2
    <3> QED BY <2>2, <3>1, <3>2
  <2> QED BY <1>1, <1>2, <1>3, <2>1, <2>3
<1> QED BY <1>4, <1>5

\* What the checks record is such verdicts.
LEMMA ProductIsFine ==
  ASSUME NEW o \in Measured["L1"], NEW l, NEW r, r = JudgeL1(o, l), r.status # "error"
  PROVE  Fine("L1", r.sub)
<1>a. \A s, b, f : Row(s, b, f).status = s /\ Row(s, b, f).sub = b
  BY DEF Row
<1>b. \A b, f : Final(b, f).sub = b
  BY <1>a DEF Final
<1> DEFINE M == L1Manifest(o, l)
           I == L1Image(o, l)
           V == {"skip", "pass", "warn", "fail"}
<1>1. /\ "A_api_up" \in DOMAIN M /\ M["A_api_up"] = "pass"
      /\ \A k \in DOMAIN M : M[k] \in V
  BY DEF L1Manifest, Within, CadenceVerdict, StepVerdict
<1>2. \A k \in DOMAIN I : I[k] \in V
  <2>1. o.parity \in {"pass", "warn", "skip"}
    BY DEF Measured
  <2>2. CASE o.got = "image_error"
    BY <2>2 DEF L1Image
  <2>3. CASE o.got = "image_http"
    BY <2>1, <2>3 DEF L1Image
  <2>4. CASE o.got \notin {"image_error", "image_http"}
    BY <2>1, <2>4 DEF L1Image
  <2> QED BY <2>2, <2>3, <2>4
<1>3. ASSUME NEW g, \A k \in DOMAIN g : g[k] \in V PROVE Fine("L1", M ++ g)
  <2> HIDE DEF M
  <2>1. DOMAIN (M ++ g) = DOMAIN M \cup DOMAIN g
    BY DEF ++
  <2>2. \A k \in DOMAIN (M ++ g) : (M ++ g)[k] = IF k \in DOMAIN M THEN M[k] ELSE g[k]
    BY DEF ++
  <2> QED BY <1>1, <1>3, <2>1, <2>2 DEF Fine
<1>4. Fine("L1", [A_api_up |-> "fail"]) /\ Fine("L1", [A_api_up |-> "pass", B_nonempty |-> "fail"])
        /\ Fine("L1", [A_api_up |-> "pass", B_schema |-> "fail"])
  BY DEF Fine
<1>5. \A k \in DOMAIN [F_image_exists |-> "fail"] : [F_image_exists |-> "fail"][k] \in V
  OBVIOUS
<1>6. \/ \E f : r = Row("error", NoSub, f)
      \/ \E b, f : /\ r = Final(b, f)
                   /\ b \in {[A_api_up |-> "fail"], [A_api_up |-> "pass", B_nonempty |-> "fail"],
                            [A_api_up |-> "pass", B_schema |-> "fail"], M ++ I,
                            M ++ [F_image_exists |-> "fail"]}
  <2> DEFINE facts == [n |-> o.n, last |-> o.age + o.took,
                       med |-> IF l.cadence_s = NotThere THEN NotThere ELSE o.med,
                       bytes |-> IF o.got = "image" THEN o.bytes ELSE NotThere,
                       old_timeout |-> FALSE]
             none  == [facts EXCEPT !.last = NotThere, !.med = NotThere, !.bytes = NotThere]
             old   == [facts EXCEPT !.old_timeout = TRUE]
  <2>1. \/ r = Row("error", NoSub, none)
        \/ r = Final([A_api_up |-> "fail"], none)
        \/ r = Final([A_api_up |-> "pass", B_nonempty |-> "fail"], none)
        \/ r = Final([A_api_up |-> "pass", B_schema |-> "fail"], none)
        \/ r = Final(M ++ [F_image_exists |-> "fail"], old)
        \/ r = Final(M ++ I, facts)
    BY DEF JudgeL1
  <2> HIDE DEF facts, none, old, M, I
  <2> QED BY <2>1
<1> HIDE DEF M, I
<1>7. CASE \E f : r = Row("error", NoSub, f)
  BY <1>a, <1>7
<1>8. ASSUME NEW b, NEW f, r = Final(b, f),
             b \in {[A_api_up |-> "fail"], [A_api_up |-> "pass", B_nonempty |-> "fail"],
                   [A_api_up |-> "pass", B_schema |-> "fail"], M ++ I,
                   M ++ [F_image_exists |-> "fail"]}
      PROVE  Fine("L1", r.sub)
  <2>1. Fine("L1", M ++ I) /\ Fine("L1", M ++ [F_image_exists |-> "fail"])
    BY <1>2, <1>3, <1>5
  <2>2. Fine("L1", b)
    BY <1>4, <1>8, <2>1
  <2> QED BY <1>b, <1>8, <2>2
<1> QED BY <1>6, <1>7, <1>8

\* The limits in effect are numbers.
LEMMA InEffectFields ==
  ASSUME NEW c \in Check \ {"L1", "L2", "L4"}, NEW l \in Adjustable[c], NEW e, e = InEffect(l)
  PROVE  /\ DOMAIN e = DOMAIN l.standard
         /\ c = "LB1" => e.backend_max_age_s \in Int /\ "backend_max_age_s" \in DOMAIN e
         /\ c = "LB2" => e.backend_silent_s \in Int /\ "backend_silent_s" \in DOMAIN e
         /\ c = "composite" => /\ e.contrib_warn_s \in Int /\ "contrib_warn_s" \in DOMAIN e
                              /\ e.contrib_fail_s \in Int /\ "contrib_fail_s" \in DOMAIN e
         /\ c = "input" => e.input_warn_s \in Int /\ "input_warn_s" \in DOMAIN e
         /\ c = "drops" => e.drops_s \in Int /\ "drops_s" \in DOMAIN e
<1> DEFINE d == l.standard
<1>1. /\ DOMAIN e = DOMAIN d
      /\ \A k \in DOMAIN d : e[k] = IF l[k] = NotThere THEN d[k] ELSE l[k]
  BY DEF InEffect, Over
<1>2. CASE c = "LB1"
  <2>1. l \in [backend_max_age_s : Int, standard : [backend_max_age_s : Int]]
    BY <1>2 DEF Adjustable
  <2>2. d \in [backend_max_age_s : Int] /\ l["backend_max_age_s"] \in Int
    BY <2>1
  <2>3. "backend_max_age_s" \in DOMAIN d /\ d["backend_max_age_s"] \in Int
    BY <2>2
  <2> HIDE DEF d
  <2> QED BY <1>1, <1>2, <2>2, <2>3 DEF d
<1>3. CASE c = "LB2"
  <2>1. l \in [backend_silent_s : Int, standard : [backend_silent_s : Int]]
    BY <1>3 DEF Adjustable
  <2>2. d \in [backend_silent_s : Int] /\ l["backend_silent_s"] \in Int
    BY <2>1
  <2>3. "backend_silent_s" \in DOMAIN d /\ d["backend_silent_s"] \in Int
    BY <2>2
  <2> HIDE DEF d
  <2> QED BY <1>1, <1>3, <2>2, <2>3 DEF d
<1>4. CASE c = "composite"
  <2>1. l \in [contrib_warn_s : Int, contrib_fail_s : Int,
               standard : [contrib_warn_s : Int, contrib_fail_s : Int]]
    BY <1>4 DEF Adjustable
  <2>2. /\ d \in [contrib_warn_s : Int, contrib_fail_s : Int]
        /\ l["contrib_warn_s"] \in Int /\ l["contrib_fail_s"] \in Int
    BY <2>1
  <2>3. /\ "contrib_warn_s" \in DOMAIN d /\ d["contrib_warn_s"] \in Int
        /\ "contrib_fail_s" \in DOMAIN d /\ d["contrib_fail_s"] \in Int
    BY <2>2
  <2> HIDE DEF d
  <2> QED BY <1>1, <1>4, <2>2, <2>3 DEF d
<1>5. CASE c = "input"
  <2>1. l \in [input_warn_s : Int, retention_s : Int, standard : [input_warn_s : Int]]
    BY <1>5 DEF Adjustable
  <2>2. d \in [input_warn_s : Int] /\ l["input_warn_s"] \in Int
    BY <2>1
  <2>3. "input_warn_s" \in DOMAIN d /\ d["input_warn_s"] \in Int
    BY <2>2
  <2> HIDE DEF d
  <2> QED BY <1>1, <1>5, <2>2, <2>3 DEF d
<1>6. CASE c = "drops"
  <2>1. l \in [drops_s : Int, standard : [drops_s : Int]]
    BY <1>6 DEF Adjustable
  <2>2. d \in [drops_s : Int] /\ l["drops_s"] \in Int
    BY <2>1
  <2>3. "drops_s" \in DOMAIN d /\ d["drops_s"] \in Int
    BY <2>2
  <2> HIDE DEF d
  <2> QED BY <1>1, <1>6, <2>2, <2>3 DEF d
<1> QED BY <1>1, <1>2, <1>3, <1>4, <1>5, <1>6 DEF Check

\* The age that a row keeps and the age that was seen do not come to disagree, unless
\* a threshold lies between them.
SameSide(a, m) == a <= m <=> Rounded(a) <= m
SameFourFifths(a, m) == 5 * a <= 4 * m <=> 5 * Rounded(a) <= 4 * m

LEMMA RoundedIsInt == \A a \in Nat : Rounded(a) \in Int
<1>1. \A x \in Nat : x \div 3 \in Int
  BY Z3
<1> QED BY <1>1 DEF Rounded

LEMMA KeptTogether ==
  ASSUME NEW row, ~KeptApart(check, row), check \in Check \ {"L1", "L2", "L4"},
         row.obs.age \in Nat, NEW e, e = InEffect(row.under),
         NEW m \in DOMAIN e, e[m] \in Int
  PROVE  /\ SameSide(row.obs.age, e[m])
         /\ check = "LB2" => SameFourFifths(row.obs.age, e[m])
<1> DEFINE a == row.obs.age
           x == e[m]
<1>1. ~(\E n \in DOMAIN InEffect(row.under) : \E part \in {4, 5} :
          /\ part = 4 => check = "LB2"
          /\ (5 * a <= part * InEffect(row.under)[n])
               # (5 * Rounded(a) <= part * InEffect(row.under)[n]))
  BY DEF KeptApart, Check
<1>2. /\ (5 * a <= 5 * x) = (5 * Rounded(a) <= 5 * x)
      /\ check = "LB2" => (5 * a <= 4 * x) = (5 * Rounded(a) <= 4 * x)
  BY <1>1
<1>3. a \in Nat /\ x \in Int /\ Rounded(a) \in Int
  BY RoundedIsInt
<1> HIDE DEF a, x
<1>4. SameSide(a, x) /\ (check = "LB2" => SameFourFifths(a, x))
  BY <1>2, <1>3 DEF SameSide, SameFourFifths
<1> QED BY <1>4 DEF a, x

\* What is made of an age, seen and kept.
LEMMA VerdictsTogether ==
  ASSUME check \in Check \ {"L1", "L2", "L4"}, NEW l \in Adjustable[check], NEW e, e = InEffect(l),
         NEW a \in Nat,
         \A m \in DOMAIN e : e[m] \in Int => SameSide(a, e[m]) /\ (check = "LB2" => SameFourFifths(a, e[m]))
  PROVE  AgeVerdict(check, Rounded(a), e) = AgeVerdict(check, a, e)
<1>1. /\ check = "LB1" => e.backend_max_age_s \in Int /\ "backend_max_age_s" \in DOMAIN e
      /\ check = "LB2" => e.backend_silent_s \in Int /\ "backend_silent_s" \in DOMAIN e
      /\ check = "composite" => /\ e.contrib_warn_s \in Int /\ "contrib_warn_s" \in DOMAIN e
                               /\ e.contrib_fail_s \in Int /\ "contrib_fail_s" \in DOMAIN e
      /\ check = "input" => e.input_warn_s \in Int /\ "input_warn_s" \in DOMAIN e
      /\ check = "drops" => e.drops_s \in Int /\ "drops_s" \in DOMAIN e
  BY InEffectFields
<1>2. CASE check = "LB1"
  <2>1. SameSide(a, e.backend_max_age_s)
    BY <1>1, <1>2
  <2> QED BY <1>2, <2>1 DEF SameSide, AgeVerdict, Within
<1>3. CASE check = "LB2"
  <2>1. SameSide(a, e.backend_silent_s) /\ SameFourFifths(a, e.backend_silent_s)
    BY <1>1, <1>3
  <2> QED BY <1>3, <2>1 DEF SameSide, SameFourFifths, AgeVerdict, Arriving, Within
<1>4. CASE check = "composite"
  <2>1. SameSide(a, e.contrib_warn_s) /\ SameSide(a, e.contrib_fail_s)
    BY <1>1, <1>4
  <2> QED BY <1>4, <2>1 DEF SameSide, AgeVerdict, Contribution, Within
<1>5. CASE check = "input"
  <2>1. SameSide(a, e.input_warn_s)
    BY <1>1, <1>5
  <2> QED BY <1>5, <2>1 DEF SameSide, AgeVerdict, Within
<1>6. CASE check = "drops"
  <2>1. SameSide(a, e.drops_s)
    BY <1>1, <1>6
  <2> QED BY <1>6, <2>1 DEF SameSide, AgeVerdict, Within
<1> QED BY <1>2, <1>3, <1>4, <1>5, <1>6 DEF Check

LEMMA AgeVerdictIs ==
  ASSUME NEW c \in Check \ {"L1", "L2", "L4"}, NEW a, NEW l
  PROVE  AgeVerdict(c, a, l) \in {"pass", "warn", "fail"}
<1>1. CASE c = "LB1"
  BY <1>1 DEF AgeVerdict, Within
<1>2. CASE c = "LB2"
  BY <1>2 DEF AgeVerdict, Arriving, Within
<1>3. CASE c = "composite"
  BY <1>3 DEF AgeVerdict, Contribution, Within
<1>4. CASE c \in {"input", "drops"}
  BY <1>4 DEF AgeVerdict, Within
<1> QED BY <1>1, <1>2, <1>3, <1>4 DEF Check

\* What is recorded of an age: nothing, with a verdict that stands, or the age with the
\* limits it was held to, judged as it was seen or not at all.
LEMMA AgesRecorded ==
  ASSUME check \in Check \ {"L1", "L2", "L4"},
         NEW o \in Measured[check], NEW l, NEW m, NEW e, e = InEffect(l), NEW r, r = Judge(o, l, m)
  PROVE  /\ o.age \in Nat
         /\ \/ r.status = "error" /\ r.facts.age = NotThere
            \/ r.status = "fail" /\ r.sub = NoSub /\ r.facts.age = NotThere
            \/ /\ r.status = Worst(r.sub) /\ Fine(check, r.sub)
               /\ \/ r.facts.age = NotThere
                  \/ /\ r.facts.age = Rounded(o.age) /\ r.facts.limits = e
                     /\ AgeName(check) \in DOMAIN r.sub
                          => r.sub[AgeName(check)] = AgeVerdict(check, o.age, e)
<1>a. \A s, b, f : Row(s, b, f).status = s /\ Row(s, b, f).sub = b /\ Row(s, b, f).facts = f
  BY DEF Row
<1>b. \A b, f : Final(b, f).status = Worst(b) /\ Final(b, f).sub = b /\ Final(b, f).facts = f
  BY <1>a DEF Final
<1>c. NoAge.age = NotThere /\ KeptAge(o.age, e).age = Rounded(o.age) /\ KeptAge(o.age, e).limits = e
  BY DEF NoAge, KeptAge
<1> DEFINE V == {"pass", "warn", "fail"}
<1>d. \A b : (\A k \in DOMAIN b : b[k] \in V) => Fine(check, b)
  BY DEF Fine
<1>1. ASSUME NEW b, \A k \in DOMAIN b : b[k] \in V,
             \/ r = Final(b, NoAge)
             \/ /\ r = Final(b, KeptAge(o.age, e))
                /\ AgeName(check) \in DOMAIN b
                     => b[AgeName(check)] = AgeVerdict(check, o.age, e)
      PROVE  /\ r.status = Worst(r.sub) /\ Fine(check, r.sub)
             /\ \/ r.facts.age = NotThere
                \/ /\ r.facts.age = Rounded(o.age) /\ r.facts.limits = e
                   /\ AgeName(check) \in DOMAIN r.sub
                        => r.sub[AgeName(check)] = AgeVerdict(check, o.age, e)
  BY <1>b, <1>c, <1>d, <1>1
<1>2. ASSUME r = Row("error", NoSub, NoAge) \/ r = Row("fail", NoSub, NoAge)
      PROVE  \/ r.status = "error" /\ r.facts.age = NotThere
             \/ r.status = "fail" /\ r.sub = NoSub /\ r.facts.age = NotThere
  BY <1>a, <1>c, <1>2
<1>3. CASE check = "LB1"
  <2>1. r = JudgeLB1(o, e) /\ o.age \in Nat
    BY <1>3 DEF Judge, Measured
  <2> DEFINE b == [A_present |-> "pass",
                   B_freshness |-> Within("pass", "fail", o.age, e.backend_max_age_s)]
             d == [A_present |-> "fail"]
  <2>2. \/ r = Row("error", NoSub, NoAge) \/ r = Row("fail", NoSub, NoAge)
        \/ r = Final(d, NoAge) \/ r = Final(b, KeptAge(o.age, e))
    BY <2>1 DEF JudgeLB1
  <2>3. /\ \A k \in DOMAIN b : b[k] \in V
        /\ b["B_freshness"] = Within("pass", "fail", o.age, e.backend_max_age_s)
    BY DEF Within
  <2>4. \A k \in DOMAIN d : d[k] \in V
    OBVIOUS
  <2> HIDE DEF b, d
  <2>5. b[AgeName(check)] = AgeVerdict(check, o.age, e)
    BY <1>3, <2>3 DEF AgeName, AgeVerdict
  <2> QED BY <1>1, <1>2, <2>1, <2>2, <2>3, <2>4, <2>5
<1>4. CASE check = "LB2"
  <2>1. r = JudgeLB2(o, e) /\ o.age \in Nat
    BY <1>4 DEF Judge, Measured
  <2> DEFINE b == [A_arriving |-> Arriving(o.age, e)]
             d == [A_arriving |-> "fail"]
  <2>2. \/ r = Row("error", NoSub, NoAge)
        \/ r = Final(d, NoAge) \/ r = Final(b, KeptAge(o.age, e))
    BY <2>1 DEF JudgeLB2
  <2>3. (\A k \in DOMAIN b : b[k] \in V) /\ b["A_arriving"] = Arriving(o.age, e)
    BY DEF Within, Arriving
  <2>4. \A k \in DOMAIN d : d[k] \in V
    OBVIOUS
  <2> HIDE DEF b, d
  <2>5. b[AgeName(check)] = AgeVerdict(check, o.age, e)
    BY <1>4, <2>3 DEF AgeName, AgeVerdict
  <2> QED BY <1>1, <1>2, <2>1, <2>2, <2>3, <2>4, <2>5
<1>5. CASE check = "composite"
  <2>1. r = JudgeComposite(o, e) /\ o.age \in Nat
    BY <1>5 DEF Judge, Measured
  <2> DEFINE b == Included(o, e)
             d == [A_included |-> "fail"]
  <2>2. \/ r = Row("error", NoSub, NoAge) \/ r = Final(d, NoAge) \/ r = Final(b, NoAge)
        \/ r = Final(b, KeptAge(o.age, e))
    BY <2>1 DEF JudgeComposite
  <2>3. (\A k \in DOMAIN b : b[k] \in V) /\ ("B_fresh" \in DOMAIN b => b["B_fresh"] = Contribution(o.age, e))
    BY DEF Included, Contribution, Within
  <2>4. \A k \in DOMAIN d : d[k] \in V
    OBVIOUS
  <2> HIDE DEF b, d
  <2>5. AgeName(check) \in DOMAIN b => b[AgeName(check)] = AgeVerdict(check, o.age, e)
    BY <1>5, <2>3 DEF AgeName, AgeVerdict
  <2> QED BY <1>1, <1>2, <2>1, <2>2, <2>3, <2>4, <2>5
<1>6. CASE check = "input"
  <2>1. r = JudgeInput(o, e, l.retention_s) /\ o.age \in Nat
    BY <1>6 DEF Judge, Measured
  <2> DEFINE p == [A_staged |-> "pass"]
             g == IF e.input_warn_s = NotThere THEN NoSub
                  ELSE [B_fresh |-> Within("pass", "warn", o.age, e.input_warn_s)]
             b == p ++ g
             d == [A_staged |-> "fail"]
  <2>2. \/ r = Row("error", NoSub, NoAge) \/ r = Final(d, NoAge)
        \/ r = Final(b, KeptAge(o.age, e))
    BY <2>1 DEF JudgeInput, Staged
  <2>3. /\ \A k \in DOMAIN g : g[k] \in V /\ g[k] = Within("pass", "warn", o.age, e.input_warn_s)
        /\ \A k \in DOMAIN p : p[k] \in V
        /\ "B_fresh" \notin DOMAIN p
    <3>1. CASE e.input_warn_s = NotThere
      <4>1. DOMAIN NoSub = {}
        BY DEF NoSub
      <4> QED BY <3>1, <4>1
    <3>2. CASE e.input_warn_s # NotThere
      <4> DEFINE x == [B_fresh |-> Within("pass", "warn", o.age, e.input_warn_s)]
      <4>1. g = x
        BY <3>2
      <4>2. \A k \in DOMAIN x : x[k] \in V /\ x[k] = Within("pass", "warn", o.age, e.input_warn_s)
        BY DEF Within
      <4> QED BY <4>1, <4>2
    <3> QED BY <3>1, <3>2
  <2> HIDE DEF p, g
  <2>4. /\ \A k \in DOMAIN b : b[k] \in V
        /\ "B_fresh" \in DOMAIN b => b["B_fresh"] = Within("pass", "warn", o.age, e.input_warn_s)
    BY <2>3, FirstOfBoth
  <2>5. \A k \in DOMAIN d : d[k] \in V
    OBVIOUS
  <2> HIDE DEF b, d
  <2>6. AgeName(check) \in DOMAIN b => b[AgeName(check)] = AgeVerdict(check, o.age, e)
    BY <1>6, <2>4 DEF AgeName, AgeVerdict
  <2> QED BY <1>1, <1>2, <2>1, <2>2, <2>4, <2>5, <2>6
<1>7. CASE check = "drops"
  <2>1. r = JudgeDrops(o, e) /\ o.age \in Nat
    BY <1>7 DEF Judge, Measured
  <2> DEFINE b == [folder |-> Within("pass", "warn", o.age, e.drops_s)]
             d == [folder |-> "warn"]
  <2>2. \/ r = Row("error", NoSub, NoAge) \/ r = Final(d, NoAge)
        \/ r = Final(b, KeptAge(o.age, e))
    BY <2>1 DEF JudgeDrops
  <2>3. (\A k \in DOMAIN b : b[k] \in V) /\ b["folder"] = Within("pass", "warn", o.age, e.drops_s)
    BY DEF Within
  <2>4. \A k \in DOMAIN d : d[k] \in V
    OBVIOUS
  <2> HIDE DEF b, d
  <2>5. b[AgeName(check)] = AgeVerdict(check, o.age, e)
    BY <1>7, <2>3 DEF AgeName, AgeVerdict
  <2> QED BY <1>1, <1>2, <2>1, <2>2, <2>3, <2>4, <2>5
<1> QED BY <1>3, <1>4, <1>5, <1>6, <1>7 DEF Check

\* The live check of a radar and its judgement again agree.
LEMMA RadarAgrees ==
  ASSUME NEW o \in Measured["L2"], NEW l \in Adjustable["L2"], NEW was, NEW r, r = JudgeL2(o, l, was),
         ~(o.age + o.took > Lower(l) /\ o.age <= Upper(l)),
         r.facts.verdict \in {"HEALTHY", "GHOST_UP"}, ~(r.facts.n <= 0), r.facts.last # NotThere
  PROVE  r.status = IF r.facts.last <= Upper(l) THEN "pass" ELSE "fail"
<1>a. \A s, b, f : Row(s, b, f).status = s /\ Row(s, b, f).sub = b /\ Row(s, b, f).facts = f
  BY DEF Row
<1>b. /\ o.age \in Nat \cup {NotThere} /\ o.took \in Nat /\ o.n \in Nat \cup {NotThere}
      /\ l.silent_fail_s \in Nat /\ l.hysteresis \in Nat
  BY DEF Measured, Adjustable
<1> DEFINE fresh == Fresh(o, l, was)
           v == RadarVerdict(o, fresh)
           last == IF o.age = NotThere THEN NotThere ELSE o.age + o.took
<1>1. CASE o.declared = "unavailable"
  <2>1. r.facts = [verdict |-> "none", n |-> NotThere, last |-> NotThere]
    BY <1>a, <1>1 DEF JudgeL2
  <2> QED BY <2>1
<1>2. CASE o.declared # "unavailable"
  <2>1. r = Row(_VERDICT_STATUS[v], NoSub, [verdict |-> v, n |-> o.n, last |-> last])
    BY <1>2 DEF JudgeL2
  <2> HIDE DEF v, last
  <2>2. /\ r.status = _VERDICT_STATUS[v] /\ v \in {"HEALTHY", "GHOST_UP"}
        /\ r.facts.last = last /\ last # NotThere /\ ~(o.n <= 0)
    BY <1>a, <2>1
  <2>3. o.age # NotThere /\ last = o.age + o.took /\ o.n > 0 /\ o.n # NotThere
    BY <1>b, <2>2 DEF last, NotThere
  <2>4. v = IF fresh THEN "HEALTHY" ELSE "GHOST_UP"
    <3> HIDE DEF fresh
    <3> QED BY <2>2 DEF v, RadarVerdict
  <2>5. fresh <=> last <= Upper(l)
    <3>1. fresh <=> o.age <= (IF was THEN Upper(l) ELSE Lower(l))
      BY <2>3 DEF Fresh
    <3>2. /\ o.age \in Nat /\ Upper(l) \in Int /\ Lower(l) \in Int /\ Lower(l) <= Upper(l)
      BY <1>b, <2>3 DEF Upper, Lower
    <3>3. o.age + o.took <= Lower(l) \/ o.age > Upper(l)
      BY <1>b, <3>2
    <3> HIDE DEF fresh
    <3> QED BY <1>b, <2>3, <3>1, <3>2, <3>3
  <2>6. _VERDICT_STATUS["HEALTHY"] = "pass" /\ _VERDICT_STATUS["GHOST_UP"] = "fail"
    BY DEF _VERDICT_STATUS
  <2> HIDE DEF fresh
  <2> QED BY <2>2, <2>4, <2>5, <2>6
<1> QED BY <1>1, <1>2

\* The recorded share of a colour saturates an image as the measured one does.
LEMMA PicturesAgree ==
  ASSUME NEW o \in Measured["L4"], o.got = "image", NEW l \in Adjustable["L4"], NEW frame,
         (o.fraction # 0 /\ o.fraction > l.extreme_threshold)
           = (Rounded(o.fraction) # 0 /\ Rounded(o.fraction) > l.extreme_threshold)
  PROVE  /\ JudgeL4(Pictured(o), l, frame).status = JudgeL4(o, l, frame).status
         /\ Pictured(o).got = o.got /\ Pictured(o).phash = o.phash /\ Pictured(o).source = o.source
<1>a. \A s, b, f : Row(s, b, f).status = s
  BY DEF Row
<1>1. PICK p : p = Pictured(o)
  OBVIOUS
<1>2. /\ p.got = o.got /\ p.phash = o.phash /\ p.source = o.source /\ p.coverage = o.coverage
      /\ p.speckle = o.speckle /\ p.fraction = Rounded(o.fraction)
  <2>1. o \in [got : {"image"}, fraction : Nat, coverage : Nat, phash : STRING, source : STRING,
               speckle : {"OK", "SPECKLE", "TOO_SPARSE"}]
          \cup [got : {"no_image"}]
    BY DEF Measured
  <2>2. o \notin [got : {"no_image"}]
    OBVIOUS
  <2>3. o = [got |-> o.got, fraction |-> o.fraction, coverage |-> o.coverage, phash |-> o.phash,
             source |-> o.source, speckle |-> o.speckle]
    BY <2>1, <2>2
  <2>4. p = [o EXCEPT !.fraction = Rounded(o.fraction)]
    BY <1>1 DEF Pictured
  <2> QED BY <2>3, <2>4
<1>3. Frozen(p, l, frame) = Frozen(o, l, frame)
  BY <1>2 DEF Frozen
<1>4. Extreme(p, l) \in OK_VERDICTS <=> Extreme(o, l) \in OK_VERDICTS
  <2>1. ASSUME NEW x
        PROVE  Extreme(x, l) \in OK_VERDICTS
                 <=> ~(x.fraction # 0 /\ x.fraction > l.extreme_threshold)
                       \/ x.coverage < l.frozen_min_cov
    <3>0. ~(0 > l.extreme_threshold)
      BY DEF Adjustable
    <3>1. CASE x.fraction = 0
      BY <3>0, <3>1 DEF Extreme, OK_VERDICTS
    <3>2. CASE x.fraction # 0 /\ x.fraction > l.extreme_threshold
      BY <3>2 DEF Extreme, OK_VERDICTS
    <3>3. CASE x.fraction # 0 /\ ~(x.fraction > l.extreme_threshold)
      BY <3>3 DEF Extreme, OK_VERDICTS
    <3> QED BY <3>1, <3>2, <3>3
  <2> QED BY <1>2, <2>1
<1>5. L4Status({Extreme(p, l), p.speckle, Frozen(p, l, frame)})
        = L4Status({Extreme(o, l), o.speckle, Frozen(o, l, frame)})
  <2> DEFINE St(v) == IF v \in OK_VERDICTS THEN "pass" ELSE "warn"
             A == {Extreme(p, l), p.speckle, Frozen(p, l, frame)}
             B == {Extreme(o, l), o.speckle, Frozen(o, l, frame)}
  <2>1. {St(v) : v \in A} = {St(Extreme(p, l)), St(p.speckle), St(Frozen(p, l, frame))}
    OBVIOUS
  <2>2. {St(v) : v \in B} = {St(Extreme(o, l)), St(o.speckle), St(Frozen(o, l, frame))}
    OBVIOUS
  <2>3. /\ St(Extreme(p, l)) = St(Extreme(o, l)) /\ St(p.speckle) = St(o.speckle)
        /\ St(Frozen(p, l, frame)) = St(Frozen(o, l, frame))
    BY <1>2, <1>3, <1>4
  <2>4. {St(v) : v \in A} = {St(v) : v \in B}
    <3> HIDE DEF St, A, B
    <3> QED BY <2>1, <2>2, <2>3
  <2> QED BY <2>4 DEF L4Status
<1>6. o.got # "no_image" /\ p.got # "no_image"
  BY <1>2
<1>7. /\ JudgeL4(p, l, frame) = Row(L4Status({Extreme(p, l), p.speckle, Frozen(p, l, frame)}), NoSub, Pictured(p))
      /\ JudgeL4(o, l, frame) = Row(L4Status({Extreme(o, l), o.speckle, Frozen(o, l, frame)}), NoSub, Pictured(o))
  BY <1>6 DEF JudgeL4
<1> QED BY <1>a, <1>1, <1>2, <1>5, <1>7

\* An image passes or is warned of.
LEMMA ImagesAreJudged ==
  ASSUME NEW o, NEW l, NEW frame, o.got # "no_image"
  PROVE  JudgeL4(o, l, frame).status \in {"pass", "warn"}
<1>1. PICK V : V = {Extreme(o, l), o.speckle, Frozen(o, l, frame)}
  OBVIOUS
<1>2. JudgeL4(o, l, frame).status = L4Status(V)
  BY <1>1 DEF JudgeL4, Row
<1> DEFINE S == {IF v \in OK_VERDICTS THEN "pass" ELSE "warn" : v \in V}
<1>3. /\ S \in SUBSET {"pass", "warn"} /\ S # {}
      /\ S \in SUBSET {"skip", "pass", "warn", "fail", "error"}
  BY <1>1
<1>4. L4Status(V) = worst_of(S)
  BY DEF L4Status
<1> HIDE DEF S
<1>5. worst_of(S) \in S
  BY <1>3, WorstIsOneOfThem
<1> QED BY <1>2, <1>3, <1>4, <1>5

LEMMA RecordedAgrees ==
  ASSUME check \in Check, check \in DOMAIN Observation,
         NEW o \in Observation[check], NEW l \in Limits[check], NEW m, NEW n, NEW row,
         NEW r, r = Judge(o, l, m),
         row = [status |-> r.status, sub |-> r.sub, facts |-> r.facts, obs |-> o,
                original |-> "none", live |-> r.status, under |-> l, known |-> n]
  PROVE  RowAgrees(check, row)
<1>1. /\ row.sub = r.sub /\ row.facts = r.facts /\ row.obs = o /\ row.live = r.status
      /\ row.under = l /\ row.status = r.status
  OBVIOUS
<1>2. o \in Measured[check] /\ l \in Adjustable[check]
  BY ReprocessAssumption
<1>a. \A s, b, f : Row(s, b, f).status = s /\ Row(s, b, f).sub = b /\ Row(s, b, f).facts = f
  BY DEF Row
<1>3. CASE check = "L1"
  <2>1. r = JudgeL1(o, l)
    BY <1>3 DEF Judge
  <2>2. RowSound(check, row)
    <3>1. r.status # "error" => Fine(check, r.sub)
      BY <1>2, <1>3, <2>1, ProductIsFine
    <3> QED BY <1>1, <1>3, <3>1 DEF RowSound, Untouched
  <2>3. ASSUME row.live \notin {"skip", "error"}, ~KeptApart(check, row) PROVE Agrees(check, row)
    <3>1. r.status # "error"
      BY <1>1, <2>3
    <3>2. o.got # "old_timeout" /\ ~(o.age <= l.max_freshness_s /\ l.max_freshness_s < o.age + o.took)
      BY <1>1, <1>3, <2>3 DEF KeptApart
    <3>3. ~r.facts.old_timeout /\ Worst(WithProduct(r.sub, r.facts, l)) = r.status
      BY <1>2, <1>3, <2>1, <3>1, <3>2, ProductAgrees
    <3> QED BY <1>1, <1>3, <3>3 DEF Agrees
  <2> QED BY <2>2, <2>3 DEF RowAgrees
<1>4. CASE check = "L2"
  <2>1. r = JudgeL2(o, l, m.fresh)
    BY <1>4 DEF Judge
  <2>2. RowSound(check, row)
    <3>1. r.sub = NoSub
      BY <1>a, <2>1 DEF JudgeL2
    <3>2. Fine("L2", NoSub)
      BY DEF Fine, NoSub
    <3> QED BY <1>1, <1>4, <3>1, <3>2 DEF RowSound, Untouched
  <2>3. ASSUME ~KeptApart(check, row) PROVE Agrees(check, row)
    <3>1. ~(o.age + o.took > Lower(l) /\ o.age <= Upper(l))
      BY <1>1, <1>4, <2>3 DEF KeptApart
    <3>2. r.facts.verdict \in {"HEALTHY", "GHOST_UP"} /\ ~(r.facts.n <= 0) /\ r.facts.last # NotThere
            => r.status = IF r.facts.last <= Upper(l) THEN "pass" ELSE "fail"
      BY <1>2, <1>4, <2>1, <3>1, RadarAgrees
    <3> QED BY <1>1, <1>4, <3>2 DEF Agrees
  <2> QED BY <2>2, <2>3 DEF RowAgrees
<1>5. CASE check = "L4"
  <2>1. r = JudgeL4(o, l, m.frame)
    BY <1>5 DEF Judge
  <2>2. r.sub = NoSub /\ (o.got = "no_image" => r.status = "skip")
          /\ (o.got # "no_image" => r.facts = Pictured(o))
    BY <1>a, <2>1 DEF JudgeL4
  <2>3. o.got # "no_image" => Pictured(o).got # "no_image"
    <3> SUFFICES ASSUME o.got # "no_image" PROVE Pictured(o).got # "no_image"
      OBVIOUS
    <3>1. o \in [got : {"image"}, fraction : Nat, coverage : Nat, phash : STRING, source : STRING,
                 speckle : {"OK", "SPECKLE", "TOO_SPARSE"}]
      BY <1>2, <1>5 DEF Measured
    <3> QED BY <3>1 DEF Pictured
  <2>4. Fine("L4", NoSub)
    BY DEF Fine, NoSub
  <2>5. RowSound(check, row)
    BY <1>1, <1>5, <2>2, <2>3, <2>4 DEF RowSound, Untouched
  <2> QED BY <1>5, <2>5 DEF RowAgrees, Agrees
<1>6. CASE check \notin {"L1", "L2", "L4"}
  <2> DEFINE name == AgeName(check)
  <2>e. PICK e : e = InEffect(l)
    OBVIOUS
  <2>1. /\ o.age \in Nat
        /\ \/ r.status = "error" /\ r.facts.age = NotThere
           \/ r.status = "fail" /\ r.sub = NoSub /\ r.facts.age = NotThere
           \/ /\ r.status = Worst(r.sub) /\ Fine(check, r.sub)
              /\ \/ r.facts.age = NotThere
                 \/ /\ r.facts.age = Rounded(o.age) /\ r.facts.limits = e
                    /\ name \in DOMAIN r.sub => r.sub[name] = AgeVerdict(check, o.age, e)
    BY <1>2, <1>6, <2>e, AgesRecorded
  <2>2. RowSound(check, row)
    <3>1. r.status # "error" => Fine(check, r.sub)
      <4>1. DOMAIN NoSub = {}
        BY DEF NoSub
      <4>2. Fine(check, NoSub)
        BY <1>6, <4>1 DEF Fine
      <4> QED BY <2>1, <4>2
    <3>2. r.facts.age # NotThere => DOMAIN r.facts.limits = DOMAIN l.standard
      BY <1>2, <1>6, <2>e, <2>1, InEffectFields
    <3> QED BY <1>1, <1>6, <3>1, <3>2 DEF RowSound, Untouched
  <2>3. ASSUME ~KeptApart(check, row), HeldTo(row, name, e)
        PROVE  Worst(WithAge(row.sub, name, AgeVerdict(check, row.facts.age, e))) = row.live
    <3>1. /\ r.status = Worst(r.sub) /\ r.facts.age = Rounded(o.age)
          /\ name \in DOMAIN r.sub => r.sub[name] = AgeVerdict(check, o.age, e)
      BY <1>1, <2>1, <2>3 DEF HeldTo
    <3>2. \A k \in DOMAIN e : e[k] \in Int
             => SameSide(o.age, e[k]) /\ (check = "LB2" => SameFourFifths(o.age, e[k]))
      BY <1>1, <1>6, <2>1, <2>e, <2>3, KeptTogether
    <3>3. AgeVerdict(check, Rounded(o.age), e) = AgeVerdict(check, o.age, e)
      BY <1>2, <1>6, <2>1, <2>e, <3>2, VerdictsTogether
    <3>4. Worst(WithAge(r.sub, name, AgeVerdict(check, Rounded(o.age), e))) = Worst(r.sub)
      <4> HIDE DEF name
      <4> QED BY <3>1, <3>3, AgeChangesNothing
    <3> QED BY <1>1, <3>1, <3>4
  <2> QED BY <1>1, <1>6, <2>e, <2>2, <2>3 DEF RowAgrees, Agrees
<1> QED BY <1>3, <1>4, <1>5, <1>6

\* A verdict put in the place of another.
LEMMA ResubPoints ==
  ASSUME NEW row, NEW name, NEW v, NEW t, t = Resub(row, name, v)
  PROVE  /\ DOMAIN t = DOMAIN row.sub
         /\ \A k \in DOMAIN row.sub : t[k] = IF k = name THEN v ELSE row.sub[k]
<1> DEFINE s == row.sub
<1>1. CASE name \in DOMAIN s
  <2>1. t = [s EXCEPT ![name] = v]
    BY <1>1 DEF Resub
  <2> HIDE DEF s
  <2>2. DOMAIN t = DOMAIN s /\ \A k \in DOMAIN s : t[k] = IF k = name THEN v ELSE s[k]
    BY <2>1
  <2> QED BY <2>2 DEF s
<1>2. CASE name \notin DOMAIN s
  BY <1>2 DEF Resub
<1> QED BY <1>1, <1>2

\* Judged again and again, the last time decides.
LEMMA AgeAgain ==
  ASSUME NEW s, NEW t, NEW name, NEW v, NEW w, DOMAIN t = DOMAIN s,
         \A k \in DOMAIN s : t[k] = IF k = name THEN w ELSE s[k]
  PROVE  Worst(WithAge(t, name, v)) = Worst(WithAge(s, name, v))
<1> DEFINE x == WithAge(t, name, v)
           y == WithAge(s, name, v)
<1>1. DOMAIN x = DOMAIN y /\ \A k \in DOMAIN x : x[k] = y[k]
  BY DEF WithAge
<1> HIDE DEF x, y
<1>2. Worst(x) = Worst(y)
  BY <1>1, SameWorst
<1> QED BY <1>2 DEF x, y

LEMMA ProductAgain ==
  ASSUME NEW s, NEW t, NEW f, NEW l, NEW u, DOMAIN t = DOMAIN s,
         \A k \in DOMAIN s : t[k] = WithProduct(s, f, l)[k]
  PROVE  Worst(WithProduct(t, f, u)) = Worst(WithProduct(s, f, u))
<1> DEFINE x == WithProduct(t, f, u)
           y == WithProduct(s, f, u)
<1>1. DOMAIN x = DOMAIN s /\ DOMAIN y = DOMAIN s
  BY DEF WithProduct
<1>2. ASSUME NEW k \in DOMAIN s PROVE x[k] = y[k]
  <2>1. CASE \/ k = "C_freshness" /\ f.last # NotThere
             \/ k = "D_cadence" /\ f.med # NotThere
             \/ k = "E_step_count"
             \/ k = "G_image_size" /\ f.bytes # NotThere
    BY <2>1 DEF WithProduct
  <2>2. CASE /\ ~(k = "C_freshness" /\ f.last # NotThere)
             /\ ~(k = "D_cadence" /\ f.med # NotThere)
             /\ k # "E_step_count"
             /\ ~(k = "G_image_size" /\ f.bytes # NotThere)
    <3>1. t[k] = s[k]
      BY <2>2 DEF WithProduct
    <3>2. x[k] = t[k]
      BY <2>2 DEF WithProduct
    <3>3. y[k] = s[k]
      BY <2>2 DEF WithProduct
    <3> QED BY <3>1, <3>2, <3>3
  <2> QED BY <2>1, <2>2
<1> HIDE DEF x, y
<1>3. Worst(x) = Worst(y)
  BY <1>1, <1>2, SameWorst
<1> QED BY <1>3 DEF x, y

\* The verdicts on a product are judged again one after another.
Refreshed(row, f, l) ==
  IF f.last = NotThere THEN row.sub
  ELSE Resub(row, "C_freshness", Within("pass", "fail", f.last, l.max_freshness_s))
Recadenced(s, f, l) ==
  IF f.med = NotThere THEN s ELSE Resub([sub |-> s], "D_cadence", CadenceVerdict(f.med, l))
Restepped(s, f, l) == Resub([sub |-> s], "E_step_count", StepVerdict(f.n, l))
Resized(s, f, l) ==
  IF f.bytes = NotThere THEN s
  ELSE Resub([sub |-> s], "G_image_size", IF f.bytes >= l.min_png_bytes THEN "pass" ELSE "warn")
ProductResub(row, f, l) ==
  Resized(Restepped(Recadenced(Refreshed(row, f, l), f, l), f, l), f, l)

LEMMA ProductPoints ==
  ASSUME NEW row, NEW f, NEW l, NEW t, t = ProductResub(row, f, l)
  PROVE  /\ DOMAIN t = DOMAIN row.sub
         /\ \A k \in DOMAIN row.sub : t[k] = WithProduct(row.sub, f, l)[k]
<1>a. \A z : [sub |-> z].sub = z
  OBVIOUS
<1> DEFINE s == row.sub
           vC == Within("pass", "fail", f.last, l.max_freshness_s)
           vD == CadenceVerdict(f.med, l)
           vE == StepVerdict(f.n, l)
           vG == IF f.bytes >= l.min_png_bytes THEN "pass" ELSE "warn"
<1>1. PICK s1 : s1 = Refreshed(row, f, l)
  OBVIOUS
<1>2. PICK s2 : s2 = Recadenced(s1, f, l)
  OBVIOUS
<1>3. PICK s3 : s3 = Restepped(s2, f, l)
  OBVIOUS
<1>4. t = Resized(s3, f, l)
  BY <1>1, <1>2, <1>3 DEF ProductResub
<1>5. /\ DOMAIN s1 = DOMAIN s
      /\ \A k \in DOMAIN s : s1[k] = IF k = "C_freshness" /\ f.last # NotThere THEN vC ELSE s[k]
  <2> HIDE DEF vC
  <2>1. CASE f.last = NotThere
    BY <1>1, <2>1 DEF Refreshed
  <2>2. CASE f.last # NotThere
    <3>1. s1 = Resub(row, "C_freshness", vC)
      BY <1>1, <2>2 DEF Refreshed, vC
    <3> QED BY <2>2, <3>1, ResubPoints
  <2> QED BY <2>1, <2>2
<1>6. /\ DOMAIN s2 = DOMAIN s1
      /\ \A k \in DOMAIN s1 : s2[k] = IF k = "D_cadence" /\ f.med # NotThere THEN vD ELSE s1[k]
  <2> HIDE DEF vD
  <2>1. CASE f.med = NotThere
    BY <1>2, <2>1 DEF Recadenced
  <2>2. CASE f.med # NotThere
    <3>1. s2 = Resub([sub |-> s1], "D_cadence", vD)
      BY <1>2, <2>2 DEF Recadenced, vD
    <3> QED BY <1>a, <2>2, <3>1, ResubPoints
  <2> QED BY <2>1, <2>2
<1>7. /\ DOMAIN s3 = DOMAIN s2
      /\ \A k \in DOMAIN s2 : s3[k] = IF k = "E_step_count" THEN vE ELSE s2[k]
  BY <1>a, <1>3, ResubPoints DEF Restepped
<1>8. /\ DOMAIN t = DOMAIN s3
      /\ \A k \in DOMAIN s3 : t[k] = IF k = "G_image_size" /\ f.bytes # NotThere THEN vG ELSE s3[k]
  <2> HIDE DEF vG
  <2>1. CASE f.bytes = NotThere
    BY <1>4, <2>1 DEF Resized
  <2>2. CASE f.bytes # NotThere
    <3>1. t = Resub([sub |-> s3], "G_image_size", vG)
      BY <1>4, <2>2 DEF Resized, vG
    <3> QED BY <1>a, <2>2, <3>1, ResubPoints
  <2> QED BY <2>1, <2>2
<1>9. \A k \in DOMAIN s :
        WithProduct(s, f, l)[k] =
          IF k = "C_freshness" /\ f.last # NotThere THEN vC
          ELSE IF k = "D_cadence" /\ f.med # NotThere THEN vD
          ELSE IF k = "E_step_count" THEN vE
          ELSE IF k = "G_image_size" /\ f.bytes # NotThere THEN vG ELSE s[k]
  BY DEF WithProduct
<1> HIDE DEF s, vC, vD, vE, vG
<1>10. DOMAIN t = DOMAIN s /\ \A k \in DOMAIN s : t[k] = WithProduct(s, f, l)[k]
  BY <1>5, <1>6, <1>7, <1>8, <1>9
<1> QED BY <1>10 DEF s

\* What is judged again still agrees.
LEMMA AgeJudgedAgain ==
  ASSUME check \in Check \ {"L1", "L2", "L4"}, NEW row, IsRow(row), RowAgrees(check, row),
         row.status \notin {"skip", "error"},
         NEW v \in {"pass", "warn", "fail"}, NEW l, NEW n, n = Now(l, row),
         NEW q, q = ReAged(row, AgeName(check), v, n)
  PROVE  RowAgrees(check, q) /\ SameRun(check, row, q)
<1>1. CASE ~HeldTo(row, AgeName(check), n)
  <2>1. q = row
    BY <1>1, ReAgedRow
  <2> QED BY <2>1 DEF SameRun
<1>2. CASE HeldTo(row, AgeName(check), n)
  <2> DEFINE name == AgeName(check)
  <2>1. /\ q.sub = Resub(row, name, v) /\ q.status = Worst(q.sub)
        /\ q.facts.age = row.facts.age /\ q.facts.limits = n
        /\ q.live = row.live /\ q.obs = row.obs
        /\ q.under = row.under /\ q.known = row.known
    BY <1>2, ReAgedRow
  <2>2. /\ DOMAIN q.sub = DOMAIN row.sub
        /\ \A k \in DOMAIN row.sub : q.sub[k] = IF k = name THEN v ELSE row.sub[k]
    <3> HIDE DEF name
    <3> QED BY <2>1, ResubPoints
  <2>3. KeptApart(check, q) = KeptApart(check, row)
    BY <2>1 DEF KeptApart
  <2>4. row.facts.age # NotThere /\ name \in DOMAIN row.sub /\ \A k \in DOMAIN n : n[k] # NotThere
    BY <1>2 DEF HeldTo
  <2>5. row.live \notin {"skip", "error"} /\ Fine(check, row.sub)
          /\ DOMAIN row.facts.limits = DOMAIN row.under.standard
    BY <2>4 DEF RowAgrees, RowSound
  <2>6. Fine(check, q.sub)
    <3> HIDE DEF name
    <3> QED BY <2>2, <2>5 DEF Fine
  <2>7. q.status \notin {"skip", "error"}
    BY <2>1, <2>6, FineIsJudged
  <2>8. DOMAIN n = DOMAIN row.under.standard
    BY <2>5 DEF Now, Over
  <2>9. RowSound(check, q)
    <3>1. Untouched(check, q)
      BY <2>1, <2>2, <2>4 DEF Untouched
    <3> HIDE DEF name
    <3> QED BY <2>1, <2>5, <2>6, <2>7, <2>8, <3>1 DEF RowSound
  <2>10. Agrees(check, row) => Agrees(check, q)
    <3> DEFINE e == InEffect(row.under)
               w == AgeVerdict(check, row.facts.age, e)
    <3>1. Worst(WithAge(q.sub, name, w)) = Worst(WithAge(row.sub, name, w))
      <4> HIDE DEF w, name
      <4> QED BY <2>2, AgeAgain
    <3>2. HeldTo(q, name, e) = HeldTo(row, name, e)
      <4> HIDE DEF e, name
      <4> QED BY <2>1, <2>2 DEF HeldTo
    <3> QED BY <2>1, <3>1, <3>2 DEF Agrees
  <2> QED BY <2>1, <2>3, <2>5, <2>9, <2>10 DEF RowAgrees, SameRun
<1> QED BY <1>1, <1>2

LEMMA JudgedAgainAgrees ==
  ASSUME check \in Check, NEW row, RowKept(check, row), RowAgrees(check, row), NEW l, NEW frame,
         NEW q, q = Reverdict(row, l, frame)
  PROVE  RowAgrees(check, q) /\ SameRun(check, row, q)
<1>a. IsRow(row)
  BY DEF RowKept
<1>1. CASE row.status \in {"skip", "error"}
  <2>1. q = row
    BY <1>1 DEF Reverdict
  <2> QED BY <2>1 DEF SameRun
<1>2. CASE row.status \notin {"skip", "error"} /\ check = "L1"
  <2>1. q = _reverdict_l1(row, l)
    BY <1>2 DEF Reverdict
  <2>2. CASE row.facts.old_timeout
    <3>1. q = WithStatus(row, "error", Original(row))
      BY <2>1, <2>2 DEF _reverdict_l1, WithStatus
    <3>2. /\ q.sub = row.sub /\ q.facts = row.facts /\ q.live = row.live /\ q.obs = row.obs
          /\ q.under = row.under /\ q.known = row.known
      BY <1>a, <3>1, ReplacedStatus
    <3>3. KeptApart(check, q) = KeptApart(check, row)
      BY <3>2 DEF KeptApart
    <3>4. Agrees(check, q) = Agrees(check, row)
      BY <1>2, <3>2 DEF Agrees
    <3>5. row.obs.got = "old_timeout"
      BY <1>2, <2>2 DEF RowKept, FirstVerdict
    <3>6. q.status = "error" /\ row.live \notin {"skip", "error"}
      BY <1>2, <1>a, <3>1, ReplacedStatus DEF RowAgrees, RowSound
    <3>7. RowSound(check, q)
      BY <1>2, <3>2, <3>5, <3>6 DEF RowAgrees, RowSound, Untouched
    <3> QED BY <3>2, <3>3, <3>4, <3>7 DEF RowAgrees, SameRun
  <2>3. CASE ~row.facts.old_timeout
    <3> DEFINE b == ProductResub(row, row.facts, l)
    <3>1. q = WithSub(row, b, Worst(b))
      BY <2>1, <2>3 DEF _reverdict_l1, Rejudged, WithSub, ProductResub, Refreshed, Recadenced,
                        Restepped, Resized
    <3>2. /\ DOMAIN b = DOMAIN row.sub
          /\ \A k \in DOMAIN row.sub : b[k] = WithProduct(row.sub, row.facts, l)[k]
      BY ProductPoints
    <3> HIDE DEF b
    <3>3. /\ q.sub = b /\ q.facts = row.facts /\ q.live = row.live /\ q.obs = row.obs
          /\ q.under = row.under /\ q.known = row.known
      BY <1>a, <3>1, ReplacedSub
    <3>4. KeptApart(check, q) = KeptApart(check, row)
      BY <3>3 DEF KeptApart
    <3>5. Worst(WithProduct(b, row.facts, row.under))
            = Worst(WithProduct(row.sub, row.facts, row.under))
      BY <3>2, ProductAgain
    <3>6. Agrees(check, row) => Agrees(check, q)
      BY <1>2, <3>3, <3>5 DEF Agrees
    <3>7. row.live \notin {"skip", "error"} /\ Fine("L1", row.sub)
      BY <1>2 DEF RowAgrees, RowSound
    <3>8. Fine("L1", b)
      <4> DEFINE s == row.sub
      <4>1. Fine("L1", s) /\ DOMAIN b = DOMAIN s
            /\ \A k \in DOMAIN s : b[k] = WithProduct(s, row.facts, l)[k]
        BY <3>2, <3>7
      <4> HIDE DEF s
      <4>2. WithProduct(s, row.facts, l)["A_api_up"] = s["A_api_up"]
        BY <4>1 DEF WithProduct, Fine
      <4>3. \A k \in DOMAIN s : WithProduct(s, row.facts, l)[k] \in {"skip", "pass", "warn", "fail"}
        BY <4>1 DEF WithProduct, Fine, Within, CadenceVerdict, StepVerdict
      <4> QED BY <4>1, <4>2, <4>3 DEF Fine
    <3>9. q.status \notin {"skip", "error"}
      <4>1. q.status = Worst(b)
        BY <1>a, <3>1, ReplacedSub
      <4> QED BY <1>2, <3>8, <4>1, FineIsJudged
    <3>10. RowSound(check, q)
      BY <1>2, <3>3, <3>7, <3>8, <3>9 DEF RowSound, Untouched
    <3> QED BY <3>3, <3>4, <3>6, <3>10 DEF RowAgrees, SameRun
  <2> QED BY <2>2, <2>3
<1>3. CASE row.status \notin {"skip", "error"} /\ check = "L2"
  <2>1. q = _reverdict_l2(row, l)
    BY <1>3 DEF Reverdict
  <2> DEFINE fresh == row.facts.last <= Upper(l)
             v == IF fresh THEN "HEALTHY" ELSE "GHOST_UP"
             s == IF fresh THEN "pass" ELSE "fail"
  <2>2. CASE q = row
    BY <2>2 DEF SameRun
  <2>3. CASE q # row
    <3>1. /\ q = WithVerdict(row, v, s, Original(row))
          /\ row.facts.verdict \in {"HEALTHY", "GHOST_UP"}
          /\ ~(row.facts.n <= 0) /\ row.facts.last # NotThere
      BY <2>1, <2>3 DEF _reverdict_l2, WithVerdict
    <3>a. v \in {"HEALTHY", "GHOST_UP"} /\ s \in {"pass", "fail"}
      OBVIOUS
    <3>2. row.facts = [verdict |-> row.facts.verdict, n |-> row.facts.n, last |-> row.facts.last]
      BY <1>3 DEF RowKept, Stoppage
    <3> HIDE DEF v, s, fresh
    <3>3. /\ q.facts = [verdict |-> v, n |-> row.facts.n, last |-> row.facts.last]
          /\ q.live = row.live /\ q.obs = row.obs /\ q.under = row.under /\ q.known = row.known
          /\ q.sub = row.sub /\ q.status = s
      BY <1>a, <3>1, <3>2, ReplacedVerdict
    <3>4. KeptApart(check, q) = KeptApart(check, row)
      BY <3>3 DEF KeptApart
    <3>5. q.facts.n = row.facts.n /\ q.facts.last = row.facts.last
      BY <3>3
    <3>6. Agrees(check, row) => Agrees(check, q)
      BY <1>3, <3>1, <3>3, <3>5 DEF Agrees
    <3>7. q.facts.verdict = v
      BY <3>3
    <3>8. Untouched(check, q)
      BY <1>3, <3>1, <3>5, <3>7, <3>a DEF Untouched
    <3>9. RowSound(check, q)
      BY <1>3, <3>3, <3>8, <3>a DEF RowAgrees, RowSound
    <3> QED BY <1>3, <3>3, <3>4, <3>6, <3>9 DEF RowAgrees, SameRun
  <2> QED BY <2>2, <2>3
<1>4. CASE row.status \notin {"skip", "error"} /\ check = "L4"
  <2> DEFINE s == JudgeL4(row.facts, l, frame).status
  <2>1. q = WithStatus(row, s, Original(row))
    BY <1>4 DEF Reverdict, _reverdict_l4, WithStatus
  <2> HIDE DEF s
  <2>2. /\ q.facts = row.facts /\ q.live = row.live /\ q.under = row.under /\ q.known = row.known
        /\ q.obs = row.obs /\ q.sub = row.sub /\ q.status = s
    BY <1>a, <2>1, ReplacedStatus
  <2>3. row.live \notin {"skip", "error"} /\ row.facts.got # "no_image"
    BY <1>4 DEF RowAgrees, RowSound
  <2>4. s \in {"pass", "warn"}
    BY <2>3, ImagesAreJudged DEF s
  <2>5. RowSound(check, q)
    BY <1>4, <2>2, <2>3, <2>4 DEF RowAgrees, RowSound, Untouched
  <2> QED BY <1>4, <2>2, <2>5 DEF RowAgrees, Agrees, SameRun
<1>5. CASE row.status \notin {"skip", "error"} /\ check \notin {"L1", "L2", "L4"}
  <2>1. PICK n, v : /\ n = Now(l, row) /\ v = AgeVerdict(check, row.facts.age, n)
    OBVIOUS
  <2>2. q = ReAged(row, AgeName(check), v, n)
    BY <1>5, <2>1, AgeReverdict
  <2>3. v \in {"pass", "warn", "fail"}
    BY <1>5, <2>1, AgeVerdictIs
  <2> QED BY <1>a, <1>5, <2>1, <2>2, <2>3, AgeJudgedAgain
<1> QED BY <1>1, <1>2, <1>3, <1>4, <1>5

\* The frame before a row is that before the row before it, or the row's before it.
LEMMA TrailGoesOn ==
  ASSUME NEW rs, NEW from \in Nat, NEW i \in Nat, from <= i
  PROVE  TrailOf(rs, from, i + 1) = Advanced(TrailOf(rs, from, i), rs[i].facts)
<1>1. from..((i + 1) - 1) = (from..(i - 1)) \cup {i} /\ \A k \in from..(i - 1) : k <= i
  OBVIOUS
<1>2. CASE rs[i].facts.got = "no_image"
  <2>1. SeenFrom(rs, from, i + 1) = SeenFrom(rs, from, i)
    BY <1>1, <1>2 DEF SeenFrom
  <2> QED BY <1>2, <2>1 DEF TrailOf, Advanced
<1>3. CASE rs[i].facts.got # "no_image"
  <2>1. SeenFrom(rs, from, i + 1) = SeenFrom(rs, from, i) \cup {i}
    BY <1>1, <1>3 DEF SeenFrom
  <2> DEFINE S == SeenFrom(rs, from, i + 1)
  <2>2. i \in S /\ \A k \in S : k <= i
    <3>1. SeenFrom(rs, from, i) \subseteq from..(i - 1)
      BY DEF SeenFrom
    <3> QED BY <1>1, <2>1, <3>1
  <2>3. S \subseteq Int
    BY DEF SeenFrom
  <2> HIDE DEF S
  <2>4. ASSUME NEW j \in S, \A k \in S : k <= j PROVE j = i
    <3>1. i <= j /\ j <= i /\ j \in Int
      BY <2>2, <2>3, <2>4
    <3> QED BY <3>1
  <2>5. (CHOOSE j \in S : \A k \in S : k <= j) = i
    BY <2>2, <2>4
  <2>6. TrailOf(rs, from, i + 1) = Advanced(NoFrame, rs[i].facts)
    BY <2>2, <2>5 DEF TrailOf, S
  <2> QED BY <1>3, <2>6 DEF Advanced
<1> QED BY <1>2, <1>3

\* It is of the rows before, as they are.
LEMMA TrailOfTheSame ==
  ASSUME NEW rs, NEW ss, NEW from \in Nat, NEW i \in Nat,
         \A j \in from..(i - 1) : ss[j].facts = rs[j].facts
  PROVE  TrailOf(ss, from, i) = TrailOf(rs, from, i)
<1> DEFINE S == SeenFrom(rs, from, i)
<1>1. SeenFrom(ss, from, i) = S
  BY DEF SeenFrom
<1>2. S \subseteq from..(i - 1)
  BY DEF SeenFrom
<1> HIDE DEF S
<1>3. CASE S = {}
  BY <1>1, <1>3 DEF TrailOf, S
<1>4. CASE S # {}
  <2>1. S \in SUBSET Int /\ \A s \in S : s <= i
    BY <1>2
  <2>2. Max(S) \in S /\ \A s \in S : s <= Max(S)
    BY <1>4, <2>1, LastMomentOf
  <2> DEFINE last == CHOOSE j \in S : \A k \in S : k <= j
  <2>3. last \in S
    BY <2>2
  <2> HIDE DEF last
  <2>4. TrailOf(ss, from, i) = Advanced(NoFrame, ss[last].facts)
    BY <1>1, <1>4 DEF TrailOf, last
  <2>5. TrailOf(rs, from, i) = Advanced(NoFrame, rs[last].facts)
    BY <1>4 DEF TrailOf, S, last
  <2> QED BY <1>2, <2>3, <2>4, <2>5
<1> QED BY <1>3, <1>4

\* It is the same from the beginning, once there is one.
LEMMA TrailFromBefore ==
  ASSUME NEW rs, NEW from \in Nat, 1 <= from, NEW i \in Nat, TrailOf(rs, from, i) # NoFrame
  PROVE  TrailOf(rs, 1, i) = TrailOf(rs, from, i)
<1> DEFINE S == SeenFrom(rs, from, i)
           T == SeenFrom(rs, 1, i)
<1>1. S # {}
  BY DEF TrailOf
<1>2. /\ S \subseteq T /\ T \subseteq 1..(i - 1)
      /\ \A k \in T : k \in S \/ k < from
  BY DEF SeenFrom
<1>a. S \subseteq from..(i - 1)
  BY DEF SeenFrom
<1> HIDE DEF S, T
<1>3. S \in SUBSET Int /\ \A k \in S : from <= k /\ k <= i
  BY <1>a
<1>4. Max(S) \in S /\ \A k \in S : k <= Max(S)
  <2>1. i \in Int /\ \A k \in S : k <= i
    BY <1>3
  <2> QED BY <1>1, <1>3, <2>1, LastMomentOf
<1> DEFINE m == Max(S)
<1>5. m \in S /\ m \in T /\ m \in Int /\ from <= m
  BY <1>2, <1>3, <1>4
<1> HIDE DEF m
<1>6. \A k \in S : k <= m
  BY <1>4 DEF m
<1>7. \A k \in T : k <= m
  <2> SUFFICES ASSUME NEW k \in T PROVE k <= m
    OBVIOUS
  <2>1. CASE k \in S
    BY <1>6, <2>1
  <2>2. CASE k < from
    <3>1. k \in Int
      BY <1>2
    <3> QED BY <1>5, <2>2, <3>1
  <2> QED BY <1>2, <2>1, <2>2
<1>8. ASSUME NEW U \in SUBSET Int, m \in U, \A k \in U : k <= m
      PROVE  (CHOOSE j \in U : \A k \in U : k <= j) = m
  <2>1. \A j \in U : (\A k \in U : k <= j) => j = m
    <3> SUFFICES ASSUME NEW j \in U, \A k \in U : k <= j PROVE j = m
      OBVIOUS
    <3>1. m <= j /\ j <= m /\ j \in Int /\ m \in Int
      BY <1>8
    <3> QED BY <3>1
  <2> QED BY <1>8, <2>1
<1>9. S \in SUBSET Int /\ T \in SUBSET Int
  BY <1>2
<1>10. /\ (CHOOSE j \in S : \A k \in S : k <= j) = m
       /\ (CHOOSE j \in T : \A k \in T : k <= j) = m
  BY <1>5, <1>6, <1>7, <1>8, <1>9
<1>11. TrailOf(rs, from, i) = Advanced(NoFrame, rs[m].facts)
  BY <1>1, <1>10 DEF TrailOf, S
<1>12. TrailOf(rs, 1, i) = Advanced(NoFrame, rs[m].facts)
  BY <1>5, <1>10 DEF TrailOf, T
<1> QED BY <1>11, <1>12

\* Unless a job held the row to another limit, it is held to what was in effect.
LEMMA NowIsInEffect ==
  ASSUME NEW c \in Check \ {"L1", "L2", "L4"}, NEW row, row.facts.age # NotThere,
         DOMAIN row.facts.limits = DOMAIN row.under.standard, ~HeldToAnother(c, row)
  PROVE  Now(row.under, row) = InEffect(row.under)
<1> DEFINE d == row.under.standard
           u == row.under
           g == row.facts.limits
<1>1. \A k \in DOMAIN d : u[k] = NotThere => g[k] = d[k]
  BY DEF HeldToAnother
<1>2. Now(row.under, row) = [k \in DOMAIN g |-> IF u[k] = NotThere THEN g[k] ELSE u[k]]
  BY DEF Now, Over
<1>3. InEffect(row.under) = [k \in DOMAIN d |-> IF u[k] = NotThere THEN d[k] ELSE u[k]]
  BY DEF InEffect, Over
<1>4. DOMAIN g = DOMAIN d
  OBVIOUS
<1> HIDE DEF d, u, g
<1> QED BY <1>1, <1>2, <1>3, <1>4

\* A row that agrees is judged again to what it is.
LEMMA AgreedVerdict ==
  ASSUME check \in Check, NEW row, IsRow(row), row.status \notin {"skip", "error"},
         RowAgrees(check, row), ~KeptApart(check, row), ~HeldToAnother(check, row), NEW frame,
         check = "L4" => JudgeL4(row.facts, row.under, frame).status = row.live,
         NEW q, q = Reverdict(row, row.under, frame)
  PROVE  q.status = row.live
<1> DEFINE l == row.under
<1>0. Agrees(check, row) /\ Untouched(check, row) /\ RowSound(check, row)
  BY DEF RowAgrees, RowSound
<1>1. CASE check = "L1"
  <2> DEFINE b == ProductResub(row, row.facts, l)
  <2>1. ~row.facts.old_timeout /\ Worst(WithProduct(row.sub, row.facts, l)) = row.live
    BY <1>0, <1>1 DEF Agrees
  <2>2. q = WithSub(row, b, Worst(b))
    BY <1>1, <2>1 DEF Reverdict, _reverdict_l1, Rejudged, WithSub, ProductResub, Refreshed,
                      Recadenced, Restepped, Resized
  <2>3. /\ DOMAIN b = DOMAIN row.sub
        /\ \A k \in DOMAIN row.sub : b[k] = WithProduct(row.sub, row.facts, l)[k]
    BY ProductPoints
  <2> DEFINE t == WithProduct(row.sub, row.facts, l)
  <2>4. DOMAIN t = DOMAIN row.sub
    BY DEF WithProduct
  <2> HIDE DEF b, t
  <2>5. Worst(b) = Worst(t)
    BY <2>3, <2>4, SameWorst DEF t
  <2>6. q.status = Worst(b)
    BY <2>2, ReplacedSub
  <2> QED BY <2>1, <2>5, <2>6 DEF t
<1>2. CASE check = "L2"
  <2> DEFINE fresh == row.facts.last <= Upper(l)
             v == IF fresh THEN "HEALTHY" ELSE "GHOST_UP"
             s == IF fresh THEN "pass" ELSE "fail"
  <2>1. q = _reverdict_l2(row, l)
    BY <1>2 DEF Reverdict
  <2>2. CASE \/ row.facts.verdict \notin {"HEALTHY", "GHOST_UP"} \/ row.facts.n <= 0
             \/ row.facts.last = NotThere
    BY <1>0, <1>2, <2>1, <2>2 DEF _reverdict_l2, Untouched
  <2>3. CASE /\ row.facts.verdict \in {"HEALTHY", "GHOST_UP"} /\ ~(row.facts.n <= 0)
             /\ row.facts.last # NotThere
    <3>1. q = WithVerdict(row, v, s, Original(row))
      BY <2>1, <2>3 DEF _reverdict_l2, WithVerdict
    <3>2. q.status = s
      <4> HIDE DEF v, s, fresh
      <4>1. PICK f : f = [row.facts EXCEPT !.verdict = v]
        OBVIOUS
      <4>2. q = [row EXCEPT !.facts = f, !.status = s, !.original = Original(row)]
        BY <3>1, <4>1 DEF IsRow, WithVerdict
      <4>3. q = [status |-> s, sub |-> row.sub, facts |-> f, original |-> Original(row),
                 live |-> row.live, obs |-> row.obs, under |-> row.under, known |-> row.known]
        BY <4>2 DEF IsRow
      <4> QED BY <4>3
    <3>3. row.live = s
      BY <1>0, <1>2, <2>3 DEF Agrees
    <3> QED BY <3>2, <3>3
  <2> QED BY <2>2, <2>3
<1>3. CASE check = "L4"
  <2> DEFINE s == JudgeL4(row.facts, row.under, frame).status
  <2>1. q = WithStatus(row, s, Original(row))
    BY <1>3 DEF Reverdict, _reverdict_l4, WithStatus
  <2>2. s = row.live
    BY <1>3
  <2> HIDE DEF s
  <2> QED BY <2>1, <2>2, ReplacedStatus
<1>4. CASE check \notin {"L1", "L2", "L4"}
  <2> DEFINE name == AgeName(check)
  <2>1. PICK n, v : n = Now(l, row) /\ v = AgeVerdict(check, row.facts.age, n)
    OBVIOUS
  <2>2. q = ReAged(row, name, v, n)
    BY <1>4, <2>1, AgeReverdict
  <2>3. CASE HeldTo(row, name, n)
    <3>1. row.facts.age # NotThere /\ DOMAIN row.facts.limits = DOMAIN row.under.standard
      BY <1>0, <1>4, <2>3 DEF RowSound, HeldTo
    <3>2. n = InEffect(row.under)
      BY <1>4, <2>1, <3>1, NowIsInEffect
    <3>3. Worst(WithAge(row.sub, name, v)) = row.live
      BY <1>0, <1>4, <2>1, <2>3, <3>2 DEF Agrees
    <3> DEFINE b == Resub(row, name, v)
               t == WithAge(row.sub, name, v)
    <3> HIDE DEF name
    <3>4. /\ DOMAIN b = DOMAIN row.sub
          /\ \A k \in DOMAIN row.sub : b[k] = IF k = name THEN v ELSE row.sub[k]
      BY ResubPoints
    <3>5. /\ DOMAIN t = DOMAIN row.sub
          /\ \A k \in DOMAIN row.sub : t[k] = IF k = name THEN v ELSE row.sub[k]
      BY DEF WithAge
    <3>6. q.status = Worst(b)
      BY <2>2, <2>3, ReAgedRow
    <3> HIDE DEF b, t
    <3>7. Worst(b) = Worst(t)
      BY <3>4, <3>5, SameWorst
    <3> QED BY <3>3, <3>6, <3>7 DEF t
  <2>4. CASE ~HeldTo(row, name, n)
    <3>1. q = row
      BY <2>2, <2>4, ReAgedRow
    <3>2. \/ row.facts.age = NotThere \/ name \notin DOMAIN row.sub
          \/ \E k \in DOMAIN row.facts.limits : row.facts.limits[k] = NotThere
      <4> SUFFICES ASSUME row.facts.age # NotThere, NEW k \in DOMAIN n, n[k] = NotThere
                   PROVE  \E x \in DOMAIN row.facts.limits : row.facts.limits[x] = NotThere
        BY <2>4 DEF HeldTo
      <4> DEFINE g == row.facts.limits
      <4>1. n = [x \in DOMAIN g |-> IF l[x] = NotThere THEN g[x] ELSE l[x]]
        BY <2>1 DEF Now, Over
      <4> HIDE DEF g
      <4>2. k \in DOMAIN g /\ g[k] = NotThere
        BY <4>1
      <4> QED BY <4>2 DEF g
    <3>3. row.status = row.live
      BY <1>0, <1>4, <3>2 DEF Untouched
    <3> QED BY <3>1, <3>3
  <2> QED BY <2>3, <2>4
<1> QED BY <1>1, <1>2, <1>3, <1>4

\* What a check has in memory after a run.
WithFrame(m, frame, known) == [m EXCEPT !.frame = frame, !.known = known]

LEMMA MemoryAfter ==
  ASSUME NEW m, m = [fresh |-> m.fresh, frame |-> m.frame, known |-> m.known],
         NEW o, NEW l, NEW q, q = Remembered(o, l, m)
  PROVE  /\ q = [fresh |-> q.fresh, frame |-> q.frame, known |-> q.known]
         /\ check = "L4" => /\ q.frame = Advanced(m.frame, o)
                            /\ q.known => o.got # "no_image" \/ m.known
<1>1. CASE check = "L4"
  <2>1. PICK f : f = Advanced(m.frame, o)
    OBVIOUS
  <2>2. PICK k : k = (o.got # "no_image" \/ m.known)
    OBVIOUS
  <2>3. q = WithFrame(m, f, k)
    BY <1>1, <2>1, <2>2 DEF Remembered, WithFrame
  <2>4. q = [fresh |-> m.fresh, frame |-> f, known |-> k]
    BY <2>3 DEF WithFrame
  <2>5. /\ q.frame = f /\ q.known = k
        /\ q = [fresh |-> q.fresh, frame |-> q.frame, known |-> q.known]
    BY <2>4
  <2> QED BY <2>1, <2>2, <2>5, Zenon
<1>2. CASE check # "L4"
  <2>1. q = m \/ q = [m EXCEPT !.fresh = Fresh(o, l, m.fresh)]
    BY <1>2 DEF Remembered
  <2> QED BY <1>2, <2>1
<1> QED BY <1>1, <1>2

\* What an image keeps is of the same frame, and decides the same.
LEMMA ImageRecorded ==
  ASSUME NEW o \in Measured["L4"], NEW l \in Adjustable["L4"], NEW frame,
         NEW r, r = JudgeL4(o, l, frame)
  PROVE  /\ \A x : Advanced(x, r.facts) = Advanced(x, o)
         /\ ~(/\ o.got = "image"
              /\ (o.fraction # 0 /\ o.fraction > l.extreme_threshold)
                   # (Rounded(o.fraction) # 0 /\ Rounded(o.fraction) > l.extreme_threshold))
              => JudgeL4(r.facts, l, frame).status = r.status
<1>a. \A s, b, f : Row(s, b, f).facts = f /\ Row(s, b, f).status = s
  BY DEF Row
<1>1. CASE o.got = "no_image"
  <2>1. r = Row("skip", NoSub, o)
    BY <1>1 DEF JudgeL4
  <2>2. r.facts = o /\ r.status = "skip"
    BY <1>a, <2>1
  <2>3. JudgeL4(o, l, frame).status = r.status
    OBVIOUS
  <2> QED BY <2>2, <2>3
<1>2. CASE o.got # "no_image"
  <2>1. o.got = "image" /\ o \in [got : {"image"}, fraction : Nat, coverage : Nat, phash : STRING,
                                  source : STRING, speckle : {"OK", "SPECKLE", "TOO_SPARSE"}]
    BY <1>2 DEF Measured
  <2>2. PICK p : p = Pictured(o)
    OBVIOUS
  <2>3. r.facts = p
    BY <1>2, <1>a, <2>2 DEF JudgeL4
  <2>4. p.got = o.got /\ p.phash = o.phash /\ p.source = o.source
    <3>1. o = [got |-> o.got, fraction |-> o.fraction, coverage |-> o.coverage, phash |-> o.phash,
               source |-> o.source, speckle |-> o.speckle]
      BY <2>1
    <3>2. p = [o EXCEPT !.fraction = Rounded(o.fraction)]
      BY <2>2 DEF Pictured
    <3> QED BY <3>1, <3>2
  <2>5. \A x : Advanced(x, p) = Advanced(x, o)
    BY <2>4 DEF Advanced
  <2>6. CASE (o.fraction # 0 /\ o.fraction > l.extreme_threshold)
               = (Rounded(o.fraction) # 0 /\ Rounded(o.fraction) > l.extreme_threshold)
    BY <2>1, <2>2, <2>3, <2>5, <2>6, PicturesAgree
  <2>7. CASE (o.fraction # 0 /\ o.fraction > l.extreme_threshold)
               # (Rounded(o.fraction) # 0 /\ Rounded(o.fraction) > l.extreme_threshold)
    BY <2>1, <2>3, <2>5, <2>7
  <2> QED BY <2>6, <2>7
<1> QED BY <1>1, <1>2

\* The frame of a window: none before it, and one row further with each.
LEMMA FrameOfTheSame ==
  ASSUME NEW c, NEW rs, NEW ss, NEW from \in Nat, NEW i \in Nat,
         c = "L4" => \A j \in from..(i - 1) : ss[j].facts = rs[j].facts
  PROVE  FrameAt(c, ss, from, i) = FrameAt(c, rs, from, i)
<1>1. CASE c = "L4"
  BY <1>1, TrailOfTheSame DEF FrameAt
<1>2. CASE c # "L4"
  BY <1>2 DEF FrameAt
<1> QED BY <1>1, <1>2

LEMMA FrameGoesOn ==
  ASSUME NEW rs, NEW from \in Nat, NEW i \in Nat, from <= i
  PROVE  FrameAt(check, rs, from, i + 1) = Trail(FrameAt(check, rs, from, i), rs[i])
<1>1. CASE check = "L4"
  BY <1>1, TrailGoesOn DEF FrameAt, Trail
<1>2. CASE check # "L4"
  BY <1>2 DEF FrameAt, Trail
<1> QED BY <1>1, <1>2

LEMMA FrameBegins ==
  ASSUME NEW c, NEW rs, NEW from \in Nat
  PROVE  FrameAt(c, rs, from, from) = NoFrame
<1>1. from..(from - 1) = {}
  OBVIOUS
<1> QED BY <1>1 DEF FrameAt, TrailOf, SeenFrom

\* What a job read is of the rows that are there, whatever is written over them or added.
LEMMA WalkStands ==
  ASSUME NEW c, NEW w, NEW rs, NEW ss, WalkAgrees(c, w, rs),
         Len(rs) \in Nat, Len(ss) \in Nat, Len(rs) <= Len(ss),
         \A i \in 1..Len(rs) : SameRun(c, rs[i], ss[i])
  PROVE  WalkAgrees(c, w, ss)
<1>1. /\ w.upto \in Nat /\ w.upto <= Len(rs)
      /\ \A i \in 1..w.upto : RowAgrees(c, w.read[i]) /\ SameRun(c, rs[i], w.read[i])
      /\ \A i \in DOMAIN w.updates :
           i \in 1..w.upto /\ RowAgrees(c, w.updates[i]) /\ SameRun(c, rs[i], w.updates[i])
  BY DEF WalkAgrees
<1>2. ASSUME NEW a, NEW b, NEW d, SameRun(c, a, b), SameRun(c, a, d) PROVE SameRun(c, d, b)
  BY <1>2 DEF SameRun
<1>3. w.upto <= Len(ss) /\ \A i \in 1..w.upto : i \in 1..Len(rs)
  BY <1>1
<1>4. ASSUME NEW i \in 1..w.upto PROVE SameRun(c, ss[i], w.read[i])
  BY <1>1, <1>2, <1>3
<1>5. ASSUME NEW i \in DOMAIN w.updates PROVE SameRun(c, ss[i], w.updates[i])
  BY <1>1, <1>2, <1>3
<1> QED BY <1>1, <1>3, <1>4, <1>5 DEF WalkAgrees

\* A job that writes marks the others, and takes them nowhere else.
LEMMA MarkedWalk ==
  ASSUME NEW c, NEW w, NEW v,
         v = Walk(w.from, w.at, w.upto, w.read, w.frame, w.updates, w.under, TRUE)
  PROVE  /\ \A rs : WalkAgrees(c, w, rs) => WalkAgrees(c, v, rs)
         /\ WalkIsAt(c, w) => WalkIsAt(c, v)
<1>1. /\ v.from = w.from /\ v.at = w.at /\ v.upto = w.upto /\ v.read = w.read
      /\ v.frame = w.frame /\ v.updates = w.updates
  BY DEF Walk
<1>2. ASSUME NEW rs, WalkAgrees(c, w, rs) PROVE WalkAgrees(c, v, rs)
  BY <1>1, <1>2 DEF WalkAgrees
<1>3. ASSUME WalkIsAt(c, w) PROVE WalkIsAt(c, v)
  BY <1>1, <1>3 DEF WalkIsAt
<1> QED BY <1>2, <1>3

\* Where the rows stay, so does what they agree with.
LEMMA AgreementRests ==
  ASSUME InStepInv, HistoryInv', UNCHANGED <<check, rows>>, lim' \in Limits[check],
         memory' = memory \/ memory' = Forgotten, JobsRest
  PROVE  InStepInv'
<1>1. check' = check /\ rows' = rows
  OBVIOUS
<1>2. /\ \A i \in 1..Len(rows) : RowAgrees(check, rows[i])
      /\ JobsAgree /\ FramesAgree
      /\ memory = [fresh |-> memory.fresh, frame |-> memory.frame, known |-> memory.known]
  BY DEF InStepInv
<1>3. /\ memory' = [fresh |-> memory'.fresh, frame |-> memory'.frame, known |-> memory'.known]
      /\ memory'.known => memory' = memory
  BY <1>2 DEF Forgotten
<1>4. JobsAgree'
  <2> SUFFICES ASSUME NEW k \in Job, job'[k].state = "walking"
               PROVE  WalkAgrees(check, job'[k], rows) /\ WalkIsAt(check, job'[k])
    BY <1>1 DEF JobsAgree
  <2>1. job'[k] = job[k]
    BY DEF JobsRest
  <2> QED BY <1>2, <2>1 DEF JobsAgree
<1>5. FramesAgree'
  BY <1>1, <1>2, <1>3 DEF FramesAgree
<1> QED BY <1>1, <1>2, <1>3, <1>4, <1>5 DEF InStepInv

\* Where one job moves, and is of the rows that are there.
LEMMA AgreementMoves ==
  ASSUME InStepInv, HistoryInv', UNCHANGED <<check, rows, lim, memory>>, NEW j \in Job, OtherJobs(j),
         WalkAgrees(check, job'[j], rows), WalkIsAt(check, job'[j])
  PROVE  InStepInv'
<1>1. check' = check /\ rows' = rows /\ memory' = memory /\ lim' = lim
  OBVIOUS
<1>2. /\ \A i \in 1..Len(rows) : RowAgrees(check, rows[i])
      /\ JobsAgree /\ FramesAgree /\ lim \in Limits[check]
      /\ memory = [fresh |-> memory.fresh, frame |-> memory.frame, known |-> memory.known]
  BY DEF InStepInv
<1>3. JobsAgree'
  <2> SUFFICES ASSUME NEW k \in Job, job'[k].state = "walking"
               PROVE  WalkAgrees(check, job'[k], rows) /\ WalkIsAt(check, job'[k])
    BY <1>1 DEF JobsAgree
  <2>1. CASE k = j
    BY <2>1
  <2>2. CASE k # j
    <3>1. job'[k] = job[k]
      BY <2>2 DEF OtherJobs
    <3> QED BY <1>2, <3>1 DEF JobsAgree
  <2> QED BY <2>1, <2>2
<1>4. FramesAgree'
  BY <1>1, <1>2 DEF FramesAgree
<1> QED BY <1>1, <1>2, <1>3, <1>4 DEF InStepInv

\* What the check compared with is told by the rows, when they are written over.
LEMMA FramesStand ==
  ASSUME FramesAgree, Len(rows) \in Nat, UNCHANGED <<check, memory>>, Len(rows') = Len(rows),
         \A i \in 1..Len(rows) : SameRun(check, rows[i], rows'[i])
  PROVE  FramesAgree'
<1> SUFFICES ASSUME check = "L4"
             PROVE  /\ memory.known => memory.frame = TrailOf(rows', 1, Len(rows) + 1)
                    /\ \A i \in 1..Len(rows) :
                         rows'[i].known /\ ~KeptApart(check, rows'[i]) =>
                           JudgeL4(rows'[i].facts, rows'[i].under, TrailOf(rows', 1, i)).status
                             = rows'[i].live
  BY DEF FramesAgree
<1>1. ASSUME NEW i \in 1..(Len(rows) + 1) PROVE TrailOf(rows', 1, i) = TrailOf(rows, 1, i)
  <2>1. \A k \in 1..(i - 1) : rows'[k].facts = rows[k].facts
    <3> SUFFICES ASSUME NEW k \in 1..(i - 1) PROVE rows'[k].facts = rows[k].facts
      OBVIOUS
    <3>1. k \in 1..Len(rows)
      OBVIOUS
    <3> QED BY <3>1 DEF SameRun
  <2>2. i \in Nat /\ 1 \in Nat
    OBVIOUS
  <2> QED BY <2>1, <2>2, TrailOfTheSame
<1>2. Len(rows) + 1 \in 1..(Len(rows) + 1) /\ 1..Len(rows) \subseteq 1..(Len(rows) + 1)
  OBVIOUS
<1>3. memory.known => memory.frame = TrailOf(rows', 1, Len(rows) + 1)
  BY <1>1, <1>2 DEF FramesAgree
<1>4. ASSUME NEW i \in 1..Len(rows), rows'[i].known, ~KeptApart(check, rows'[i])
      PROVE  JudgeL4(rows'[i].facts, rows'[i].under, TrailOf(rows', 1, i)).status = rows'[i].live
  <2>1. PICK a, b : a = rows[i] /\ b = rows'[i]
    OBVIOUS
  <2>2. /\ b.live = a.live /\ b.under = a.under /\ b.known = a.known /\ b.obs = a.obs
        /\ b.facts = a.facts
    BY <2>1 DEF SameRun
  <2>3. ~KeptApart("L4", a)
    BY <1>4, <2>1, <2>2 DEF KeptApart
  <2>4. JudgeL4(a.facts, a.under, TrailOf(rows, 1, i)).status = a.live
    BY <1>4, <2>1, <2>2, <2>3 DEF FramesAgree
  <2>5. TrailOf(rows', 1, i) = TrailOf(rows, 1, i)
    BY <1>1, <1>2
  <2> QED BY <2>1, <2>2, <2>4, <2>5
<1> QED BY <1>3, <1>4

LEMMA InStepInductive == InStepInv /\ [ReprocessNext]_reVars => InStepInv'
<1> SUFFICES ASSUME InStepInv, [ReprocessNext]_reVars PROVE InStepInv'
  OBVIOUS
<1>a. /\ HistoryInv /\ check \in Check /\ check \in DOMAIN Observation
      /\ \E S : rows \in Seq(S)
      /\ \A i \in 1..Len(rows) : RowKept(check, rows[i]) /\ RowAgrees(check, rows[i])
      /\ job = [k \in Job |-> job[k]] /\ \A k \in Job : WalkKept(check, job[k])
      /\ JobsAgree /\ FramesAgree /\ lim \in Limits[check]
      /\ memory = [fresh |-> memory.fresh, frame |-> memory.frame, known |-> memory.known]
  BY DEF InStepInv, HistoryInv
<1>b. HistoryInv'
  BY <1>a, HistoryInductive
<1>c. Len(rows) \in Nat
  <2>1. \A S : rows \in Seq(S) => Len(rows) \in Nat
    BY LenProperties
  <2> QED BY <1>a, <2>1
<1>d. ASSUME job' = job PROVE JobsRest
  BY <1>a, <1>d DEF JobsRest
<1>1. ASSUME NEW o \in Observation[check], Run(o) PROVE InStepInv'
  <2> DEFINE r == Judge(o, lim, memory)
             n == Len(rows)
  <2>1. PICK row : /\ row = [status |-> r.status, sub |-> r.sub, facts |-> r.facts, obs |-> o,
                             original |-> "none", live |-> r.status, under |-> lim,
                             known |-> memory.known]
                   /\ rows' = Append(rows, row)
                   /\ UNCHANGED <<check, lim, job>> /\ memory' = Remembered(o, lim, memory)
    BY <1>1 DEF Run
  <2>2. RowAgrees(check, row)
    BY <1>a, <2>1, RecordedAgrees
  <2>3. /\ Len(rows') = n + 1 /\ rows'[n + 1] = row
        /\ \A i \in 1..n : rows'[i] = rows[i]
    BY <1>a, <2>1, HistoryGrows
  <2>4. \A i \in 1..Len(rows') : i \in 1..n \/ i = n + 1
    BY <1>c, <2>3
  <2>5. \A i \in 1..Len(rows') : RowAgrees(check, rows'[i])
    BY <1>a, <2>2, <2>3, <2>4
  <2>6. JobsAgree'
    <3>1. Len(rows') \in Nat /\ Len(rows) <= Len(rows')
      BY <1>c, <2>3
    <3>2. \A i \in 1..Len(rows) : SameRun(check, rows[i], rows'[i])
      BY <2>3 DEF SameRun
    <3> SUFFICES ASSUME NEW k \in Job, job[k].state = "walking"
                 PROVE  WalkAgrees(check, job[k], rows') /\ WalkIsAt(check, job[k])
      BY <2>1 DEF JobsAgree
    <3>3. WalkAgrees(check, job[k], rows) /\ WalkIsAt(check, job[k])
      BY <1>a DEF JobsAgree
    <3> QED BY <1>c, <3>1, <3>2, <3>3, WalkStands
  <2>7. /\ memory' = [fresh |-> memory'.fresh, frame |-> memory'.frame, known |-> memory'.known]
        /\ check = "L4" => /\ memory'.frame = Advanced(memory.frame, o)
                           /\ memory'.known => o.got # "no_image" \/ memory.known
    BY <1>a, <2>1, MemoryAfter
  <2>8. FramesAgree'
    <3> SUFFICES ASSUME check = "L4"
                 PROVE  /\ memory'.known => memory'.frame = TrailOf(rows', 1, n + 2)
                        /\ \A i \in 1..Len(rows') :
                             rows'[i].known /\ ~KeptApart(check, rows'[i]) =>
                               JudgeL4(rows'[i].facts, rows'[i].under, TrailOf(rows', 1, i)).status
                                 = rows'[i].live
      BY <1>c, <2>1, <2>3 DEF FramesAgree
    <3>1. ASSUME NEW i \in 1..(n + 1) PROVE TrailOf(rows', 1, i) = TrailOf(rows, 1, i)
      <4>1. \A j \in 1..(i - 1) : rows'[j].facts = rows[j].facts
        BY <1>c, <2>3
      <4>2. i \in Nat /\ 1 \in Nat
        BY <1>c
      <4> QED BY <4>1, <4>2, TrailOfTheSame
    <3>2. r = JudgeL4(o, lim, memory.frame)
      BY DEF Judge
    <3>a. o \in Measured["L4"] /\ lim \in Adjustable["L4"]
      BY <1>a, ReprocessAssumption
    <3> HIDE DEF r
    <3>3. row.facts = r.facts /\ row.live = r.status /\ row.under = lim /\ row.known = memory.known
            /\ row.obs = o
      BY <2>1
    <3>b. /\ \A x : Advanced(x, row.facts) = Advanced(x, o)
          /\ ~KeptApart("L4", row) => JudgeL4(row.facts, lim, memory.frame).status = row.live
      <4>1. /\ \A x : Advanced(x, r.facts) = Advanced(x, o)
            /\ ~(/\ o.got = "image"
                 /\ (o.fraction # 0 /\ o.fraction > lim.extreme_threshold)
                      # (Rounded(o.fraction) # 0 /\ Rounded(o.fraction) > lim.extreme_threshold))
                 => JudgeL4(r.facts, lim, memory.frame).status = r.status
        BY <3>2, <3>a, ImageRecorded
      <4>2. ~KeptApart("L4", row) =>
              ~(/\ o.got = "image"
                /\ (o.fraction # 0 /\ o.fraction > lim.extreme_threshold)
                     # (Rounded(o.fraction) # 0 /\ Rounded(o.fraction) > lim.extreme_threshold))
        BY <3>3 DEF KeptApart
      <4> QED BY <3>3, <4>1, <4>2
    <3>4. n + 1 \in 1..(n + 1)
      BY <1>c
    <3>5. memory.known => memory.frame = TrailOf(rows', 1, n + 1)
      BY <1>a, <3>1, <3>4 DEF FramesAgree
    <3>6. TrailOf(rows', 1, n + 2) = Advanced(TrailOf(rows', 1, n + 1), o)
      <4>1. 1 \in Nat /\ n + 1 \in Nat /\ 1 <= n + 1 /\ (n + 1) + 1 = n + 2
        BY <1>c
      <4>2. TrailOf(rows', 1, (n + 1) + 1)
              = Advanced(TrailOf(rows', 1, n + 1), rows'[n + 1].facts)
        BY <4>1, TrailGoesOn
      <4> QED BY <2>3, <3>b, <4>1, <4>2
    <3>7. memory'.known => memory'.frame = TrailOf(rows', 1, n + 2)
      BY <2>7, <3>5, <3>6 DEF Advanced
    <3>8. ASSUME NEW i \in 1..Len(rows'), rows'[i].known, ~KeptApart(check, rows'[i])
          PROVE  JudgeL4(rows'[i].facts, rows'[i].under, TrailOf(rows', 1, i)).status = rows'[i].live
      <4>1. CASE i \in 1..n
        <5>1. i \in 1..(n + 1)
          BY <1>c, <4>1
        <5>2. rows'[i] = rows[i] /\ TrailOf(rows', 1, i) = TrailOf(rows, 1, i)
          BY <2>3, <3>1, <4>1, <5>1
        <5> QED BY <1>a, <3>8, <4>1, <5>2 DEF FramesAgree
      <4>2. CASE i = n + 1
        <5>1. JudgeL4(row.facts, lim, memory.frame).status = row.live
          BY <2>3, <3>b, <3>8, <4>2
        <5> QED BY <2>3, <3>3, <3>5, <3>8, <4>2, <5>1
      <4> QED BY <2>4, <4>1, <4>2
    <3> QED BY <3>7, <3>8
  <2> QED BY <1>a, <1>b, <2>1, <2>5, <2>6, <2>7, <2>8 DEF InStepInv
<1>2. ASSUME NEW l \in Limits[check], save_blob(l) PROVE InStepInv'
  BY <1>2, <1>b, <1>d, AgreementRests DEF save_blob
<1>3. CASE Restart \/ \E j \in Job : reprocess_cancel(j) \/ JobFails(j)
  <2>1. JobsRest /\ UNCHANGED <<check, lim, rows>> /\ (memory' = memory \/ memory' = Forgotten)
    BY <1>3, <1>a, JobsEnd
  <2> QED BY <1>a, <1>b, <2>1, AgreementRests
<1>4. ASSUME NEW j \in Job, NEW from \in 1..Len(rows), JobStart(j, from) PROVE InStepInv'
  <2>1. /\ OtherJobs(j) /\ job'[j] = Walk(from, from, Len(rows), rows, NoFrame, <<>>, lim, FALSE)
        /\ UNCHANGED <<check, lim, memory, rows>>
    BY <1>4, <1>a, JobBegins
  <2>2. PICK w : w = job'[j]
    OBVIOUS
  <2>3. /\ w.from = from /\ w.at = from /\ w.upto = Len(rows) /\ w.read = rows
        /\ w.frame = NoFrame /\ w.updates = <<>>
    BY <2>1, <2>2 DEF Walk
  <2>4. WalkAgrees(check, w, rows)
    <3>1. DOMAIN w.updates = {}
      BY <2>3
    <3>2. \A i \in 1..Len(rows) : SameRun(check, rows[i], rows[i])
      BY DEF SameRun
    <3> QED BY <1>a, <1>c, <2>3, <3>1, <3>2 DEF WalkAgrees
  <2>5. WalkIsAt(check, w)
    <3>1. from \in Nat /\ 1 <= from /\ from <= from /\ from <= Len(rows) + 1
      BY <1>c
    <3>2. NoFrame = FrameAt(check, rows, from, from)
      BY <3>1, FrameBegins
    <3> QED BY <2>3, <3>1, <3>2 DEF WalkIsAt
  <2> QED BY <1>b, <2>1, <2>2, <2>4, <2>5, AgreementMoves
<1>5. ASSUME NEW j \in Job, JobRow(j) PROVE InStepInv'
  <2>1. PICK w : w = job[j]
    OBVIOUS
  <2>2. /\ OtherJobs(j) /\ UNCHANGED <<check, lim, memory, rows>>
        /\ w.state = "walking" /\ w.at \in 1..w.upto /\ w.at \in Nat /\ w.upto \in Nat
        /\ job'[j] = GoneOn(w, lim)
    BY <1>5, <1>a, <2>1, JobGoesOn
  <2>3. WalkAgrees(check, w, rows) /\ WalkIsAt(check, w) /\ WalkKept(check, w)
    BY <1>a, <2>1, <2>2 DEF JobsAgree
  <2>4. /\ w.upto <= Len(rows)
        /\ \A i \in 1..w.upto : RowAgrees(check, w.read[i]) /\ SameRun(check, rows[i], w.read[i])
        /\ \A i \in DOMAIN w.updates :
             i \in 1..w.upto /\ RowAgrees(check, w.updates[i]) /\ SameRun(check, rows[i], w.updates[i])
        /\ \A i \in 1..w.upto : RowKept(check, w.read[i])
    BY <2>2, <2>3 DEF WalkAgrees, WalkKept
  <2>5. PICK new, u : new = NewRow(w, lim) /\ u = Updated(w, lim)
    OBVIOUS
  <2>6. RowAgrees(check, new) /\ SameRun(check, w.read[w.at], new)
    BY <1>a, <2>2, <2>4, <2>5, JudgedAgainAgrees DEF NewRow
  <2>7. SameRun(check, rows[w.at], new)
    <3>1. SameRun(check, rows[w.at], w.read[w.at])
      BY <2>2, <2>4
    <3> QED BY <2>6, <3>1 DEF SameRun
  <2>8. \A i \in DOMAIN u : i \in 1..w.upto /\ RowAgrees(check, u[i]) /\ SameRun(check, rows[i], u[i])
    <3>1. \/ u = w.updates
          \/ /\ DOMAIN u = DOMAIN w.updates \cup {w.at}
             /\ \A i \in DOMAIN w.updates : u[i] = w.updates[i]
             /\ w.at \notin DOMAIN w.updates => u[w.at] = new
      BY <2>5, WhatIsToWrite
    <3> QED BY <2>2, <2>4, <2>6, <2>7, <3>1
  <2>9. PICK v, f : v = job'[j] /\ f = Trail(w.frame, w.read[w.at])
    OBVIOUS
  <2>10. /\ v.from = w.from /\ v.at = w.at + 1 /\ v.upto = w.upto /\ v.read = w.read
         /\ v.frame = f /\ v.updates = u
    <3>1. PICK x : v = Walk(w.from, w.at + 1, w.upto, w.read, f, u, w.under, x)
      BY <2>2, <2>5, <2>9, Zenon DEF GoneOn
    <3> QED BY <3>1 DEF Walk
  <2>11. WalkAgrees(check, v, rows)
    BY <2>2, <2>4, <2>8, <2>10 DEF WalkAgrees
  <2>12. WalkIsAt(check, v)
    <3>1. /\ w.from \in Nat /\ w.at \in Nat /\ 1 <= w.from /\ w.from <= w.at
          /\ w.frame = FrameAt(check, w.read, w.from, w.at)
      BY <2>3 DEF WalkIsAt
    <3>2. f = FrameAt(check, w.read, w.from, w.at + 1)
      BY <2>9, <3>1, FrameGoesOn
    <3>3. w.at + 1 \in Nat /\ w.from <= w.at + 1 /\ w.at + 1 <= w.upto + 1
      BY <2>2, <3>1
    <3> QED BY <2>10, <3>1, <3>2, <3>3 DEF WalkIsAt
  <2> QED BY <1>b, <2>2, <2>9, <2>11, <2>12, AgreementMoves
<1>6. ASSUME NEW j \in Job, JobWrite(j) PROVE InStepInv'
  <2>1. PICK u : u = job[j].updates
    OBVIOUS
  <2>2. /\ job[j].state = "walking" /\ UNCHANGED <<check, lim, memory>>
        /\ rows' = Written(u)
        /\ \A k \in Job :
             job'[k].state = "walking" =>
               /\ job[k].state = "walking"
               /\ \/ job'[k] = job[k]
                  \/ job'[k] = Walk(job[k].from, job[k].at, job[k].upto, job[k].read, job[k].frame,
                                    job[k].updates, job[k].under, TRUE)
    BY <1>6, <1>a, <2>1, JobIsWritten
  <2>3. /\ Len(rows') = Len(rows)
        /\ \A i \in 1..Len(rows) : rows'[i] = IF i \in DOMAIN u THEN u[i] ELSE rows[i]
    BY <1>a, <2>2, HistoryStays
  <2>4. \A i \in DOMAIN u : RowAgrees(check, u[i]) /\ SameRun(check, rows[i], u[i])
    BY <1>a, <2>1, <2>2 DEF JobsAgree, WalkAgrees
  <2>5. \A i \in 1..Len(rows') : RowAgrees(check, rows'[i])
    BY <1>a, <2>3, <2>4
  <2>6. ASSUME NEW i \in 1..Len(rows) PROVE SameRun(check, rows[i], rows'[i])
    <3>1. CASE i \in DOMAIN u
      BY <2>3, <2>4, <3>1
    <3>2. CASE i \notin DOMAIN u
      BY <2>3, <3>2 DEF SameRun
    <3> QED BY <3>1, <3>2
  <2>7. FramesAgree'
    BY <1>a, <1>c, <2>2, <2>3, <2>6, FramesStand
  <2>8. JobsAgree'
    <3> SUFFICES ASSUME NEW k \in Job, job'[k].state = "walking"
                 PROVE  WalkAgrees(check, job'[k], rows') /\ WalkIsAt(check, job'[k])
      BY <2>2 DEF JobsAgree
    <3>1. PICK w, v : w = job[k] /\ v = job'[k]
      OBVIOUS
    <3>2. \/ v = w
          \/ v = Walk(w.from, w.at, w.upto, w.read, w.frame, w.updates, w.under, TRUE)
      BY <2>2, <3>1
    <3>3. WalkAgrees(check, w, rows) /\ WalkIsAt(check, w)
      BY <1>a, <2>2, <3>1 DEF JobsAgree
    <3>4. WalkAgrees(check, w, rows')
      BY <1>c, <2>3, <2>6, <3>3, WalkStands
    <3>5. WalkAgrees(check, v, rows') /\ WalkIsAt(check, v)
      BY <3>2, <3>3, <3>4, MarkedWalk
    <3> QED BY <3>1, <3>5
  <2> QED BY <1>a, <1>b, <2>2, <2>5, <2>7, <2>8 DEF InStepInv
<1>7. CASE UNCHANGED reVars
  <2>1. UNCHANGED <<check, lim, memory, rows, job>>
    BY <1>7 DEF reVars
  <2> QED BY <1>a, <1>b, <1>d, <2>1, AgreementRests
<1> QED BY <1>1, <1>2, <1>3, <1>4, <1>5, <1>6, <1>7 DEF ReprocessNext

LEMMA InStepBegins == ReprocessInit => InStepInv
<1> SUFFICES ASSUME ReprocessInit PROVE InStepInv
  OBVIOUS
<1>1. HistoryInv
  BY HistoryBegins
<1>2. /\ rows = <<>> /\ job = [k \in Job |-> NoJob] /\ memory = Forgotten /\ lim \in Limits[check]
  BY DEF ReprocessInit
<1>3. \A i : i \notin 1..Len(rows)
  BY <1>2
<1>4. JobsAgree
  BY <1>2 DEF JobsAgree, NoJob
<1>5. FramesAgree
  BY <1>2, <1>3 DEF FramesAgree, Forgotten
<1>6. memory = [fresh |-> memory.fresh, frame |-> memory.frame, known |-> memory.known]
  BY <1>2 DEF Forgotten
<1> QED BY <1>1, <1>2, <1>3, <1>4, <1>5, <1>6 DEF InStepInv

\* The live check and its reprocess agree, for any observations, thresholds and jobs:
\* whatever was written over a row since, a job that judges it again under the
\* thresholds it was first judged by gives it its first status, wherever the row keeps
\* as much as the check saw and holds to the same limits, and wherever the check and
\* the job both know of a frame before it (reprocess_engine.py:38-43).
THEOREM JudgementsAreInStep == ReprocessSpec => []InStep
<1>1. InStepInv => InStep
  <2> SUFFICES ASSUME InStepInv, NEW j \in Job, Walking(j), job[j].at <= job[j].upto,
                      NEW w, w = job[j], NEW row, row = w.read[w.at],
                      ~KeptApart(check, row), ~HeldToAnother(check, row),
                      ~(check = "L4" /\ (~row.known \/ w.frame = NoFrame))
               PROVE  Reverdict(row, row.under, w.frame).status = row.live
    BY DEF InStep
  <2>1. /\ check \in Check /\ FramesAgree /\ WalkAgrees(check, w, rows) /\ WalkIsAt(check, w)
        /\ WalkKept(check, w) /\ w.state = "walking" /\ w.at <= w.upto
    BY DEF InStepInv, HistoryInv, JobsAgree, Walking
  <2>2. /\ w.upto \in Nat /\ w.at \in Nat /\ 1 <= w.at /\ w.from \in Nat /\ 1 <= w.from
        /\ w.frame = FrameAt(check, w.read, w.from, w.at) /\ w.upto <= Len(rows)
        /\ \A i \in 1..w.upto : /\ RowAgrees(check, w.read[i]) /\ SameRun(check, rows[i], w.read[i])
                                /\ RowKept(check, w.read[i])
    BY <2>1 DEF WalkAgrees, WalkIsAt, WalkKept
  <2>3. w.at \in 1..w.upto
    BY <2>1, <2>2
  <2>4. RowAgrees(check, row) /\ SameRun(check, rows[w.at], row) /\ IsRow(row) /\ RowSound(check, row)
    BY <2>2, <2>3 DEF RowKept, RowAgrees
  <2>5. check = "L4" => JudgeL4(row.facts, row.under, w.frame).status = row.live
    <3> SUFFICES ASSUME check = "L4" PROVE JudgeL4(row.facts, row.under, w.frame).status = row.live
      OBVIOUS
    <3>1. w.frame = TrailOf(w.read, w.from, w.at) /\ w.frame # NoFrame /\ row.known
      BY <2>2 DEF FrameAt
    <3>2. w.frame = TrailOf(w.read, 1, w.at)
      BY <2>2, <3>1, TrailFromBefore
    <3>3. TrailOf(w.read, 1, w.at) = TrailOf(rows, 1, w.at)
      <4>1. \A k \in 1..(w.at - 1) : w.read[k].facts = rows[k].facts
        <5> SUFFICES ASSUME NEW k \in 1..(w.at - 1) PROVE w.read[k].facts = rows[k].facts
          OBVIOUS
        <5>1. k \in 1..w.upto
          BY <2>2, <2>3
        <5>2. SameRun(check, rows[k], w.read[k])
          BY <2>2, <5>1
        <5> QED BY <5>2 DEF SameRun
      <4>2. PICK rs, i : rs = w.read /\ i = w.at
        OBVIOUS
      <4>3. i \in Nat /\ 1 \in Nat /\ \A k \in 1..(i - 1) : rs[k].facts = rows[k].facts
        BY <2>2, <4>1, <4>2
      <4>4. TrailOf(rs, 1, i) = TrailOf(rows, 1, i)
        BY <4>3, TrailOfTheSame
      <4> QED BY <4>2, <4>4
    <3>4. w.at \in 1..Len(rows)
      <4>1. \E S : rows \in Seq(S)
        BY DEF InStepInv, HistoryInv
      <4>2. \A S : rows \in Seq(S) => Len(rows) \in Nat
        BY LenProperties
      <4> QED BY <2>2, <2>3, <4>1, <4>2
    <3>5. PICK a : a = rows[w.at]
      OBVIOUS
    <3>6. /\ row.live = a.live /\ row.under = a.under /\ row.known = a.known /\ row.obs = a.obs
          /\ row.facts = a.facts
      BY <2>4, <3>5 DEF SameRun
    <3>7. ~KeptApart("L4", a)
      BY <3>6 DEF KeptApart
    <3>8. JudgeL4(a.facts, a.under, TrailOf(rows, 1, w.at)).status = a.live
      BY <2>1, <3>1, <3>4, <3>5, <3>6, <3>7 DEF FramesAgree
    <3> QED BY <3>2, <3>3, <3>6, <3>8
  <2>6. PICK q : q = Reverdict(row, row.under, w.frame)
    OBVIOUS
  <2>7. CASE row.status \in {"skip", "error"}
    <3>1. q = row
      BY <2>6, <2>7 DEF Reverdict
    <3>2. ~(check = "L1" /\ row.obs.got = "old_timeout")
      BY DEF KeptApart
    <3> QED BY <2>4, <2>6, <2>7, <3>1, <3>2 DEF RowSound
  <2>8. CASE row.status \notin {"skip", "error"}
    <3>1. q.status = row.live
      BY <2>1, <2>4, <2>5, <2>6, <2>8, AgreedVerdict
    <3> QED BY <2>6, <3>1
  <2> QED BY <2>7, <2>8
<1> QED BY <1>1, InStepBegins, InStepInductive, PTL DEF ReprocessSpec

-----------------------------------------------------------------------------
(* A second job over the same rows *)

\* A row that judging again, against a frame, leaves as it is.
ReverdictOf(c, row, l, frame) ==
  IF row.status \in {"skip", "error"} THEN row
  ELSE CASE c = "L1" -> _reverdict_l1(row, l)    [] c = "L2" -> _reverdict_l2(row, l)
         [] c = "L4" -> _reverdict_l4(row, l, frame)
         [] OTHER -> ReAged(row, AgeName(c), AgeVerdict(c, row.facts.age, Now(l, row)), Now(l, row))
Stands(c, row, l, frame) == ReverdictOf(c, row, l, frame).status = row.status

LEMMA AgainIsReverdict ==
  ASSUME check \in Check, NEW row, NEW l, NEW frame
  PROVE  Reverdict(row, l, frame) = ReverdictOf(check, row, l, frame)
<1>1. CASE row.status \in {"skip", "error"}
  BY <1>1 DEF Reverdict, ReverdictOf
<1>2. CASE row.status \notin {"skip", "error"} /\ check \in {"L1", "L2", "L4"}
  BY <1>2 DEF Reverdict, ReverdictOf
<1>3. CASE row.status \notin {"skip", "error"} /\ check \notin {"L1", "L2", "L4"}
  <2>1. Reverdict(row, l, frame)
          = ReAged(row, AgeName(check), AgeVerdict(check, row.facts.age, Now(l, row)), Now(l, row))
    BY <1>3, AgeReverdict
  <2>2. ReverdictOf(check, row, l, frame)
          = ReAged(row, AgeName(check), AgeVerdict(check, row.facts.age, Now(l, row)), Now(l, row))
    BY <1>3, Zenon DEF ReverdictOf
  <2> QED BY <2>1, <2>2
<1> QED BY <1>1, <1>2, <1>3

\* The limits a row is held to stand in for those that are not set, and are the same
\* the next time.
LEMMA NowAsBefore ==
  ASSUME NEW l, NEW row, NEW q, q.facts.limits = Now(l, row)
  PROVE  Now(l, q) = Now(l, row)
<1> DEFINE g == row.facts.limits
           n == Now(l, row)
<1>1. n = [k \in DOMAIN g |-> IF l[k] = NotThere THEN g[k] ELSE l[k]]
  BY DEF Now, Over
<1>2. Now(l, q) = [k \in DOMAIN n |-> IF l[k] = NotThere THEN n[k] ELSE l[k]]
  BY DEF Now, Over
<1> HIDE DEF g, n
<1>3. Now(l, q) = n
  BY <1>1, <1>2
<1> QED BY <1>3 DEF n

\* A row that was judged again is left as it is the next time.
LEMMA AgainItStands ==
  ASSUME check \in Check, NEW row, RowKept(check, row), NEW l, NEW frame,
         NEW q, q = Reverdict(row, l, frame)
  PROVE  Stands(check, q, l, frame)
<1>a. IsRow(row)
  BY DEF RowKept
<1>b. PICK p : p = Reverdict(q, l, frame)
  OBVIOUS
<1>c. SUFFICES p.status = q.status
  BY <1>b, AgainIsReverdict DEF Stands
<1>0. CASE q = row \/ row.status \in {"skip", "error"} \/ q.status \in {"skip", "error"}
  <2>1. CASE q = row
    BY <1>b, <2>1
  <2>2. CASE row.status \in {"skip", "error"}
    <3>1. q = row
      BY <2>2 DEF Reverdict
    <3> QED BY <1>b, <3>1
  <2>3. CASE q.status \in {"skip", "error"}
    <3>1. p = q
      BY <1>b, <2>3 DEF Reverdict
    <3> QED BY <3>1
  <2> QED BY <1>0, <2>1, <2>2, <2>3
<1> DEFINE IsJudged == /\ q # row /\ row.status \notin {"skip", "error"}
                     /\ q.status \notin {"skip", "error"}
<1>1. CASE IsJudged /\ check = "L1"
  <2>1. q = _reverdict_l1(row, l) /\ p = _reverdict_l1(q, l)
    BY <1>b, <1>1 DEF Reverdict
  <2>2. CASE row.facts.old_timeout
    <3>1. q = WithStatus(row, "error", Original(row))
      BY <2>1, <2>2 DEF _reverdict_l1, WithStatus
    <3>2. q.status = "error"
      BY <1>a, <3>1, ReplacedStatus
    <3> QED BY <1>1, <3>2
  <2>3. CASE ~row.facts.old_timeout
    <3> DEFINE b == ProductResub(row, row.facts, l)
    <3>1. q = WithSub(row, b, Worst(b))
      BY <2>1, <2>3 DEF _reverdict_l1, Rejudged, WithSub, ProductResub, Refreshed, Recadenced,
                        Restepped, Resized
    <3>2. /\ DOMAIN b = DOMAIN row.sub
          /\ \A k \in DOMAIN row.sub : b[k] = WithProduct(row.sub, row.facts, l)[k]
      BY ProductPoints
    <3> HIDE DEF b
    <3>3. /\ q.sub = b /\ q.facts = row.facts /\ q.status = Worst(b) /\ IsRow(q)
      BY <1>a, <3>1, ReplacedSub
    <3> DEFINE d == ProductResub(q, q.facts, l)
    <3>4. p = WithSub(q, d, Worst(d))
      BY <2>1, <2>3, <3>3 DEF _reverdict_l1, Rejudged, WithSub, ProductResub, Refreshed, Recadenced,
                        Restepped, Resized
    <3>5. /\ DOMAIN d = DOMAIN b
          /\ \A k \in DOMAIN b : d[k] = WithProduct(b, row.facts, l)[k]
      BY <3>3, ProductPoints
    <3> HIDE DEF d
    <3>6. \A k \in DOMAIN b : WithProduct(b, row.facts, l)[k] = WithProduct(row.sub, row.facts, l)[k]
      <4> DEFINE f == row.facts
                 s == row.sub
      <4>1. \A k \in DOMAIN b : b[k] = WithProduct(s, f, l)[k] /\ k \in DOMAIN s
        BY <3>2
      <4> HIDE DEF f, s
      <4> SUFFICES ASSUME NEW k \in DOMAIN b
                   PROVE  WithProduct(b, f, l)[k] = WithProduct(s, f, l)[k]
        BY DEF f, s
      <4>2. CASE \/ k = "C_freshness" /\ f.last # NotThere
                 \/ k = "D_cadence" /\ f.med # NotThere
                 \/ k = "E_step_count"
                 \/ k = "G_image_size" /\ f.bytes # NotThere
        BY <4>1, <4>2 DEF WithProduct
      <4>3. CASE /\ ~(k = "C_freshness" /\ f.last # NotThere)
                 /\ ~(k = "D_cadence" /\ f.med # NotThere)
                 /\ k # "E_step_count"
                 /\ ~(k = "G_image_size" /\ f.bytes # NotThere)
        <5>1. WithProduct(b, f, l)[k] = b[k]
          BY <4>3 DEF WithProduct
        <5> QED BY <4>1, <5>1
      <4> QED BY <4>2, <4>3
    <3>7. \A k \in DOMAIN b : d[k] = b[k]
      BY <3>2, <3>5, <3>6
    <3>8. Worst(d) = Worst(b)
      BY <3>5, <3>7, SameWorst
    <3>9. p.status = Worst(d)
      BY <3>3, <3>4, ReplacedSub
    <3> QED BY <3>3, <3>8, <3>9
  <2> QED BY <2>2, <2>3
<1>2. CASE IsJudged /\ check = "L2"
  <2> DEFINE fresh == row.facts.last <= Upper(l)
             v == IF fresh THEN "HEALTHY" ELSE "GHOST_UP"
             s == IF fresh THEN "pass" ELSE "fail"
  <2>1. q = _reverdict_l2(row, l) /\ p = _reverdict_l2(q, l)
    BY <1>b, <1>2 DEF Reverdict
  <2>2. /\ q = WithVerdict(row, v, s, Original(row))
        /\ ~(row.facts.n <= 0) /\ row.facts.last # NotThere
    BY <1>2, <2>1 DEF _reverdict_l2, WithVerdict
  <2>3. row.facts = [verdict |-> row.facts.verdict, n |-> row.facts.n, last |-> row.facts.last]
    BY <1>2 DEF RowKept, Stoppage
  <2>4. v \in {"HEALTHY", "GHOST_UP"}
    OBVIOUS
  <2>5. /\ q.facts = [verdict |-> v, n |-> row.facts.n, last |-> row.facts.last]
        /\ q.status = s /\ IsRow(q)
    <3> HIDE DEF v, s, fresh
    <3> QED BY <1>a, <2>2, <2>3, ReplacedVerdict
  <2>6. q.facts.verdict = v /\ q.facts.n = row.facts.n /\ q.facts.last = row.facts.last
    <3> HIDE DEF v, s, fresh
    <3> QED BY <2>5
  <2>7. p = WithVerdict(q, v, s, Original(q))
    BY <2>1, <2>2, <2>4, <2>6 DEF _reverdict_l2, WithVerdict
  <2>8. p.status = s
    <3> HIDE DEF v, s, fresh
    <3>1. q.facts = [verdict |-> q.facts.verdict, n |-> q.facts.n, last |-> q.facts.last]
      BY <2>5, <2>6
    <3> QED BY <2>5, <2>7, <3>1, ReplacedVerdict
  <2> QED BY <2>5, <2>8
<1>3. CASE IsJudged /\ check = "L4"
  <2> DEFINE s == JudgeL4(row.facts, l, frame).status
  <2>1. q = WithStatus(row, s, Original(row))
    BY <1>3 DEF Reverdict, _reverdict_l4, WithStatus
  <2> HIDE DEF s
  <2>2. q.facts = row.facts /\ q.status = s /\ IsRow(q)
    BY <1>a, <2>1, ReplacedStatus
  <2>3. p = WithStatus(q, s, Original(q))
    BY <1>b, <1>3, <2>2 DEF s, Reverdict, _reverdict_l4, WithStatus
  <2>4. p.status = s
    BY <2>2, <2>3, ReplacedStatus
  <2> QED BY <2>2, <2>4
<1>4. CASE IsJudged /\ check \notin {"L1", "L2", "L4"}
  <2>1. PICK name, n, v : /\ name = AgeName(check) /\ n = Now(l, row)
                          /\ v = AgeVerdict(check, row.facts.age, n)
    OBVIOUS
  <2>2. q = ReAged(row, name, v, n)
    BY <1>4, <2>1, AgeReverdict
  <2>3. HeldTo(row, name, n)
    BY <1>a, <1>4, <2>2, ReAgedRow
  <2>4. /\ IsRow(q) /\ q.sub = Resub(row, name, v) /\ q.status = Worst(q.sub)
        /\ q.facts.age = row.facts.age /\ q.facts.limits = n
    BY <1>a, <2>2, <2>3, ReAgedRow
  <2>5. Now(l, q) = n
    BY <2>1, <2>4, NowAsBefore
  <2>6. p = ReAged(q, name, v, n)
    <3>1. p = ReAged(q, AgeName(check), AgeVerdict(check, q.facts.age, Now(l, q)), Now(l, q))
      BY <1>b, <1>4, AgeReverdict
    <3> QED BY <2>1, <2>4, <2>5, <3>1
  <2>7. /\ DOMAIN q.sub = DOMAIN row.sub
        /\ \A k \in DOMAIN row.sub : q.sub[k] = IF k = name THEN v ELSE row.sub[k]
    BY <2>4, ResubPoints
  <2>8. HeldTo(q, name, n)
    BY <2>3, <2>4, <2>7 DEF HeldTo
  <2>9. p.sub = Resub(q, name, v) /\ p.status = Worst(p.sub)
    BY <2>4, <2>6, <2>8, ReAgedRow
  <2>10. /\ DOMAIN p.sub = DOMAIN q.sub
         /\ \A k \in DOMAIN q.sub : p.sub[k] = IF k = name THEN v ELSE q.sub[k]
    BY <2>9, ResubPoints
  <2>11. \A k \in DOMAIN p.sub : p.sub[k] = q.sub[k]
    BY <2>7, <2>10
  <2>12. Worst(p.sub) = Worst(q.sub)
    BY <2>10, <2>11, SameWorst
  <2> QED BY <2>4, <2>9, <2>12
<1> QED BY <1>0, <1>1, <1>2, <1>3, <1>4

\* A job that walks has judged the rows it read up to where it is, against the frames
\* there are; under one set of thresholds, what it rewrites is what changes; and unless
\* another wrote meanwhile, the rows are those it read.
RowIsDone(c, w, i) ==
  LET frame == FrameAt(c, w.read, w.from, i) IN
  IF i \in DOMAIN w.updates
  THEN ~Stands(c, w.read[i], w.under, frame) /\ Stands(c, w.updates[i], w.under, frame)
  ELSE Stands(c, w.read[i], w.under, frame)

WalkIsAhead(c, w, rs) ==
  /\ w.mixed \in BOOLEAN
  /\ DOMAIN w.updates \subseteq w.from..(w.at - 1)
  /\ ~w.mixed => /\ \A i \in w.from..(w.at - 1) : RowIsDone(c, w, i)
                 /\ \A i \in 1..w.upto : rs[i] = w.read[i]

JobsAreAhead ==
  \A k \in Job : job[k].state = "walking" => WalkIsAhead(check, job[k], rows)

\* What the last job wrote is still settled.
LastJob(from, upto, under, mixed, saves) ==
  [from |-> from, upto |-> upto, under |-> under, mixed |-> mixed, saves |-> saves]
LastIsSettled ==
  /\ settled = LastJob(settled.from, settled.upto, settled.under, settled.mixed, settled.saves)
  /\ settled.mixed \in BOOLEAN
  /\ ~settled.mixed =>
       /\ settled.from \in Nat /\ 1 <= settled.from
       /\ settled.upto \in Nat /\ settled.upto <= Len(rows)
       /\ \A i \in settled.from..settled.upto :
            Stands(check, rows[i], settled.under, FrameAt(check, rows, settled.from, i))

RepeatInv == InStepInv /\ JobsAreAhead /\ LastIsSettled

\* Rows that stay, in a window, leave what is settled there settled.
LEMMA StandsStill ==
  ASSUME NEW rs, NEW ss, NEW from \in Nat, NEW upto \in Nat, NEW l,
         \A i \in from..upto : ss[i] = rs[i],
         \A i \in from..upto : Stands(check, rs[i], l, FrameAt(check, rs, from, i))
  PROVE  \A i \in from..upto : Stands(check, ss[i], l, FrameAt(check, ss, from, i))
<1> SUFFICES ASSUME NEW i \in from..upto PROVE Stands(check, ss[i], l, FrameAt(check, ss, from, i))
  OBVIOUS
<1>1. i \in Nat /\ \A j \in from..(i - 1) : ss[j].facts = rs[j].facts
  OBVIOUS
<1>2. FrameAt(check, ss, from, i) = FrameAt(check, rs, from, i)
  BY <1>1, FrameOfTheSame
<1> QED BY <1>2

\* Steps that leave the rows as they are leave what the last job settled.
LEMMA LastRests ==
  ASSUME LastIsSettled, check' = check,
         Len(rows) \in Nat, Len(rows') \in Nat, Len(rows) <= Len(rows'),
         \A i \in 1..Len(rows) : rows'[i] = rows[i],
         \E saves : settled' = LastJob(settled.from, settled.upto, settled.under, settled.mixed, saves)
  PROVE  LastIsSettled'
<1>1. PICK saves :
        settled' = LastJob(settled.from, settled.upto, settled.under, settled.mixed, saves)
  OBVIOUS
<1>2. /\ settled'.from = settled.from /\ settled'.upto = settled.upto
      /\ settled'.under = settled.under /\ settled'.mixed = settled.mixed
      /\ settled' = LastJob(settled'.from, settled'.upto, settled'.under, settled'.mixed,
                            settled'.saves)
  BY <1>1 DEF LastJob
<1>3. settled.mixed \in BOOLEAN
  BY DEF LastIsSettled
<1>4. ASSUME ~settled.mixed
      PROVE  /\ settled.from \in Nat /\ 1 <= settled.from
             /\ settled.upto \in Nat /\ settled.upto <= Len(rows')
             /\ \A i \in settled.from..settled.upto :
                  Stands(check, rows'[i], settled.under, FrameAt(check, rows', settled.from, i))
  <2>1. /\ settled.from \in Nat /\ 1 <= settled.from
        /\ settled.upto \in Nat /\ settled.upto <= Len(rows)
        /\ \A i \in settled.from..settled.upto :
             Stands(check, rows[i], settled.under, FrameAt(check, rows, settled.from, i))
    BY <1>4 DEF LastIsSettled
  <2>2. settled.upto <= Len(rows')
    BY <2>1
  <2>3. \A i \in settled.from..settled.upto : rows'[i] = rows[i]
    BY <2>1
  <2>4. \A i \in settled.from..settled.upto :
          Stands(check, rows'[i], settled.under, FrameAt(check, rows', settled.from, i))
    BY <2>1, <2>3, StandsStill
  <2> QED BY <2>1, <2>2, <2>4
<1> QED BY <1>2, <1>3, <1>4 DEF LastIsSettled

\* Where the jobs rest as well, all does.
LEMMA RepeatRests ==
  ASSUME RepeatInv, InStepInv', check' = check,
         Len(rows) \in Nat, Len(rows') \in Nat, Len(rows) <= Len(rows'),
         \A i \in 1..Len(rows) : rows'[i] = rows[i], JobsRest,
         \E saves : settled' = LastJob(settled.from, settled.upto, settled.under, settled.mixed, saves)
  PROVE  RepeatInv'
<1>1. LastIsSettled'
  BY LastRests DEF RepeatInv
<1>2. JobsAreAhead'
  <2> SUFFICES ASSUME NEW k \in Job, job'[k].state = "walking"
               PROVE  WalkIsAhead(check, job'[k], rows')
    BY DEF JobsAreAhead
  <2>1. PICK w : w = job[k]
    OBVIOUS
  <2>2. job'[k] = w /\ w.state = "walking"
    BY <2>1 DEF JobsRest
  <2>3. WalkIsAhead(check, w, rows) /\ WalkAgrees(check, w, rows)
    BY <2>1, <2>2 DEF RepeatInv, JobsAreAhead, InStepInv, JobsAgree
  <2>4. w.upto \in Nat /\ w.upto <= Len(rows)
    BY <2>3 DEF WalkAgrees
  <2>5. \A i \in 1..w.upto : rows'[i] = rows[i]
    BY <2>4
  <2>6. WalkIsAhead(check, w, rows')
    BY <2>3, <2>5 DEF WalkIsAhead
  <2> QED BY <2>2, <2>6
<1> QED BY <1>1, <1>2 DEF RepeatInv

\* Where one job moves.
LEMMA RepeatMoves ==
  ASSUME RepeatInv, InStepInv', UNCHANGED <<check, rows, settled>>, NEW j \in Job, OtherJobs(j),
         WalkIsAhead(check, job'[j], rows)
  PROVE  RepeatInv'
<1>1. check' = check /\ rows' = rows /\ settled' = settled
  OBVIOUS
<1>2. LastIsSettled'
  BY <1>1 DEF RepeatInv, LastIsSettled
<1>3. JobsAreAhead'
  <2> SUFFICES ASSUME NEW k \in Job, job'[k].state = "walking"
               PROVE  WalkIsAhead(check, job'[k], rows)
    BY <1>1 DEF JobsAreAhead
  <2>1. CASE k = j
    BY <2>1
  <2>2. CASE k # j
    <3>1. job'[k] = job[k]
      BY <2>2 DEF OtherJobs
    <3> QED BY <3>1 DEF RepeatInv, JobsAreAhead
  <2> QED BY <2>1, <2>2
<1> QED BY <1>2, <1>3 DEF RepeatInv

\* A job one row further is ahead by that row.
LEMMA AheadByOne ==
  ASSUME check \in Check, NEW w, NEW rs, WalkIsAhead(check, w, rs), WalkIsAt(check, w),
         w.at \in 1..w.upto, w.upto \in Nat, RowKept(check, w.read[w.at]), NEW l,
         NEW v, v = GoneOn(w, l)
  PROVE  WalkIsAhead(check, v, rs)
<1>1. PICK row, new, u, f, x :
        /\ row = w.read[w.at] /\ new = NewRow(w, l) /\ u = Updated(w, l)
        /\ f = Trail(w.frame, row) /\ x = MixedBy(w, l)
  OBVIOUS
<1>2. /\ v.from = w.from /\ v.at = w.at + 1 /\ v.upto = w.upto /\ v.read = w.read
      /\ v.updates = u /\ v.under = w.under
  <2>1. PICK y : v = Walk(w.from, w.at + 1, w.upto, w.read, f, u, w.under, y)
    BY <1>1, Zenon DEF GoneOn
  <2> QED BY <2>1 DEF Walk
<1>3. v.mixed = MixedBy(w, l)
  <2>1. v = Walk(w.from, w.at + 1, w.upto, w.read, f, u, w.under, x)
    BY <1>1, Zenon DEF GoneOn
  <2>2. v.mixed = x
    BY <2>1 DEF Walk
  <2> QED BY <1>1, <2>2, Zenon
<1>4. /\ w.from \in Nat /\ w.at \in Nat /\ 1 <= w.from /\ w.from <= w.at
      /\ w.frame = FrameAt(check, w.read, w.from, w.at)
  BY DEF WalkIsAt
<1>5. /\ w.mixed \in BOOLEAN /\ DOMAIN w.updates \subseteq w.from..(w.at - 1)
      /\ ~w.mixed => /\ \A i \in w.from..(w.at - 1) : RowIsDone(check, w, i)
                     /\ \A i \in 1..w.upto : rs[i] = w.read[i]
  BY DEF WalkIsAhead
<1>6. w.at \notin DOMAIN w.updates /\ (w.at + 1) - 1 = w.at
  BY <1>4, <1>5
<1>7. /\ (new.status = row.status) = Stands(check, row, l, w.frame)
      /\ Stands(check, new, l, w.frame)
  <2>1. new = Reverdict(row, l, w.frame)
    BY <1>1 DEF NewRow
  <2>2. Stands(check, new, l, w.frame)
    BY <1>1, <2>1, AgainItStands
  <2>3. new = ReverdictOf(check, row, l, w.frame)
    BY <2>1, AgainIsReverdict
  <2>4. Stands(check, row, l, w.frame) <=> new.status = row.status
    BY <2>3 DEF Stands
  <2>5. Stands(check, row, l, w.frame) \in BOOLEAN
    BY DEF Stands
  <2> QED BY <2>2, <2>4, <2>5
<1>8. \/ new.status = row.status /\ u = w.updates
      \/ /\ new.status # row.status
         /\ DOMAIN u = DOMAIN w.updates \cup {w.at}
         /\ \A i \in DOMAIN w.updates : u[i] = w.updates[i]
         /\ u[w.at] = new
  BY <1>1, <1>6, WhatIsToWrite
<1>9. DOMAIN u \subseteq w.from..w.at
  <2>1. w.from..(w.at - 1) \subseteq w.from..w.at /\ w.at \in w.from..w.at
    BY <1>4
  <2> QED BY <1>5, <1>8, <2>1
<1>10. (w.mixed \/ l # w.under) \in BOOLEAN /\ v.mixed = (w.mixed \/ l # w.under)
  BY <1>3, <1>5 DEF MixedBy
<1>11. ASSUME ~w.mixed, l = w.under, NEW i \in w.from..w.at
       PROVE  RowIsDone(check, v, i)
  <2>1. PICK frame : frame = FrameAt(check, w.read, w.from, i)
    OBVIOUS
  <2>2. CASE i = w.at
    <3>1. frame = w.frame
      BY <1>4, <2>1, <2>2
    <3>2. CASE new.status = row.status
      <4>1. Stands(check, row, w.under, frame) /\ i \notin DOMAIN u
        BY <1>6, <1>7, <1>8, <1>11, <2>2, <3>1, <3>2
      <4> QED BY <1>1, <1>2, <2>1, <2>2, <4>1 DEF RowIsDone
    <3>3. CASE new.status # row.status
      <4>1. /\ ~Stands(check, row, w.under, frame) /\ Stands(check, new, w.under, frame)
            /\ i \in DOMAIN u /\ u[i] = new
        BY <1>7, <1>8, <1>11, <2>2, <3>1, <3>3
      <4> QED BY <1>1, <1>2, <2>1, <2>2, <4>1 DEF RowIsDone
    <3> QED BY <3>2, <3>3
  <2>3. CASE i # w.at
    <3>1. i \in w.from..(w.at - 1)
      BY <1>4, <2>3
    <3>2. RowIsDone(check, w, i)
      BY <1>5, <1>11, <3>1
    <3>3. (i \in DOMAIN u <=> i \in DOMAIN w.updates) /\ (i \in DOMAIN w.updates => u[i] = w.updates[i])
      BY <1>8, <2>3
    <3> QED BY <1>2, <3>2, <3>3 DEF RowIsDone
  <2> QED BY <2>2, <2>3
<1>12. v.at - 1 = w.at
  BY <1>2, <1>6
<1>13. ASSUME ~v.mixed
       PROVE  /\ \A i \in v.from..(v.at - 1) : RowIsDone(check, v, i)
              /\ \A i \in 1..v.upto : rs[i] = v.read[i]
  <2>1. ~w.mixed /\ l = w.under
    BY <1>10, <1>13
  <2>2. \A i \in 1..v.upto : rs[i] = v.read[i]
    BY <1>2, <1>5, <2>1
  <2>3. \A i \in v.from..(v.at - 1) : RowIsDone(check, v, i)
    BY <1>2, <1>11, <1>12, <2>1
  <2> QED BY <2>2, <2>3
<1>14. v.mixed \in BOOLEAN
  BY <1>10
<1>15. DOMAIN v.updates \subseteq v.from..(v.at - 1)
  BY <1>2, <1>9, <1>12
<1> QED BY <1>13, <1>14, <1>15 DEF WalkIsAhead

\* A job that has walked and wrote leaves its rows settled.
LEMMA WrittenIsSettled ==
  ASSUME NEW w, NEW rs, NEW ss, Len(rs) \in Nat, Len(ss) = Len(rs),
         WalkIsAhead(check, w, rs), WalkIsAt(check, w), WalkAgrees(check, w, rs), w.at > w.upto,
         ~w.mixed, \A i \in 1..Len(rs) : ss[i] = IF i \in DOMAIN w.updates THEN w.updates[i] ELSE rs[i]
  PROVE  /\ w.from \in Nat /\ 1 <= w.from /\ w.upto \in Nat /\ w.upto <= Len(ss)
         /\ \A i \in w.from..w.upto : Stands(check, ss[i], w.under, FrameAt(check, ss, w.from, i))
<1>1. /\ w.from \in Nat /\ w.at \in Nat /\ 1 <= w.from /\ w.at <= w.upto + 1
      /\ w.upto \in Nat /\ w.upto <= Len(ss)
  BY DEF WalkIsAt, WalkAgrees
<1>2. w.at - 1 = w.upto
  BY <1>1
<1>3. /\ \A i \in w.from..w.upto : RowIsDone(check, w, i)
      /\ \A i \in 1..w.upto : rs[i] = w.read[i]
  BY <1>2 DEF WalkIsAhead
<1>4. ASSUME NEW i \in w.from..w.upto
      PROVE  Stands(check, ss[i], w.under, FrameAt(check, ss, w.from, i))
  <2>1. i \in 1..w.upto /\ i \in 1..Len(rs) /\ i \in Nat
    BY <1>1
  <2>2. FrameAt(check, ss, w.from, i) = FrameAt(check, w.read, w.from, i)
    <3>1. ASSUME check = "L4", NEW k \in w.from..(i - 1) PROVE ss[k].facts = w.read[k].facts
      <4>1. k \in 1..w.upto /\ k \in 1..Len(rs)
        BY <1>1, <2>1
      <4>2. CASE k \in DOMAIN w.updates
        <5>1. SameRun(check, rs[k], w.updates[k])
          BY <4>2 DEF WalkAgrees
        <5>2. w.updates[k].facts = rs[k].facts
          BY <3>1, <5>1 DEF SameRun
        <5> QED BY <1>3, <4>1, <4>2, <5>2
      <4>3. CASE k \notin DOMAIN w.updates
        BY <1>3, <4>1, <4>3
      <4> QED BY <4>2, <4>3
    <3>2. PICK rd : rd = w.read
      OBVIOUS
    <3>3. FrameAt(check, ss, w.from, i) = FrameAt(check, rd, w.from, i)
      BY <1>1, <2>1, <3>1, <3>2, FrameOfTheSame
    <3> QED BY <3>2, <3>3
  <2>3. RowIsDone(check, w, i)
    BY <1>3
  <2>4. ss[i] = IF i \in DOMAIN w.updates THEN w.updates[i] ELSE w.read[i]
    BY <1>3, <2>1
  <2> QED BY <2>2, <2>3, <2>4 DEF RowIsDone
<1> QED BY <1>1, <1>4

LEMMA RepeatInductive == RepeatInv /\ [ReprocessNext]_reVars => RepeatInv'
<1> SUFFICES ASSUME RepeatInv, [ReprocessNext]_reVars PROVE RepeatInv'
  OBVIOUS
<1>a. /\ InStepInv /\ JobsAreAhead /\ LastIsSettled /\ HistoryInv /\ JobsAgree
      /\ check \in Check /\ \E S : rows \in Seq(S)
      /\ job = [k \in Job |-> job[k]] /\ \A k \in Job : WalkKept(check, job[k])
  BY DEF RepeatInv, InStepInv, HistoryInv
<1>b. InStepInv'
  BY <1>a, InStepInductive
<1>c. Len(rows) \in Nat /\ Len(rows) <= Len(rows)
  <2>1. \A S : rows \in Seq(S) => Len(rows) \in Nat
    BY LenProperties
  <2> QED BY <1>a, <2>1
<1>d. settled = LastJob(settled.from, settled.upto, settled.under, settled.mixed, settled.saves)
  BY <1>a DEF LastIsSettled
<1>e. ASSUME job' = job PROVE JobsRest
  BY <1>a, <1>e DEF JobsRest
<1>f. ASSUME UNCHANGED <<check, rows>>, JobsRest,
             \E saves : settled' = LastJob(settled.from, settled.upto, settled.under, settled.mixed, saves)
      PROVE  RepeatInv'
  <2>1. /\ \A i \in 1..Len(rows) : rows'[i] = rows[i]
        /\ Len(rows') = Len(rows) /\ Len(rows') \in Nat /\ check' = check
    BY <1>c, <1>f
  <2> QED BY <1>b, <1>c, <1>f, <2>1, RepeatRests
<1>1. ASSUME NEW o \in Observation[check], Run(o) PROVE RepeatInv'
  <2>1. PICK row : rows' = Append(rows, row)
    BY <1>1 DEF Run
  <2>2. /\ Len(rows') = Len(rows) + 1
        /\ \A i \in 1..Len(rows) : rows'[i] = rows[i]
    BY <1>a, <2>1, HistoryGrows
  <2>3. check' = check /\ job' = job /\ settled' = settled
    BY <1>1 DEF Run
  <2>4. Len(rows') \in Nat /\ Len(rows) <= Len(rows')
    BY <1>c, <2>2
  <2>5. \E saves : settled' = LastJob(settled.from, settled.upto, settled.under, settled.mixed, saves)
    BY <1>d, <2>3
  <2> QED BY <1>b, <1>c, <1>e, <2>2, <2>3, <2>4, <2>5, RepeatRests
<1>2. ASSUME NEW l, save_blob(l) PROVE RepeatInv'
  <2>1. UNCHANGED <<check, rows, job>> /\ settled' = [settled EXCEPT !.saves = settled.saves + 1]
    BY <1>2 DEF save_blob
  <2>2. settled' = LastJob(settled.from, settled.upto, settled.under, settled.mixed, settled.saves + 1)
    BY <1>d, <2>1 DEF LastJob
  <2>3. \E saves : settled' = LastJob(settled.from, settled.upto, settled.under, settled.mixed, saves)
    BY <2>2
  <2> QED BY <1>e, <1>f, <2>1, <2>3
<1>3. CASE Restart \/ \E j \in Job : reprocess_cancel(j) \/ JobFails(j)
  <2>1. JobsRest /\ UNCHANGED <<check, rows, settled>>
    BY <1>3, <1>a, JobsEnd
  <2>2. \E saves : settled' = LastJob(settled.from, settled.upto, settled.under, settled.mixed, saves)
    BY <1>d, <2>1
  <2> QED BY <1>f, <2>1, <2>2
<1>4. ASSUME NEW j \in Job, NEW from \in 1..Len(rows), JobStart(j, from) PROVE RepeatInv'
  <2>1. /\ OtherJobs(j) /\ job'[j] = Walk(from, from, Len(rows), rows, NoFrame, <<>>, lim, FALSE)
        /\ UNCHANGED <<check, rows, settled>>
    BY <1>4, <1>a, JobBegins
  <2>2. PICK w : w = job'[j]
    OBVIOUS
  <2>3. /\ w.from = from /\ w.at = from /\ w.upto = Len(rows) /\ w.read = rows
        /\ w.updates = <<>> /\ w.mixed = FALSE
    BY <2>1, <2>2 DEF Walk
  <2>4. DOMAIN w.updates = {} /\ w.from..(w.at - 1) = {}
    BY <1>c, <2>3
  <2>5. WalkIsAhead(check, w, rows)
    <3>1. w.mixed \in BOOLEAN
      BY <2>3, Zenon
    <3>2. \A i \in 1..w.upto : rows[i] = w.read[i]
      BY <2>3
    <3> QED BY <2>4, <3>1, <3>2 DEF WalkIsAhead
  <2> QED BY <1>b, <2>1, <2>2, <2>5, RepeatMoves
<1>5. ASSUME NEW j \in Job, JobRow(j) PROVE RepeatInv'
  <2>1. PICK w : w = job[j]
    OBVIOUS
  <2>2. /\ OtherJobs(j) /\ UNCHANGED <<check, rows, settled>>
        /\ w.state = "walking" /\ w.at \in 1..w.upto /\ w.upto \in Nat
        /\ job'[j] = GoneOn(w, lim)
    BY <1>5, <1>a, <2>1, JobGoesOn
  <2>3. /\ WalkIsAt(check, w) /\ WalkIsAhead(check, w, rows) /\ RowKept(check, w.read[w.at])
    BY <1>a, <2>1, <2>2 DEF JobsAgree, JobsAreAhead, WalkKept
  <2>4. WalkIsAhead(check, job'[j], rows)
    BY <1>a, <2>2, <2>3, AheadByOne
  <2> QED BY <1>b, <2>2, <2>4, RepeatMoves
<1>6. ASSUME NEW j \in Job, JobWrite(j) PROVE RepeatInv'
  <2>1. PICK w, u : w = job[j] /\ u = w.updates
    OBVIOUS
  <2>2. /\ w.state = "walking" /\ w.at > w.upto /\ check' = check /\ rows' = Written(u)
        /\ \A k \in Job :
             job'[k].state = "walking" =>
               /\ job[k].state = "walking"
               /\ \/ job'[k] = job[k] /\ DOMAIN u = {}
                  \/ job'[k] = Walk(job[k].from, job[k].at, job[k].upto, job[k].read, job[k].frame,
                                    job[k].updates, job[k].under, TRUE)
    BY <1>6, <1>a, <2>1, JobIsWritten
  <2>3. /\ Len(rows') = Len(rows)
        /\ \A i \in 1..Len(rows) : rows'[i] = IF i \in DOMAIN u THEN u[i] ELSE rows[i]
    BY <1>a, <2>2, HistoryStays
  <2>4. WalkAgrees(check, w, rows) /\ WalkIsAt(check, w) /\ WalkIsAhead(check, w, rows)
    BY <1>a, <2>1, <2>2 DEF JobsAgree, JobsAreAhead
  <2>5. settled' = [settled EXCEPT !.from = w.from, !.upto = w.upto, !.under = w.under,
                                   !.mixed = w.mixed]
    BY <1>6, <2>1 DEF JobWrite
  <2>6. settled' = LastJob(w.from, w.upto, w.under, w.mixed, settled.saves)
    BY <1>d, <2>5 DEF LastJob
  <2>7. /\ settled'.from = w.from /\ settled'.upto = w.upto
        /\ settled'.under = w.under /\ settled'.mixed = w.mixed
        /\ settled' = LastJob(settled'.from, settled'.upto, settled'.under, settled'.mixed,
                              settled'.saves)
    BY <2>6 DEF LastJob
  <2>8. LastIsSettled'
    <3>1. w.mixed \in BOOLEAN
      BY <2>4 DEF WalkIsAhead
    <3>2. ASSUME ~w.mixed
          PROVE  /\ w.from \in Nat /\ 1 <= w.from /\ w.upto \in Nat /\ w.upto <= Len(rows')
                 /\ \A i \in w.from..w.upto :
                      Stands(check, rows'[i], w.under, FrameAt(check, rows', w.from, i))
      <4>1. PICK ss : ss = rows'
        OBVIOUS
      <4>2. /\ w.from \in Nat /\ 1 <= w.from /\ w.upto \in Nat /\ w.upto <= Len(ss)
            /\ \A i \in w.from..w.upto : Stands(check, ss[i], w.under, FrameAt(check, ss, w.from, i))
        BY <1>c, <2>1, <2>2, <2>3, <2>4, <3>2, <4>1, WrittenIsSettled
      <4> QED BY <4>1, <4>2
    <3> QED BY <2>2, <2>7, <3>1, <3>2 DEF LastIsSettled
  <2>9. JobsAreAhead'
    <3> SUFFICES ASSUME NEW k \in Job, job'[k].state = "walking"
                 PROVE  WalkIsAhead(check, job'[k], rows')
      BY <2>2 DEF JobsAreAhead
    <3>1. PICK x, y : x = job[k] /\ y = job'[k]
      OBVIOUS
    <3>2. WalkIsAhead(check, x, rows) /\ WalkAgrees(check, x, rows)
      BY <1>a, <2>2, <3>1 DEF JobsAgree, JobsAreAhead
    <3>3. CASE y = x /\ DOMAIN u = {}
      <4>1. \A i \in 1..x.upto : rows'[i] = rows[i]
        BY <1>c, <2>3, <3>2, <3>3 DEF WalkAgrees
      <4> QED BY <3>1, <3>2, <3>3, <4>1 DEF WalkIsAhead
    <3>4. CASE y = Walk(x.from, x.at, x.upto, x.read, x.frame, x.updates, x.under, TRUE)
      <4>1. y.from = x.from /\ y.at = x.at /\ y.updates = x.updates /\ y.mixed = TRUE
        BY <3>4 DEF Walk
      <4>2. y.mixed \in BOOLEAN /\ y.mixed
        BY <4>1, Zenon
      <4>3. DOMAIN y.updates \subseteq y.from..(y.at - 1)
        BY <3>2, <4>1 DEF WalkIsAhead
      <4> QED BY <3>1, <4>2, <4>3 DEF WalkIsAhead
    <3> QED BY <2>2, <3>1, <3>3, <3>4
  <2> QED BY <1>b, <2>8, <2>9 DEF RepeatInv
<1>7. CASE UNCHANGED reVars
  <2>1. UNCHANGED <<check, rows, job, settled>>
    BY <1>7 DEF reVars
  <2>2. \E saves : settled' = LastJob(settled.from, settled.upto, settled.under, settled.mixed, saves)
    BY <1>d, <2>1
  <2> QED BY <1>e, <1>f, <2>1, <2>2
<1> QED BY <1>1, <1>2, <1>3, <1>4, <1>5, <1>6, <1>7 DEF ReprocessNext

LEMMA RepeatBegins == ReprocessInit => RepeatInv
<1> SUFFICES ASSUME ReprocessInit PROVE RepeatInv
  OBVIOUS
<1>1. JobsAreAhead
  BY DEF ReprocessInit, JobsAreAhead, NoJob
<1>2. LastIsSettled
  BY DEF ReprocessInit, LastIsSettled, LastJob
<1> QED BY <1>1, <1>2, InStepBegins DEF RepeatInv

\* A second job over the same rows, under the same thresholds throughout, writes
\* nothing, whatever the rows recorded and whatever was added, cancelled or restarted
\* between the two, or walked beside them, as long as no other job wrote while either
\* walked (run_reprocess, reprocess_engine.py:667-673).
THEOREM RepeatsWriteNothing == ReprocessSpec => RepeatChangesNothing
<1>1. RepeatInv /\ [ReprocessNext]_reVars
        => [\A j \in Job :
              /\ JobWrite(j) /\ ~job[j].mixed /\ ~settled.mixed /\ job[j].under = settled.under
              /\ job[j].from = settled.from /\ job[j].upto = settled.upto
              => rows' = rows]_reVars
  <2> SUFFICES ASSUME RepeatInv, NEW j \in Job, JobWrite(j), NEW w, w = job[j],
                      ~w.mixed, ~settled.mixed, w.under = settled.under,
                      w.from = settled.from, w.upto = settled.upto
               PROVE  rows' = rows
    OBVIOUS
  <2>1. HistoryInv /\ JobsAgree /\ JobsAreAhead /\ LastIsSettled
    BY DEF RepeatInv, InStepInv
  <2>2. PICK u : u = w.updates
    OBVIOUS
  <2>3. w.state = "walking" /\ w.at > w.upto /\ rows' = Written(u)
    BY <2>1, <2>2, JobIsWritten
  <2>4. WalkAgrees(check, w, rows) /\ WalkIsAt(check, w) /\ WalkIsAhead(check, w, rows)
    BY <2>1, <2>3 DEF JobsAgree, JobsAreAhead
  <2>5. /\ w.from \in Nat /\ w.at \in Nat /\ 1 <= w.from /\ w.at <= w.upto + 1 /\ w.upto \in Nat
    BY <2>4 DEF WalkIsAt, WalkAgrees
  <2>6. w.at - 1 = w.upto
    BY <2>3, <2>5
  <2>7. /\ DOMAIN u \subseteq w.from..w.upto
        /\ \A i \in w.from..w.upto : RowIsDone(check, w, i)
        /\ \A i \in 1..w.upto : rows[i] = w.read[i]
    BY <2>2, <2>4, <2>6 DEF WalkIsAhead
  <2>8. \A i \in w.from..w.upto : Stands(check, rows[i], w.under, FrameAt(check, rows, w.from, i))
    BY <2>1 DEF LastIsSettled
  <2>9. DOMAIN u = {}
    <3> SUFFICES ASSUME NEW i \in DOMAIN u PROVE FALSE
      OBVIOUS
    <3>1. i \in w.from..w.upto /\ RowIsDone(check, w, i)
      BY <2>7
    <3>2. PICK rd : rd = w.read
      OBVIOUS
    <3>3. i \in Nat /\ rd[i] = rows[i] /\ \A k \in w.from..(i - 1) : rows[k].facts = rd[k].facts
      BY <2>5, <2>7, <3>1, <3>2
    <3>4. FrameAt(check, rows, w.from, i) = FrameAt(check, rd, w.from, i)
      BY <2>5, <3>3, FrameOfTheSame
    <3>5. Stands(check, rd[i], w.under, FrameAt(check, rd, w.from, i))
      BY <2>8, <3>1, <3>3, <3>4
    <3> QED BY <2>2, <3>1, <3>2, <3>5 DEF RowIsDone
  <2>10. PICK S : rows \in Seq(S)
    BY <2>1 DEF HistoryInv
  <2>11. rows = [i \in 1..Len(rows) |-> rows[i]]
    BY <2>10, LenProperties
  <2> QED BY <2>3, <2>9, <2>11 DEF Written
<1> QED BY <1>1, RepeatBegins, RepeatInductive, PTL DEF ReprocessSpec, RepeatChangesNothing

-----------------------------------------------------------------------------
(* The figures of the report *)

\* The figures are sums; each is of the sizes of sets that have nothing in common, and
\* so the size of what they make together.
UnionOf(P, s) == UNION {P[i] : i \in s}

LEMMA OneMorePart ==
  ASSUME NEW I, IsFiniteSet(I), NEW P, \A i \in I : IsFiniteSet(P[i]),
         \A i, j \in I : i # j => P[i] \cap P[j] = {},
         NEW s \in SUBSET I, NEW x \in s
  PROVE  /\ Cardinality(UnionOf(P, s)) = Cardinality(P[x]) + Cardinality(UnionOf(P, s \ {x}))
         /\ IsFiniteSet(UnionOf(P, s)) /\ Cardinality(UnionOf(P, s \ {x})) \in Nat
<1> DEFINE R == UnionOf(P, s \ {x})
<1>1. UnionOf(P, s) = P[x] \cup R /\ P[x] \cap R = {}
  BY DEF UnionOf
<1>2. IsFiniteSet(R)
  <2> DEFINE T == s \ {x}
             Q == [i \in T |-> P[i]]
             U == {P[i] : i \in T}
  <2>1. IsFiniteSet(T)
    BY FS_Subset
  <2>2. Q \in Surjection(T, U)
    BY DEF Surjection
  <2>3. IsFiniteSet(U)
    BY <2>1, <2>2, FS_Surjection
  <2>4. \A p \in U : IsFiniteSet(p)
    OBVIOUS
  <2> QED BY <2>3, <2>4, FS_UNION DEF UnionOf
<1>3. IsFiniteSet(P[x])
  OBVIOUS
<1> HIDE DEF R
<1>4. /\ IsFiniteSet(P[x] \cup R)
      /\ Cardinality(P[x] \cup R) = Cardinality(P[x]) + Cardinality(R) - Cardinality(P[x] \cap R)
  BY <1>2, <1>3, FS_Union
<1>5. Cardinality(P[x]) \in Nat /\ Cardinality(R) \in Nat
  BY <1>2, <1>3, FS_CardinalityType
<1>6. Cardinality(P[x] \cap R) = 0
  BY <1>1, FS_EmptySet
<1> QED BY <1>1, <1>4, <1>5, <1>6 DEF R

LEMMA SumOfParts ==
  ASSUME NEW I, IsFiniteSet(I), NEW P, \A i \in I : IsFiniteSet(P[i]),
         \A i, j \in I : i # j => P[i] \cap P[j] = {},
         NEW g, DOMAIN g = I, \A i \in I : g[i] = Cardinality(P[i])
  PROVE  SumFunction(g) = Cardinality(UnionOf(P, I))
<1> DEFINE Step(it) == [s \in SUBSET I |->
                         IF s = {} THEN 0
                         ELSE g[CHOOSE x \in s : TRUE] + it[s \ {CHOOSE x \in s : TRUE}]]
           sum == CHOOSE it : it = Step(it)
           total == [s \in SUBSET I |-> Cardinality(UnionOf(P, s))]
<1>1. SumFunction(g) = sum[I]
  BY Zenon DEF SumFunction, SumFunctionOnSet, FoldFunctionOnSet, MapThenFoldSet
<1>2. total = Step(total)
  <2>1. ASSUME NEW s \in SUBSET I
        PROVE  total[s] = IF s = {} THEN 0
                          ELSE g[CHOOSE x \in s : TRUE] + total[s \ {CHOOSE x \in s : TRUE}]
    <3>1. CASE s = {}
      <4>1. UnionOf(P, s) = {}
        BY <3>1 DEF UnionOf
      <4> QED BY <3>1, <4>1, FS_EmptySet
    <3>2. CASE s # {}
      <4>1. PICK x \in s : x = CHOOSE y \in s : TRUE
        BY <3>2
      <4>2. Cardinality(UnionOf(P, s)) = Cardinality(P[x]) + Cardinality(UnionOf(P, s \ {x}))
        BY OneMorePart
      <4>3. g[x] = Cardinality(P[x]) /\ s \ {x} \in SUBSET I
        OBVIOUS
      <4> QED BY <3>2, <4>1, <4>2, <4>3
    <3> QED BY <3>1, <3>2
  <2> HIDE DEF total
  <2>2. total = [s \in SUBSET I |-> total[s]]
    BY DEF total
  <2> QED BY <2>1, <2>2, Zenon
<1>3. sum = Step(sum)
  <2>1. \E it : it = Step(it)
    BY <1>2, Zenon
  <2> QED BY <2>1, Zenon
<1>4. \A s \in SUBSET I : sum[s] = total[s]
  <2> DEFINE B == {s \in SUBSET I : sum[s] # total[s]}
             R == StrictSubsetOrdering(I)
  <2>1. B = {}
    <3> SUFFICES ASSUME B # {} PROVE FALSE
      OBVIOUS
    <3>1. IsWellFoundedOn(R, SUBSET I)
      <4>1. IsWellFoundedOn(R, FiniteSubsetsOf(I))
        BY FS_StrictSubsetOrderingWellFounded
      <4>2. FiniteSubsetsOf(I) = SUBSET I
        BY FS_FiniteSubsetsOfFinite
      <4> HIDE DEF R
      <4> QED BY <4>1, <4>2
    <3>2. B \subseteq SUBSET I
      OBVIOUS
    <3>3. PICK s \in B : \A t \in B : ~(<<t, s>> \in R)
      <4> HIDE DEF B, R
      <4> QED BY <3>1, <3>2, WFMin
    <3>4. s \in SUBSET I /\ sum[s] # total[s]
      OBVIOUS
    <3> HIDE DEF sum, total
    <3>5. /\ sum[s] = IF s = {} THEN 0
                      ELSE g[CHOOSE x \in s : TRUE] + sum[s \ {CHOOSE x \in s : TRUE}]
          /\ total[s] = IF s = {} THEN 0
                        ELSE g[CHOOSE x \in s : TRUE] + total[s \ {CHOOSE x \in s : TRUE}]
      <4>1. \A it : it = Step(it) =>
              it[s] = IF s = {} THEN 0
                      ELSE g[CHOOSE x \in s : TRUE] + it[s \ {CHOOSE x \in s : TRUE}]
        <5> SUFFICES ASSUME NEW it, it = Step(it)
                     PROVE  it[s] = IF s = {} THEN 0
                                    ELSE g[CHOOSE x \in s : TRUE] + it[s \ {CHOOSE x \in s : TRUE}]
          OBVIOUS
        <5> DEFINE e(t) == IF t = {} THEN 0
                           ELSE g[CHOOSE x \in t : TRUE] + it[t \ {CHOOSE x \in t : TRUE}]
        <5>1. it = [t \in SUBSET I |-> e(t)]
          OBVIOUS
        <5> HIDE DEF e
        <5>2. it[s] = e(s)
          BY <3>4, <5>1
        <5> QED BY <5>2 DEF e
      <4> QED BY <1>2, <1>3, <4>1, Zenon
    <3>6. s # {}
      BY <3>4, <3>5
    <3>7. PICK x \in s : x = CHOOSE y \in s : TRUE
      BY <3>6
    <3>8. s \ {x} \notin B
      <4>1. <<s \ {x}, s>> \in R
        BY <3>4, <3>7 DEF StrictSubsetOrdering
      <4> HIDE DEF B, R
      <4> QED BY <3>3, <4>1
    <3>9. sum[s \ {x}] = total[s \ {x}]
      BY <3>4, <3>8
    <3> QED BY <3>4, <3>5, <3>6, <3>7, <3>9
  <2> HIDE DEF sum, total
  <2> QED BY <2>1
<1> HIDE DEF sum
<1>5. I \in SUBSET I
  OBVIOUS
<1> QED BY <1>1, <1>4, <1>5

\* The worst of some readings is the class of one of them; of none it is unknown.
LEMMA WorstOfReadings ==
  ASSUME NEW R
  PROVE  /\ WorstClass(R) \in {0, 1, 2} <=> R # {}
         /\ WorstClass(R) \in {Unknown, 0, 1, 2}
         /\ R = {} => WorstClass(R) = Unknown
         /\ \A r \in R : Class(r) <= WorstClass(R)
         /\ R # {} => \E r \in R : WorstClass(R) = Class(r)
<1> DEFINE S == {Class(r) : r \in R} \cup {Unknown}
<1>1. S \in SUBSET Int /\ S # {} /\ \A s \in S : s <= 2
  BY DEF Class, Unknown
<1>2. Max(S) \in S /\ \A s \in S : s <= Max(S)
  <2>1. PICK two \in Int : two = 2
    OBVIOUS
  <2> HIDE DEF S
  <2>2. \A s \in S : s <= two
    BY <1>1, <2>1
  <2> QED BY <1>1, <2>2, LastMomentOf
<1>3. WorstClass(R) = Max(S)
  BY DEF WorstClass
<1> DEFINE m == Max(S)
<1>4. m \in S /\ \A s \in S : s <= m
  BY <1>2
<1> HIDE DEF m
<1>5. \A r \in R : Class(r) \in {0, 1, 2} /\ Class(r) <= m
  BY <1>4 DEF Class
<1>6. m = Unknown \/ \E r \in R : m = Class(r)
  BY <1>4
<1>7. R # {} => m # Unknown
  BY <1>5 DEF Unknown
<1>8. m \in {Unknown, 0, 1, 2} /\ (m \in {0, 1, 2} <=> R # {})
  BY <1>5, <1>6, <1>7 DEF Unknown
<1>9. R = {} => m = Unknown
  BY <1>6
<1>10. R # {} => \E r \in R : m = Class(r)
  BY <1>6, <1>7
<1> QED BY <1>3, <1>5, <1>8, <1>9, <1>10 DEF m

\* The episodes of some timesteps: each timestep is in the one of its class and number.
Members(bad) == [e \in Episodes(bad) |-> Together(bad, e.class, e.g)]

LEMMA EpisodeIsOf ==
  ASSUME NEW bad, NEW e \in Episodes(bad)
  PROVE  \E i \in DOMAIN bad :
           /\ e.class = bad[i] /\ e.g = grp(bad, i)
           /\ e.n_runs = Cardinality(Together(bad, e.class, e.g))
           /\ e.started = Min(Together(bad, e.class, e.g)) /\ i \in Together(bad, e.class, e.g)
<1>1. PICK i \in DOMAIN bad :
        e = Episode(bad[i], grp(bad, i), Together(bad, bad[i], grp(bad, i)))
  BY DEF Episodes
<1>2. /\ e.class = bad[i] /\ e.g = grp(bad, i)
      /\ e.n_runs = Cardinality(Together(bad, bad[i], grp(bad, i)))
      /\ e.started = Min(Together(bad, bad[i], grp(bad, i)))
  BY <1>1 DEF Episode
<1>3. i \in Together(bad, bad[i], grp(bad, i))
  BY DEF Together
<1> QED BY <1>2, <1>3

LEMMA EpisodeOf ==
  ASSUME NEW bad, NEW i \in DOMAIN bad
  PROVE  \E e \in Episodes(bad) :
           e.class = bad[i] /\ e.g = grp(bad, i) /\ i \in Together(bad, e.class, e.g)
<1> DEFINE e == Episode(bad[i], grp(bad, i), Together(bad, bad[i], grp(bad, i)))
<1>1. e \in Episodes(bad)
  BY DEF Episodes
<1>2. e.class = bad[i] /\ e.g = grp(bad, i)
  BY DEF Episode
<1>3. i \in Together(bad, bad[i], grp(bad, i))
  BY DEF Together
<1> HIDE DEF e
<1> QED BY <1>1, <1>2, <1>3

LEMMA EpisodesArePart ==
  ASSUME NEW bad, IsFiniteSet(DOMAIN bad)
  PROVE  /\ IsFiniteSet(Episodes(bad))
         /\ \A e \in Episodes(bad) :
              /\ IsFiniteSet(Members(bad)[e]) /\ e.n_runs = Cardinality(Members(bad)[e])
              /\ Members(bad)[e] \subseteq DOMAIN bad
         /\ \A e, f \in Episodes(bad) : e # f => Members(bad)[e] \cap Members(bad)[f] = {}
         /\ \A C : UnionOf(Members(bad), {e \in Episodes(bad) : e.class \in C})
                     = {i \in DOMAIN bad : bad[i] \in C}
<1> DEFINE E == Episodes(bad)
<1>1. IsFiniteSet(E)
  <2> DEFINE I == DOMAIN bad
             Q == [i \in I |-> Episode(bad[i], grp(bad, i), Together(bad, bad[i], grp(bad, i)))]
  <2>1. E = {Q[i] : i \in I}
    BY DEF Episodes
  <2> HIDE DEF Q
  <2>2. DOMAIN Q = I
    BY DEF Q
  <2> HIDE DEF E, I
  <2>3. Q \in [I -> E] /\ \A e \in E : \E i \in I : Q[i] = e
    <3>1. Q = [i \in I |-> Q[i]]
      BY DEF Q
    <3> QED BY <2>1, <3>1
  <2>4. Q \in Surjection(I, E)
    BY <2>3 DEF Surjection
  <2> QED BY <2>4, FS_Surjection DEF I
<1>2. ASSUME NEW e \in E
      PROVE  /\ IsFiniteSet(Members(bad)[e]) /\ e.n_runs = Cardinality(Members(bad)[e])
             /\ Members(bad)[e] \subseteq DOMAIN bad
  <2>1. Members(bad)[e] = Together(bad, e.class, e.g)
    BY DEF Members
  <2>2. Together(bad, e.class, e.g) \in SUBSET (DOMAIN bad)
    BY DEF Together
  <2>3. IsFiniteSet(Together(bad, e.class, e.g))
    BY <2>2, FS_Subset
  <2>4. e.n_runs = Cardinality(Together(bad, e.class, e.g))
    BY EpisodeIsOf
  <2> QED BY <2>1, <2>2, <2>3, <2>4
<1>3. ASSUME NEW e \in E, NEW f \in E, NEW k \in Members(bad)[e], k \in Members(bad)[f]
      PROVE  e = f
  <2>1. k \in Together(bad, e.class, e.g) /\ k \in Together(bad, f.class, f.g)
    BY <1>3 DEF Members
  <2>2. e.class = f.class /\ e.g = f.g
    BY <2>1 DEF Together
  <2>3. e = Episode(e.class, e.g, Together(bad, e.class, e.g))
    BY DEF Episodes, Episode
  <2>4. f = Episode(f.class, f.g, Together(bad, f.class, f.g))
    BY DEF Episodes, Episode
  <2> QED BY <2>2, <2>3, <2>4
<1>4. ASSUME NEW C
      PROVE  UnionOf(Members(bad), {e \in E : e.class \in C}) = {i \in DOMAIN bad : bad[i] \in C}
  <2>1. ASSUME NEW e \in E, e.class \in C, NEW i \in Members(bad)[e]
        PROVE  i \in DOMAIN bad /\ bad[i] \in C
    BY <2>1 DEF Members, Together
  <2>2. ASSUME NEW i \in DOMAIN bad, bad[i] \in C
        PROVE  \E e \in E : e.class \in C /\ i \in Members(bad)[e]
    <3>1. PICK e \in E : e.class = bad[i] /\ i \in Together(bad, e.class, e.g)
      BY EpisodeOf
    <3> QED BY <2>2, <3>1 DEF Members
  <2> HIDE DEF E
  <2> QED BY <2>1, <2>2 DEF UnionOf
<1> QED BY <1>1, <1>2, <1>3, <1>4

\* The runs of some episodes are as many as the timesteps they have.
LEMMA RunsOfSome ==
  ASSUME NEW bad, IsFiniteSet(DOMAIN bad), NEW F \in SUBSET Episodes(bad)
  PROVE  /\ RunsOf(F) = Cardinality(UnionOf(Members(bad), F))
         /\ IsFiniteSet(UnionOf(Members(bad), F))
<1>1. IsFiniteSet(F)
  BY EpisodesArePart, FS_Subset
<1>2. /\ \A e \in F : /\ IsFiniteSet(Members(bad)[e]) /\ e.n_runs = Cardinality(Members(bad)[e])
                      /\ Members(bad)[e] \subseteq DOMAIN bad
      /\ \A e, f \in F : e # f => Members(bad)[e] \cap Members(bad)[f] = {}
  BY EpisodesArePart
<1> DEFINE g == [e \in F |-> e.n_runs]
<1>3. DOMAIN g = F /\ \A e \in F : g[e] = Cardinality(Members(bad)[e])
  BY <1>2
<1> HIDE DEF g
<1>4. SumFunction(g) = Cardinality(UnionOf(Members(bad), F))
  BY <1>1, <1>2, <1>3, SumOfParts
<1>5. UnionOf(Members(bad), F) \in SUBSET (DOMAIN bad)
  BY <1>2 DEF UnionOf
<1> QED BY <1>4, <1>5, FS_Subset DEF RunsOf, g

EpisodesOf(bad, C) == {e \in Episodes(bad) : e.class \in C}
StepsOf(bad, C) == {i \in DOMAIN bad : bad[i] \in C}

\* Those of one class are as many as its timesteps, however they are told apart.
LEMMA RunsOfClass ==
  ASSUME NEW bad, IsFiniteSet(DOMAIN bad), NEW C, NEW B
  PROVE  /\ RunsOf(EpisodesOf(bad, C)) = Cardinality(StepsOf(bad, C))
         /\ RunsOf(EpisodesOf(bad, C) \ B) + RunsOf(EpisodesOf(bad, C) \cap B)
              = Cardinality(StepsOf(bad, C))
<1> DEFINE E == Episodes(bad)
           F == EpisodesOf(bad, C)
           X == StepsOf(bad, C)
           M == Members(bad)
           Y == UnionOf(M, F \ B)
           Z == UnionOf(M, F \cap B)
<1>1. UnionOf(M, F) = X
  BY EpisodesArePart DEF EpisodesOf, StepsOf
<1>2. F \in SUBSET E /\ F \ B \in SUBSET E /\ F \cap B \in SUBSET E
  BY DEF EpisodesOf
<1>3. \A e, f \in E : e # f => M[e] \cap M[f] = {}
  BY EpisodesArePart
<1> HIDE DEF E, M, F, X
<1>4. RunsOf(F) = Cardinality(X)
  BY <1>1, <1>2, RunsOfSome DEF E, M
<1>5. /\ RunsOf(F \ B) = Cardinality(Y) /\ IsFiniteSet(Y)
      /\ RunsOf(F \cap B) = Cardinality(Z) /\ IsFiniteSet(Z)
  BY <1>2, RunsOfSome DEF E, M
<1>6. Y \cup Z = X /\ Y \cap Z = {}
  BY <1>1, <1>2, <1>3 DEF UnionOf
<1> HIDE DEF Y, Z
<1>7. Cardinality(X) = Cardinality(Y) + Cardinality(Z)
  <2>1. Cardinality(Y \cup Z) = Cardinality(Y) + Cardinality(Z) - Cardinality(Y \cap Z)
    BY <1>5, FS_Union
  <2>2. Cardinality(Y \cap Z) = 0 /\ Cardinality(Y) \in Nat /\ Cardinality(Z) \in Nat
    BY <1>5, <1>6, FS_EmptySet, FS_CardinalityType
  <2>3. Cardinality(Y \cup Z) = Cardinality(Y) + Cardinality(Z)
    BY <2>1, <2>2
  <2> QED BY <1>6, <2>3, Zenon
<1> QED BY <1>4, <1>5, <1>7 DEF F, X

\* Every timestep is in one slice.
LEMMA SlicesArePart ==
  ASSUME NEW X \in SUBSET (Nat \ {0}), IsFiniteSet(X)
  PROVE  SumFunction([b \in 0..(n_buckets - 1) |-> Cardinality({i \in X : Slot(i) = b})])
           = Cardinality(X)
<1> DEFINE I == 0..(n_buckets - 1)
           P == [b \in I |-> {i \in X : Slot(i) = b}]
           g == [b \in I |-> Cardinality({i \in X : Slot(i) = b})]
<1>1. n_buckets \in Nat /\ n_buckets > 0 /\ Slice \in Nat /\ Slice > 0
  BY ReportAssumption
<1>2. IsFiniteSet(I)
  BY <1>1, FS_Interval
<1>3. ASSUME NEW i \in X PROVE Slot(i) \in I
  <2>1. (i - 1) \div Slice \in Nat
    <3>1. \A n, k \in Nat : k > 0 => n \div k \in Nat
      BY Z3
    <3>2. i - 1 \in Nat
      OBVIOUS
    <3> QED BY <1>1, <3>1, <3>2
  <2> QED BY <1>1, <2>1 DEF Slot
<1>4. /\ \A b \in I : IsFiniteSet(P[b]) /\ g[b] = Cardinality(P[b])
      /\ \A a, b \in I : a # b => P[a] \cap P[b] = {}
      /\ DOMAIN g = I
  <2>1. \A b \in I : {i \in X : Slot(i) = b} \in SUBSET X
    OBVIOUS
  <2>2. \A b \in I : IsFiniteSet({i \in X : Slot(i) = b})
    BY <2>1, FS_Subset
  <2> HIDE DEF I
  <2> QED BY <2>2
<1>5. UnionOf(P, I) = X
  <2>1. \A i \in X : Slot(i) \in I /\ i \in P[Slot(i)]
    BY <1>3
  <2>2. \A b \in I : P[b] \subseteq X
    OBVIOUS
  <2> HIDE DEF I, P
  <2> QED BY <2>1, <2>2 DEF UnionOf
<1> HIDE DEF I, P, g
<1>6. SumFunction(g) = Cardinality(UnionOf(P, I))
  BY <1>2, <1>4, SumOfParts
<1> QED BY <1>5, <1>6 DEF g, I

ReportSpec == ReportInit /\ [][ReportNext]_reportVars

ReportInv ==
  window \in Seq(Recorded) /\ before \in [Tier -> REPORTED_STATUSES \cup {Silent}]

\* The timesteps that are judged, and those of which it is only known that a run erred.
LEMMA Timesteps ==
  ASSUME ReportInv, NEW source \in SOURCES
  PROVE  /\ DOMAIN window \subseteq Nat \ {0} /\ IsFiniteSet(DOMAIN window)
         /\ IsFiniteSet(Judged(source)) /\ Judged(source) \subseteq Nat \ {0}
         /\ DOMAIN runs(source) = Judged(source)
         /\ \A i \in Judged(source) : /\ runs(source)[i] = WorstClass(Reported(source, i))
                                      /\ runs(source)[i] \in {0, 1, 2}
         /\ \A i \in DOMAIN window : window[i] \in [Tier -> REPORTED_STATUSES \cup {"error", Silent}]
         /\ _FAMILIES(source) \subseteq Tier
<1>1. Len(window) \in Nat /\ DOMAIN window = 1..Len(window)
      /\ \A i \in 1..Len(window) : window[i] \in Recorded
  BY LenProperties, ElementOfSeq DEF ReportInv
<1>2. IsFiniteSet(DOMAIN window) /\ DOMAIN window \subseteq Nat \ {0}
  <2>1. IsFiniteSet(1..Len(window))
    BY <1>1, FS_Interval
  <2>2. 1..Len(window) \subseteq Nat \ {0}
    BY <1>1
  <2> QED BY <1>1, <2>1, <2>2
<1>3. Judged(source) \in SUBSET (DOMAIN window)
  BY DEF Judged
<1>4. IsFiniteSet(Judged(source))
  BY <1>2, <1>3, FS_Subset
<1>5. \A i \in Judged(source) : Reported(source, i) # {} /\ Reported(source, i) \in SUBSET REPORTED_STATUSES
  BY DEF Judged, Reported
<1>6. \A i \in Judged(source) : WorstClass(Reported(source, i)) \in {0, 1, 2}
  BY <1>5, WorstOfReadings
<1>7. \A i \in DOMAIN window : window[i] \in [Tier -> REPORTED_STATUSES \cup {"error", Silent}]
  BY <1>1, ReportAssumption
<1>8. _FAMILIES(source) \subseteq Tier
  BY DEF _FAMILIES, SOURCES, Tier
<1>9. DOMAIN runs(source) = Judged(source)
      /\ \A i \in Judged(source) : runs(source)[i] = WorstClass(Reported(source, i))
  BY DEF runs
<1> QED BY <1>2, <1>3, <1>4, <1>6, <1>7, <1>8, <1>9

\* The timesteps of a class, and those that only erred.
OfClass(source, C) == StepsOf(runs(source), C)
Dark(source) == {i \in DOMAIN window : Readings(source, i) # {} /\ Reported(source, i) = {}}

LEMMA SliceCounts ==
  ASSUME ReportInv, NEW source \in SOURCES, NEW b
  PROVE  /\ Bucket(source, b).n = Cardinality({i \in OfClass(source, {0, 1, 2}) : Slot(i) = b})
         /\ Bucket(source, b).n_pass = Cardinality({i \in OfClass(source, {0}) : Slot(i) = b})
         /\ Bucket(source, b).n_warn = Cardinality({i \in OfClass(source, {1}) : Slot(i) = b})
         /\ Bucket(source, b).n_fail = Cardinality({i \in OfClass(source, {2}) : Slot(i) = b})
         /\ Bucket(source, b).n_excluded = Cardinality({i \in Dark(source) : Slot(i) = b})
<1> DEFINE here == {i \in DOMAIN window : Slot(i) = b /\ Readings(source, i) # {}}
           conclusive == {i \in here : Reported(source, i) # {}}
           Of(class) == {i \in conclusive : Bad(source, i) = class}
<1>1. /\ Bucket(source, b).n = Cardinality(conclusive)
      /\ Bucket(source, b).n_pass = Cardinality(Of(0))
      /\ Bucket(source, b).n_warn = Cardinality(Of(1))
      /\ Bucket(source, b).n_fail = Cardinality(Of(2))
      /\ Bucket(source, b).n_excluded = Cardinality(here \ conclusive)
  BY DEF Bucket
<1>2. conclusive = {i \in Judged(source) : Slot(i) = b}
  BY DEF Judged, Reported
<1>3. here \ conclusive = {i \in Dark(source) : Slot(i) = b}
  BY DEF Dark
<1>4. /\ DOMAIN runs(source) = Judged(source)
      /\ \A i \in Judged(source) : /\ runs(source)[i] = Bad(source, i)
                                   /\ runs(source)[i] \in {0, 1, 2}
  BY Timesteps DEF Bad
<1>5. conclusive = {i \in OfClass(source, {0, 1, 2}) : Slot(i) = b}
  BY <1>2, <1>4 DEF OfClass, StepsOf
<1>6. ASSUME NEW class
      PROVE  Of(class) = {i \in OfClass(source, {class}) : Slot(i) = b}
  <2>1. Of(class) = {i \in Judged(source) : Slot(i) = b /\ Bad(source, i) = class}
    BY <1>2
  <2> HIDE DEF Of, conclusive, here
  <2> QED BY <1>4, <2>1 DEF OfClass, StepsOf
<1> HIDE DEF Of, conclusive, here
<1> QED BY <1>1, <1>3, <1>5, <1>6

\* Over all slices they are as many as there are.
LEMMA SlicesAddUp ==
  ASSUME ReportInv, NEW source \in SOURCES
  PROVE  /\ InSlices(source, LAMBDA b : b.n) = Cardinality(OfClass(source, {0, 1, 2}))
         /\ InSlices(source, LAMBDA b : b.n_pass) = Cardinality(OfClass(source, {0}))
         /\ InSlices(source, LAMBDA b : b.n_warn) = Cardinality(OfClass(source, {1}))
         /\ InSlices(source, LAMBDA b : b.n_fail) = Cardinality(OfClass(source, {2}))
         /\ InSlices(source, LAMBDA b : b.n_excluded) = Cardinality(Dark(source))
<1> DEFINE I == 0..(n_buckets - 1)
           Summed(X) == SumFunction([b \in I |-> Cardinality({i \in X : Slot(i) = b})])
<1>1. \A X \in SUBSET (DOMAIN window) : Summed(X) = Cardinality(X)
  <2> SUFFICES ASSUME NEW X \in SUBSET (DOMAIN window) PROVE Summed(X) = Cardinality(X)
    OBVIOUS
  <2>1. X \in SUBSET (Nat \ {0}) /\ IsFiniteSet(X)
    BY Timesteps, FS_Subset
  <2> QED BY <2>1, SlicesArePart
<1>2. Dark(source) \in SUBSET (DOMAIN window)
      /\ \A C : OfClass(source, C) \in SUBSET (DOMAIN window)
  BY Timesteps DEF Dark, OfClass, StepsOf, Judged
<1>3. /\ InSlices(source, LAMBDA b : b.n) = Summed(OfClass(source, {0, 1, 2}))
      /\ InSlices(source, LAMBDA b : b.n_pass) = Summed(OfClass(source, {0}))
      /\ InSlices(source, LAMBDA b : b.n_warn) = Summed(OfClass(source, {1}))
      /\ InSlices(source, LAMBDA b : b.n_fail) = Summed(OfClass(source, {2}))
      /\ InSlices(source, LAMBDA b : b.n_excluded) = Summed(Dark(source))
  BY SliceCounts DEF InSlices
<1> HIDE DEF Summed
<1> QED BY <1>1, <1>2, <1>3

LEMMA FiguresAddUp ==
  ASSUME ReportInv, NEW source \in SOURCES, NEW s, s = Subject(source)
  PROVE  /\ s.judged = Cardinality(OfClass(source, {0, 1, 2}))
         /\ s.passed = Cardinality(OfClass(source, {0}))
         /\ RunsOf(s.outages) + RunsOf(s.blips) = Cardinality(OfClass(source, {2}))
         /\ RunsOf(s.degraded) + RunsOf(s.degraded_blips) = Cardinality(OfClass(source, {1}))
         /\ s.excluded >= Cardinality(Dark(source))
<1> DEFINE bad == runs(source)
           E == Episodes(bad)
           Of(class) == {e \in E : e.class = class}
           brief == {e \in E : e.n_runs = 1} \ Truncated(source, E)
           erred == {it \in (DOMAIN window) \X _FAMILIES(source) : window[it[1]][it[2]] = "error"}
<1>1. /\ s.judged = RunsOf(E) /\ s.passed = RunsOf(Of(0)) /\ s.excluded = Cardinality(erred)
      /\ s.outages = Of(2) \ brief /\ s.blips = Of(2) \cap brief
      /\ s.degraded = Of(1) \ brief /\ s.degraded_blips = Of(1) \cap brief
  BY DEF Subject
<1>2. IsFiniteSet(DOMAIN bad) /\ \A i \in DOMAIN bad : bad[i] \in {0, 1, 2}
  BY Timesteps
<1> HIDE DEF brief, bad
<1>4. \A e \in E : e.class \in {0, 1, 2}
  BY <1>2, EpisodeIsOf
<1>5. ASSUME NEW class
      PROVE  /\ RunsOf(Of(class)) = Cardinality(OfClass(source, {class}))
             /\ RunsOf(Of(class) \ brief) + RunsOf(Of(class) \cap brief)
                  = Cardinality(OfClass(source, {class}))
  <2>1. Of(class) = EpisodesOf(bad, {class})
    BY DEF EpisodesOf
  <2>2. OfClass(source, {class}) = StepsOf(bad, {class})
    BY DEF OfClass, bad
  <2> HIDE DEF Of
  <2> QED BY <1>2, <2>1, <2>2, RunsOfClass
<1>6. RunsOf(E) = Cardinality(OfClass(source, {0, 1, 2}))
  <2>1. E = EpisodesOf(bad, {0, 1, 2})
    BY <1>4 DEF EpisodesOf
  <2>2. OfClass(source, {0, 1, 2}) = StepsOf(bad, {0, 1, 2})
    BY DEF OfClass, bad
  <2> HIDE DEF E
  <2> QED BY <1>2, <2>1, <2>2, RunsOfClass
<1>7. Cardinality(erred) >= Cardinality(Dark(source))
  <2>1. IsFiniteSet(erred)
    <3>1. IsFiniteSet(DOMAIN window) /\ _FAMILIES(source) \in SUBSET Tier
      BY Timesteps
    <3>2. IsFiniteSet(Tier)
      <4>1. IsFiniteSet({"frontend"}) /\ IsFiniteSet({"backend"})
        BY FS_Singleton
      <4>2. Tier = {"frontend"} \cup {"backend"}
        BY DEF Tier
      <4> QED BY <4>1, <4>2, FS_Union
    <3>3. IsFiniteSet(_FAMILIES(source))
      BY <3>1, <3>2, FS_Subset
    <3>4. IsFiniteSet((DOMAIN window) \X _FAMILIES(source))
      BY <3>1, <3>3, FS_Product
    <3>5. erred \in SUBSET ((DOMAIN window) \X _FAMILIES(source))
      OBVIOUS
    <3> QED BY <3>4, <3>5, FS_Subset
  <2> DEFINE tier(i) == CHOOSE t \in _FAMILIES(source) : window[i][t] = "error"
             f == [i \in Dark(source) |-> <<i, tier(i)>>]
  <2>2. ASSUME NEW i \in Dark(source)
        PROVE  \E t \in _FAMILIES(source) : window[i][t] = "error"
    <3>1. i \in DOMAIN window /\ Readings(source, i) # {} /\ Reported(source, i) = {}
      BY DEF Dark
    <3>2. PICK t \in _FAMILIES(source) : window[i][t] # Silent
      BY <3>1 DEF Readings
    <3>3. window[i][t] \notin REPORTED_STATUSES
      BY <3>1, <3>2 DEF Readings, Reported
    <3>4. window[i][t] \in REPORTED_STATUSES \cup {"error", Silent}
      BY <3>1, Timesteps
    <3> QED BY <3>2, <3>3, <3>4
  <2>3. \A i \in Dark(source) : i \in DOMAIN window /\ tier(i) \in _FAMILIES(source)
                                  /\ window[i][tier(i)] = "error"
    BY <2>2 DEF Dark
  <2> HIDE DEF tier
  <2>4. f \in Injection(Dark(source), erred)
    <3>1. \A i \in Dark(source) : <<i, tier(i)>> \in erred
      BY <2>3
    <3> HIDE DEF erred
    <3> QED BY <3>1 DEF Injection, IsInjective
  <2> HIDE DEF f, erred
  <2>5. Cardinality(Dark(source)) <= Cardinality(erred) /\ IsFiniteSet(Dark(source))
    BY <2>1, <2>4, FS_Injection
  <2> QED BY <2>1, <2>5, FS_CardinalityType
<1> HIDE DEF E, Of, erred
<1> QED BY <1>1, <1>5, <1>6, <1>7

\* A set of moments has a first one.
LEMMA FirstMomentOf ==
  ASSUME NEW S \in SUBSET Nat, S # {}
  PROVE  Min(S) \in S /\ \A s \in S : Min(S) <= s
<1> DEFINE R == OpToRel(<, Nat)
<1>1. IsWellFoundedOn(R, Nat)
  BY NatLessThanWellFounded
<1>2. PICK x \in S : \A y \in S : ~(<<y, x>> \in R)
  <2> HIDE DEF R
  <2> QED BY <1>1, WFMin
<1>3. \A y \in S : x <= y
  <2>1. \A y \in S : ~(y < x)
    BY <1>2 DEF OpToRel
  <2> QED BY <2>1
<1> QED BY <1>3 DEF Min

\* A row of one tier, of which nothing passed: since when is no later than its first
\* trouble, and before the window if that was cut by it.
LEMMA ChronicIsSinceTrouble ==
  ASSUME ReportInv, NEW source \in SOURCES, source # "combined",
         Judged(source) # {}, OfClass(source, {0}) = {}
  PROVE  /\ _chronic_since(source) <= Min(Judged(source))
         /\ Truncated(source, Episodes(runs(source))) # {} => _chronic_since(source) = BeforeWindow
<1> DEFINE At(i) == window[i][source]
           passed == {i \in DOMAIN window : At(i) = "pass"}
           spell == {i \in DOMAIN window : At(i) # Silent /\ \A p \in passed : p < i}
           S == spell \cup {NotFailing}
<1>1. _FAMILIES(source) = {source}
  BY DEF _FAMILIES
<1>2. /\ DOMAIN window \subseteq Nat \ {0} /\ Judged(source) \subseteq Nat \ {0}
      /\ DOMAIN runs(source) = Judged(source)
      /\ \A i \in Judged(source) : /\ runs(source)[i] = WorstClass(Reported(source, i))
                                   /\ runs(source)[i] \in {0, 1, 2}
  BY Timesteps
<1>3. passed = {}
  <2> SUFFICES ASSUME NEW i \in passed PROVE FALSE
    OBVIOUS
  <2>1. Reported(source, i) = {"pass"}
    BY <1>1 DEF Reported, Readings, Silent, REPORTED_STATUSES
  <2>2. WorstClass({"pass"}) = Class("pass") /\ Class("pass") = 0
    BY WorstOfReadings DEF Class
  <2>3. i \in Judged(source)
    BY <2>1 DEF Judged
  <2>4. i \in OfClass(source, {0})
    BY <1>2, <2>1, <2>2, <2>3 DEF OfClass, StepsOf
  <2> QED BY <2>4
<1>4. Judged(source) \subseteq spell
  BY <1>1, <1>3 DEF Judged, Reported, Readings
<1>5. S \in SUBSET Nat /\ S # {}
  BY <1>2, ReportAssumption DEF NotFailing
<1>6. Min(Judged(source)) \in Judged(source) /\ Min(Judged(source)) \in Nat
  <2>1. Judged(source) \in SUBSET Nat
    BY <1>2
  <2> QED BY <2>1, FirstMomentOf
<1>7. Min(S) <= Min(Judged(source))
  <2>1. Min(Judged(source)) \in S
    BY <1>4, <1>6
  <2> HIDE DEF S
  <2> QED BY <1>5, <2>1, FirstMomentOf
<1>8. _chronic_since(source) = IF passed = {} /\ before[source] \in {"warn", "fail"} THEN BeforeWindow
                               ELSE Min(S)
  BY DEF _chronic_since
<1>9. ASSUME Truncated(source, Episodes(runs(source))) # {} PROVE before[source] \in {"warn", "fail"}
  <2>1. Prior(source) > 0
    <3>1. PICK e \in Episodes(runs(source)) : e.class > 0 /\ e.class = Prior(source)
      BY <1>9 DEF Truncated
    <3> QED BY <3>1
  <2>2. Prior(source) = WorstClass({before[source]})
    BY <1>1 DEF Prior
  <2>3. WorstClass({before[source]}) = Class(before[source])
    BY WorstOfReadings
  <2> QED BY <2>1, <2>2, <2>3 DEF Class
<1> HIDE DEF passed, S
<1>10. BeforeWindow <= Min(Judged(source))
  BY <1>6 DEF BeforeWindow
<1> QED BY <1>3, <1>7, <1>8, <1>9, <1>10

LEMMA ReportInductive == ReportSpec => []ReportInv
<1>1. ReportInit => ReportInv
  <2>1. <<>> \in Seq(Recorded)
    BY EmptySeq
  <2> QED BY <2>1 DEF ReportInit, ReportInv
<1>2. ReportInv /\ [ReportNext]_reportVars => ReportInv'
  <2>1. ASSUME ReportInv, RunsFinish PROVE ReportInv'
    <3>1. PICK reading \in Recorded : window' = Append(window, reading) /\ before' = before
      BY <2>1 DEF RunsFinish
    <3> QED BY <2>1, <3>1, AppendProperties DEF ReportInv
  <2>2. CASE UNCHANGED reportVars
    BY <2>2 DEF ReportInv, reportVars
  <2> QED BY <2>1, <2>2 DEF ReportNext
<1> QED BY <1>1, <1>2, PTL DEF ReportSpec

\* The figures of a report add up, for any readings of the two tiers, any length of the
\* window and any number and length of its slices.
THEOREM ReportsAddUp == ReportSpec => []ReportAddsUp
<1>1. ReportInv => ReportAddsUp
  <2> SUFFICES ASSUME ReportInv, NEW source \in SOURCES, NEW row \in Shown(source)
               PROVE  LET s == row.figures IN
                      /\ RunsOf(s.outages) + RunsOf(s.blips) = InSlices(source, LAMBDA b : b.n_fail)
                      /\ RunsOf(s.degraded) + RunsOf(s.degraded_blips)
                           = InSlices(source, LAMBDA b : b.n_warn)
                      /\ s.passed = InSlices(source, LAMBDA b : b.n_pass)
                      /\ s.judged = InSlices(source, LAMBDA b : b.n)
                      /\ s.excluded >= InSlices(source, LAMBDA b : b.n_excluded)
                      /\ s.judged > 0 /\ s.passed = 0 /\ source # "combined" =>
                           /\ row.chronic_since <= Min(Judged(source))
                           /\ row.truncated => row.chronic_since = BeforeWindow
    BY DEF ReportAddsUp
  <2> DEFINE s == Subject(source)
             first == IF source = "backend" THEN "backend" ELSE "frontend"
  <2>1. row = compute(source)
    BY DEF Shown
  <2>2. /\ row.figures = s
        /\ row.truncated = (Truncated(source, Episodes(runs(source))) # {})
        /\ row.chronic_since = IF s.judged > 0 /\ s.passed = 0 THEN _chronic_since(first)
                               ELSE NotFailing
    BY <2>1 DEF compute
  <2> HIDE DEF s
  <2>3. /\ s.judged = Cardinality(OfClass(source, {0, 1, 2}))
        /\ s.passed = Cardinality(OfClass(source, {0}))
        /\ RunsOf(s.outages) + RunsOf(s.blips) = Cardinality(OfClass(source, {2}))
        /\ RunsOf(s.degraded) + RunsOf(s.degraded_blips) = Cardinality(OfClass(source, {1}))
        /\ s.excluded >= Cardinality(Dark(source))
    BY FiguresAddUp DEF s
  <2>4. /\ InSlices(source, LAMBDA b : b.n) = Cardinality(OfClass(source, {0, 1, 2}))
        /\ InSlices(source, LAMBDA b : b.n_pass) = Cardinality(OfClass(source, {0}))
        /\ InSlices(source, LAMBDA b : b.n_warn) = Cardinality(OfClass(source, {1}))
        /\ InSlices(source, LAMBDA b : b.n_fail) = Cardinality(OfClass(source, {2}))
        /\ InSlices(source, LAMBDA b : b.n_excluded) = Cardinality(Dark(source))
    BY SlicesAddUp
  <2>5. ASSUME s.judged > 0, s.passed = 0, source # "combined"
        PROVE  /\ row.chronic_since <= Min(Judged(source))
               /\ row.truncated => row.chronic_since = BeforeWindow
    <3>1. /\ IsFiniteSet(Judged(source)) /\ DOMAIN runs(source) = Judged(source)
      BY Timesteps
    <3>2. \A C : OfClass(source, C) \in SUBSET Judged(source)
      BY <3>1 DEF OfClass, StepsOf
    <3>3. \A C : IsFiniteSet(OfClass(source, C))
      BY <3>1, <3>2, FS_Subset
    <3>4. OfClass(source, {0}) = {}
      BY <2>3, <2>5, <3>3, FS_EmptySet
    <3>5. Judged(source) # {}
      <4>1. OfClass(source, {0, 1, 2}) # {}
        <5>1. Cardinality({}) = 0
          BY FS_EmptySet
        <5> QED BY <2>3, <2>5, <5>1
      <4> QED BY <3>2, <4>1
    <3>6. first = source
      BY <2>5 DEF SOURCES
    <3> QED BY <2>2, <2>5, <3>4, <3>5, <3>6, ChronicIsSinceTrouble
  <2> QED BY <2>2, <2>3, <2>4, <2>5
<1> QED BY <1>1, ReportInductive, PTL

\* The number of a timestep is that of the ones before it of other classes.
Others(bad, i) == {k \in DOMAIN bad : k <= i /\ bad[k] # bad[i]}

LEMMA NumberOf ==
  ASSUME NEW bad, IsFiniteSet(DOMAIN bad), NEW i
  PROVE  grp(bad, i) = Cardinality(Others(bad, i)) /\ IsFiniteSet(Others(bad, i))
<1> DEFINE A == {k \in DOMAIN bad : k <= i}
           B == {k \in DOMAIN bad : k <= i /\ bad[k] = bad[i]}
<1>1. grp(bad, i) = Cardinality(A) - Cardinality(B)
  BY DEF grp
<1>2. A \in SUBSET (DOMAIN bad) /\ A \ B = Others(bad, i) /\ A \cap B = B
  BY DEF Others
<1> HIDE DEF A, B
<1>3. IsFiniteSet(A)
  BY <1>2, FS_Subset
<1>4. IsFiniteSet(A \ B) /\ Cardinality(A \ B) = Cardinality(A) - Cardinality(A \cap B)
  BY <1>3, FS_Difference
<1> QED BY <1>1, <1>2, <1>4

\* The difference of the two row numbers tells the episodes apart: whatever was judged
\* between two timesteps of one episode is of it, and two timesteps of a class with
\* nothing of another class between them are of one episode (grp in _subject_rows).
THEOREM EpisodesAreUnbroken ==
  ASSUME NEW bad, IsFiniteSet(DOMAIN bad), DOMAIN bad \subseteq Nat,
         NEW i \in DOMAIN bad, NEW k \in DOMAIN bad, i <= k, bad[i] = bad[k]
  PROVE  k \in Together(bad, bad[i], grp(bad, i))
           <=> \A j \in DOMAIN bad : i <= j /\ j <= k => j \in Together(bad, bad[i], grp(bad, i))
<1> DEFINE T == Together(bad, bad[i], grp(bad, i))
<1>a. \A j \in DOMAIN bad : /\ grp(bad, j) = Cardinality(Others(bad, j))
                            /\ IsFiniteSet(Others(bad, j))
  BY NumberOf
<1>b. \A j \in DOMAIN bad : j \in Nat
  OBVIOUS
<1>1. ASSUME k \in T, NEW j \in DOMAIN bad, i <= j, j <= k PROVE j \in T
  <2>1. grp(bad, k) = grp(bad, i)
    BY <1>1 DEF Together
  <2>2. Others(bad, i) \in SUBSET Others(bad, k)
    <3>1. \A n \in DOMAIN bad : n <= i => n <= k
      BY <1>b
    <3> QED BY <3>1 DEF Others
  <2>3. Others(bad, i) = Others(bad, k)
    <3>1. Cardinality(Others(bad, k)) = Cardinality(Others(bad, i))
      BY <1>a, <2>1
    <3> QED BY <1>a, <2>2, <3>1, FS_Subset
  <2>4. bad[j] = bad[i]
    <3> SUFFICES ASSUME bad[j] # bad[i] PROVE FALSE
      OBVIOUS
    <3>1. j \in Others(bad, k)
      BY <1>1 DEF Others
    <3>2. j <= i
      BY <2>3, <3>1 DEF Others
    <3>3. j = i
      BY <1>1, <1>b, <3>2
    <3> QED BY <3>3
  <2>5. Others(bad, i) \subseteq Others(bad, j) /\ Others(bad, j) \subseteq Others(bad, k)
    <3>1. \A n \in DOMAIN bad : (n <= i => n <= j) /\ (n <= j => n <= k)
      BY <1>1, <1>b
    <3> QED BY <2>4, <3>1 DEF Others
  <2>6. grp(bad, j) = grp(bad, i)
    <3>1. Others(bad, j) = Others(bad, i)
      BY <2>3, <2>5
    <3>2. grp(bad, j) = Cardinality(Others(bad, j)) /\ grp(bad, i) = Cardinality(Others(bad, i))
      BY <1>a
    <3> QED BY <3>1, <3>2
  <2> QED BY <2>4, <2>6 DEF Together
<1>2. ASSUME \A j \in DOMAIN bad : i <= j /\ j <= k => j \in T PROVE k \in T
  <2>1. k <= k
    BY <1>b
  <2> QED BY <1>2, <2>1
<1> QED BY <1>1, <1>2

-----------------------------------------------------------------------------
(* The parity of a manifest *)

ManifestSpec == ManifestInit /\ [][ManifestNext]_manifestVars

StepEntry == [i : Int, t : Int]
StepsIn(es) == {es[p].i : p \in DOMAIN es}

\* A sound forecast: up to the seam a step's time is the step, after it one more, at
\* the seam either; the first entries have the times in order, and what is listed
\* later repeats a time of theirs.
Stitched(es, last, lastTime) ==
  /\ es \in Seq(StepEntry) /\ Len(es) > 0 /\ es[Len(es)].i = last
  /\ StepsIn(es) = 0..last
  /\ \A p \in DOMAIN es :
       /\ es[p].t \in {es[p].i, es[p].i + 1}
       /\ es[p].i < Seam => es[p].t = es[p].i
       /\ es[p].i > Seam => es[p].t = es[p].i + 1
       /\ es[p].t \in 0..lastTime /\ es[p].t < p
  /\ \A u \in 0..lastTime : u + 1 \in DOMAIN es /\ es[u + 1].t = u

\* The manifest begins with the short block and the long one.
BeginsWith(es, d) ==
  LET blocks == BlockAs(Short, "short", d) \o BlockAs(Long, "long", d) IN
  \A p \in 1..(LastStep + 2) : p \in DOMAIN es /\ es[p] = blocks[p]

ManifestInv ==
  /\ replays \in -1..MaxReplays /\ damage \in {Sound} \cup Damages
  /\ entries \in Seq([name : Times, stated : Times])
  /\ replays = -1 => damage = Sound /\ listed = <<>>
  /\ replays = 0 => listed = BlockAs(Short, "short", damage)
  /\ replays > 0 =>
       /\ listed \in Seq(StepEntry)
       /\ damage.is = "dropped" => StepsIn(listed) = (0..LastStep) \ {damage.step}
       /\ damage.is = "swapped" => BeginsWith(listed, damage)
       /\ damage.is \in {"none", "other_run"} => Stitched(listed, LastStep, LastStep + 1)

LEMMA DamageKinds ==
  ASSUME NEW d \in {Sound} \cup Damages
  PROVE  \/ d.is = "none"
         \/ d.is = "dropped" /\ d.step \in 1..(LastStep - 1)
         \/ d.is = "swapped" /\ d.of = "short" /\ d.at \in 1..Seam
         \/ d.is = "swapped" /\ d.of = "long" /\ d.at \in 1..(LastStep - Seam)
         \/ /\ d.is = "other_run" /\ d.from \in 0..(LastStep - 1) /\ d.steps \in 2..3
            /\ d.from + d.steps <= LastStep + 1
<1>1. CASE d = Sound
  BY <1>1 DEF Sound
<1>2. CASE d \in Damages
  BY <1>2 DEF Damages
<1> QED BY <1>1, <1>2

LEMMA BlocksAre ==
  /\ Short \in Seq(StepEntry) /\ Len(Short) = Seam + 1 /\ DOMAIN Short = 1..(Seam + 1)
  /\ \A p \in 1..(Seam + 1) : Short[p].i = p - 1 /\ Short[p].t = p - 1
  /\ Long \in Seq(StepEntry) /\ Len(Long) = LastStep - Seam + 1 /\ DOMAIN Long = 1..(LastStep - Seam + 1)
  /\ \A p \in 1..(LastStep - Seam + 1) : Long[p].i = Seam + p - 1 /\ Long[p].t = Seam + p
<1> USE ManifestAssumption
<1>1. Seam + 1 \in Nat /\ LastStep - Seam + 1 \in Nat
  OBVIOUS
<1>2. \A p \in 1..(Seam + 1) : [i |-> p - 1, t |-> p - 1] \in StepEntry
  BY DEF StepEntry
<1>3. \A p \in 1..(LastStep - Seam + 1) : [i |-> Seam + p - 1, t |-> Seam + p] \in StepEntry
  BY DEF StepEntry
<1>4. Short \in [1..(Seam + 1) -> StepEntry]
  BY <1>2 DEF Short
<1>5. Long \in [1..(LastStep - Seam + 1) -> StepEntry]
  BY <1>3 DEF Long
<1>6. Short \in Seq(StepEntry) /\ Long \in Seq(StepEntry)
  BY <1>1, <1>4, <1>5, SeqDef
<1>7. Len(Short) = Seam + 1 /\ Len(Long) = LastStep - Seam + 1
  BY <1>1, <1>4, <1>5, <1>6, LenProperties
<1> QED BY <1>4, <1>5, <1>6, <1>7 DEF Short, Long

\* In a block the steps go up by one.
LEMMA BlockRuns ==
  ASSUME NEW es \in Seq(StepEntry), NEW s \in Starts(es), NEW p \in Block(es, s)
  PROVE  es[p].i = es[s].i + (p - s)
<1> DEFINE Astray == {q \in Block(es, s) : es[q].i # es[s].i + (q - s)}
<1>1. DOMAIN es = 1..Len(es) /\ Len(es) \in Nat /\ \A q \in DOMAIN es : es[q] \in StepEntry
  BY LenProperties, ElementOfSeq
<1>1a. \A q \in DOMAIN es : es[q].i \in Int /\ q \in Nat
  BY <1>1 DEF StepEntry
<1>2. SUFFICES ASSUME Astray # {} PROVE FALSE
  OBVIOUS
<1>3. Astray \in SUBSET Nat
  BY <1>1a DEF Block
<1>4. PICK m \in Astray : \A n \in Astray : m <= n
  BY <1>2, <1>3, FirstMomentOf
<1>5. m \in DOMAIN es /\ m >= s /\ s \in DOMAIN es /\ \A r \in Starts(es) : r <= s \/ r > m
  BY <1>4 DEF Block, Starts
<1>6. m # s
  BY <1>1a, <1>4, <1>5
<1>7. m - 1 \in DOMAIN es /\ m - 1 >= s /\ m - 1 < m
  BY <1>1, <1>1a, <1>5, <1>6
<1>8. es[m].i = es[m - 1].i + 1
  <2>1. m \notin Starts(es)
    BY <1>1a, <1>5, <1>6
  <2> QED BY <1>5, <2>1 DEF Starts
<1>9. m - 1 \in Block(es, s)
  <2>1. \A r \in Starts(es) : r \in Nat
    BY <1>1a DEF Starts
  <2>2. \A r \in Starts(es) : r <= s \/ r > m - 1
    BY <1>1a, <1>5, <2>1
  <2> QED BY <1>7, <2>2 DEF Block
<1>10. es[m - 1].i = es[s].i + ((m - 1) - s)
  <2> SUFFICES ASSUME es[m - 1].i # es[s].i + ((m - 1) - s) PROVE FALSE
    OBVIOUS
  <2>1. m - 1 \in Astray
    BY <1>9
  <2>2. m <= m - 1
    BY <1>4, <2>1
  <2>3. m \in Int
    BY <1>1a, <1>5
  <2> QED BY <2>2, <2>3
<1>11. es[m].i # es[s].i + (m - s)
  BY <1>4
<1>12. es[m].i \in Int /\ es[m - 1].i \in Int /\ es[s].i \in Int /\ m \in Int /\ s \in Int
  BY <1>1a, <1>5, <1>7
<1> HIDE DEF Astray
<1> QED BY <1>8, <1>10, <1>11, <1>12

\* What must hold of a forecast for parity to let it pass.
LEMMA SoundSteps ==
  ASSUME NEW es \in Seq(StepEntry), NEW last \in Int, NEW seam \in Int,
         StepsIn(es) = 0..last,
         \A p, q \in DOMAIN es : p < q /\ es[q].t <= es[p].t => \E r \in 1..(q - 1) : es[r].t = es[q].t,
         \A p \in DOMAIN es : p > 1 /\ es[p].i = es[p - 1].i + 1 => es[p - 1].t < es[p].t,
         \A p, q \in DOMAIN es : es[p].i = es[q].i => es[p] = es[q] \/ es[p].i = seam
  PROVE  ~StepsWarn(es)
<1>1. DOMAIN es = 1..Len(es) /\ Len(es) \in Nat /\ \A q \in DOMAIN es : es[q] \in StepEntry
  BY LenProperties, ElementOfSeq
<1>1a. \A q \in DOMAIN es : es[q].i \in Int /\ es[q].t \in Int /\ q \in Nat
  BY <1>1 DEF StepEntry
<1>2. ~missing_steps(es)
  <2>1. \A a, b \in 0..last : a < b => a + 1 \in 0..last
    OBVIOUS
  <2> QED BY <2>1 DEF missing_steps, StepsIn
<1>3. ~time_not_advancing([p \in DOMAIN es |-> es[p].t])
  <2> DEFINE ts == [p \in DOMAIN es |-> es[p].t]
             firsts == {p \in DOMAIN ts : \A q \in 1..(p - 1) : ts[q] # ts[p]}
  <2> SUFFICES ASSUME NEW p \in firsts, NEW q \in firsts, p < q, ts[q] <= ts[p] PROVE FALSE
    BY DEF time_not_advancing
  <2>1. p \in DOMAIN es /\ q \in DOMAIN es /\ es[q].t <= es[p].t
    OBVIOUS
  <2>2. PICK r \in 1..(q - 1) : es[r].t = es[q].t
    BY <2>1
  <2>3. r \in DOMAIN es
    BY <1>1, <2>1, <2>2
  <2> QED BY <2>1, <2>2, <2>3
<1>4. ~block_time_disorder(es)
  <2> SUFFICES ASSUME NEW p \in DOMAIN es \ Starts(es), es[p].t <= es[p - 1].t PROVE FALSE
    BY DEF block_time_disorder
  <2>1. p # 1 /\ es[p].i = es[p - 1].i + 1
    BY DEF Starts
  <2>2. p > 1 /\ p - 1 \in DOMAIN es
    BY <1>1, <2>1
  <2> QED BY <1>1a, <2>1, <2>2
<1>5. ~conflicting_republish(es)
  <2> SUFFICES ASSUME NEW s \in Starts(es)
               PROVE  ~(Cardinality({p \in Block(es, s) :
                                       /\ \A q \in 1..(s - 1) : es[q] # es[p]
                                       /\ \E q \in 1..(s - 1) : es[q].i = es[p].i}) > 1)
    BY DEF conflicting_republish
  <2> DEFINE C == {p \in Block(es, s) : /\ \A q \in 1..(s - 1) : es[q] # es[p]
                                        /\ \E q \in 1..(s - 1) : es[q].i = es[p].i}
  <2>0. s \in DOMAIN es /\ \A p \in C : p \in DOMAIN es
    BY DEF Starts, Block
  <2>1. \A p \in C : es[p].i = seam
    <3> SUFFICES ASSUME NEW p \in C PROVE es[p].i = seam
      OBVIOUS
    <3>1. PICK q \in 1..(s - 1) : es[q].i = es[p].i
      OBVIOUS
    <3>2. q \in DOMAIN es /\ es[q] # es[p]
      BY <1>1, <2>0, <3>1
    <3> QED BY <2>0, <3>1, <3>2
  <2>2. \A p, q \in C : p = q
    <3> SUFFICES ASSUME NEW p \in C, NEW q \in C PROVE p = q
      OBVIOUS
    <3>0. p \in Block(es, s) /\ q \in Block(es, s) /\ es[p].i = seam /\ es[q].i = seam
      BY <2>1
    <3>1. es[p].i = es[s].i + (p - s) /\ es[q].i = es[s].i + (q - s)
      BY <3>0, BlockRuns
    <3>2. p \in DOMAIN es /\ q \in DOMAIN es
      BY <2>0
    <3> HIDE DEF C
    <3>3. es[s].i \in Int /\ p \in Int /\ q \in Int /\ s \in Int
      BY <1>1a, <2>0, <3>2
    <3>4. es[s].i + (p - s) = es[s].i + (q - s)
      BY <3>0, <3>1
    <3> QED BY <3>3, <3>4
  <2>3. Cardinality(C) \in {0, 1}
    <3> HIDE DEF C
    <3>1. CASE C = {}
      BY <3>1, FS_EmptySet
    <3>2. ASSUME NEW x \in C PROVE Cardinality(C) = 1
      <4>1. C = {x}
        BY <2>2
      <4> QED BY <4>1, FS_Singleton
    <3> QED BY <3>1, <3>2
  <2> QED BY <2>3
<1> QED BY <1>2, <1>3, <1>4, <1>5 DEF StepsWarn

LEMMA StitchedPasses ==
  ASSUME NEW es, NEW last \in Int, NEW lastTime \in Int, Stitched(es, last, lastTime)
  PROVE  ~StepsWarn(es)
<1>a. es \in Seq(StepEntry) /\ StepsIn(es) = 0..last
  BY DEF Stitched
<1>b. DOMAIN es = 1..Len(es) /\ Len(es) \in Nat /\ \A q \in DOMAIN es : es[q] \in StepEntry
  BY <1>a, LenProperties, ElementOfSeq
<1>c. \A q \in DOMAIN es : es[q].i \in Int /\ es[q].t \in Int /\ q \in Nat
  BY <1>b DEF StepEntry
<1>d. Seam \in Int
  BY ManifestAssumption
<1>1. ASSUME NEW p \in DOMAIN es, NEW q \in DOMAIN es, p < q, es[q].t <= es[p].t
      PROVE  \E r \in 1..(q - 1) : es[r].t = es[q].t
  <2> DEFINE r == es[q].t + 1
  <2>1. es[q].t \in 0..lastTime /\ es[p].t < p
    BY DEF Stitched
  <2>2. es[r].t = es[q].t
    BY <2>1 DEF Stitched
  <2>3. r \in 1..(q - 1)
    BY <1>1, <1>c, <2>1
  <2> QED BY <2>2, <2>3
<1>2. ASSUME NEW p \in DOMAIN es, p > 1, es[p].i = es[p - 1].i + 1
      PROVE  es[p - 1].t < es[p].t
  <2>1. p - 1 \in DOMAIN es
    BY <1>b, <1>2
  <2>2. \A q \in DOMAIN es : /\ es[q].t \in {es[q].i, es[q].i + 1}
                             /\ es[q].i < Seam => es[q].t = es[q].i
                             /\ es[q].i > Seam => es[q].t = es[q].i + 1
    BY DEF Stitched
  <2>3. es[p - 1].i < Seam => es[p - 1].t = es[p - 1].i
    BY <2>1, <2>2
  <2>4. es[p - 1].t \in {es[p - 1].i, es[p - 1].i + 1}
    BY <2>1, <2>2
  <2>5. es[p].t \in {es[p].i, es[p].i + 1} /\ (es[p].i > Seam => es[p].t = es[p].i + 1)
    BY <2>2
  <2>6. es[p - 1].i \in Int /\ es[p - 1].t \in Int /\ es[p].t \in Int
    BY <1>c, <2>1
  <2> QED BY <1>2, <1>d, <2>3, <2>4, <2>5, <2>6
<1>3. ASSUME NEW p \in DOMAIN es, NEW q \in DOMAIN es, es[p].i = es[q].i
      PROVE  es[p] = es[q] \/ es[p].i = Seam
  <2>1. \A k \in DOMAIN es : /\ es[k].i < Seam => es[k].t = es[k].i
                             /\ es[k].i > Seam => es[k].t = es[k].i + 1
    BY DEF Stitched
  <2>2. es[p].i # Seam => es[p].t = es[q].t
    BY <1>3, <1>c, <1>d, <2>1
  <2> QED BY <1>b, <1>3, <2>2 DEF StepEntry
<1> HIDE DEF Stitched
<1> QED BY <1>a, <1>d, <1>1, <1>2, <1>3, SoundSteps

LEMMA NothingPasses == ~StepsWarn(<<>>)
<1>1. <<>> \in Seq(StepEntry) /\ DOMAIN <<>> = {}
  OBVIOUS
<1>2. StepsIn(<<>>) = 0..(-1)
  BY <1>1 DEF StepsIn
<1> DEFINE es == <<>>
<1>3. es \in Seq(StepEntry) /\ DOMAIN es = {} /\ StepsIn(es) = 0..(-1)
  BY <1>1, <1>2
<1> HIDE DEF es
<1>4. ~StepsWarn(es)
  <2>1. -1 \in Int /\ 0 \in Int
    OBVIOUS
  <2>2. /\ \A p, q \in DOMAIN es : p < q /\ es[q].t <= es[p].t => \E r \in 1..(q - 1) : es[r].t = es[q].t
        /\ \A p \in DOMAIN es : p > 1 /\ es[p].i = es[p - 1].i + 1 => es[p - 1].t < es[p].t
        /\ \A p, q \in DOMAIN es : es[p].i = es[q].i => es[p] = es[q] \/ es[p].i = 0
    BY <1>3
  <2> QED BY <1>3, <2>1, <2>2, SoundSteps
<1> QED BY <1>4 DEF es

\* Of an observed product parity warns unless its times go up and its names agree.
InOrder ==
  \A p \in DOMAIN entries :
    /\ entries[p].name = entries[p].stated
    /\ \A q \in 1..(p - 1) : entries[q].stated < entries[p].stated

LEMMA ObservedTold ==
  ASSUME entries \in Seq([name : Times, stated : Times])
  PROVE  TimesWarn(entries) <=> ~InOrder
<1> DEFINE es == entries
           ts == [p \in DOMAIN es |-> es[p].stated]
<1>a. DOMAIN es = 1..Len(es) /\ Len(es) \in Nat
      /\ \A q \in DOMAIN es : es[q] \in [name : Times, stated : Times]
  BY LenProperties, ElementOfSeq
<1>b. \A q \in DOMAIN es : es[q].stated \in Int /\ q \in Nat
  <2>1. Times \subseteq Int
    BY ManifestAssumption
  <2>2. \A q \in DOMAIN es : es[q].stated \in Times /\ q \in Nat
    BY <1>a
  <2> QED BY <2>1, <2>2
<1>1. ASSUME InOrder PROVE ~TimesWarn(es)
  <2>0. \A p, q \in DOMAIN es : q < p => es[q].stated < es[p].stated
    BY <1>1, <1>a, <1>b DEF InOrder
  <2>1. ~name_mismatch(es)
    BY <1>1 DEF InOrder, name_mismatch
  <2>2. \A p, q \in DOMAIN es : es[p].stated = es[q].stated => p = q
    BY <1>b, <2>0
  <2>3. ~duplicate_entry(es)
    BY <2>2 DEF duplicate_entry, IsInjective
  <2>4. ~file_under_two_times(es)
    BY <1>1, <2>2 DEF file_under_two_times, InOrder
  <2>5. ~time_not_advancing(ts)
    <3> SUFFICES ASSUME NEW p \in DOMAIN es, NEW q \in DOMAIN es, p < q,
                        es[q].stated <= es[p].stated
                 PROVE  FALSE
      BY DEF time_not_advancing
    <3> QED BY <1>b, <2>0
  <2> QED BY <2>1, <2>3, <2>4, <2>5 DEF TimesWarn
<1>2. ASSUME ~TimesWarn(es) PROVE InOrder
  <2>1. \A p \in DOMAIN es : es[p].name = es[p].stated
    BY <1>2 DEF TimesWarn, name_mismatch
  <2>2. \A p, q \in DOMAIN es : es[p].stated = es[q].stated => p = q
    <3> SUFFICES ASSUME NEW p \in DOMAIN es, NEW q \in DOMAIN es, es[p].stated = es[q].stated
                 PROVE  p = q
      OBVIOUS
    <3>1. es[p] = es[q]
      BY <1>a, <2>1
    <3> QED BY <1>2, <3>1 DEF TimesWarn, duplicate_entry, IsInjective
  <2>3. \A p \in DOMAIN es : \A q \in 1..(p - 1) : q \in DOMAIN es /\ q < p
    BY <1>a
  <2>4. {p \in DOMAIN ts : \A q \in 1..(p - 1) : ts[q] # ts[p]} = DOMAIN es
    <3> SUFFICES ASSUME NEW p \in DOMAIN es, NEW q \in 1..(p - 1) PROVE ts[q] # ts[p]
      OBVIOUS
    <3> QED BY <1>b, <2>2, <2>3
  <2>5. \A p, q \in DOMAIN es : p < q => ~(es[q].stated <= es[p].stated)
    BY <1>2, <2>4 DEF TimesWarn, time_not_advancing
  <2> QED BY <1>b, <2>1, <2>3, <2>5 DEF InOrder
<1> QED BY <1>1, <1>2

LEMMA StepsOfJoined ==
  ASSUME NEW a \in Seq(StepEntry), NEW b \in Seq(StepEntry)
  PROVE  StepsIn(a \o b) = StepsIn(a) \cup StepsIn(b)
<1>1. /\ a \o b \in Seq(StepEntry) /\ Len(a \o b) = Len(a) + Len(b)
      /\ \A k \in 1..(Len(a) + Len(b)) : (a \o b)[k] = IF k <= Len(a) THEN a[k] ELSE b[k - Len(a)]
  BY ConcatProperties
<1>2. /\ DOMAIN a = 1..Len(a) /\ Len(a) \in Nat /\ DOMAIN b = 1..Len(b) /\ Len(b) \in Nat
      /\ DOMAIN (a \o b) = 1..(Len(a) + Len(b))
  BY <1>1, LenProperties
<1>3. ASSUME NEW k \in DOMAIN (a \o b) PROVE (a \o b)[k].i \in StepsIn(a) \cup StepsIn(b)
  <2>1. CASE k <= Len(a)
    BY <1>1, <1>2, <2>1 DEF StepsIn
  <2>2. CASE ~(k <= Len(a))
    <3>1. k - Len(a) \in DOMAIN b /\ (a \o b)[k] = b[k - Len(a)]
      BY <1>1, <1>2, <2>2
    <3> QED BY <3>1 DEF StepsIn
  <2> QED BY <2>1, <2>2
<1>4. ASSUME NEW k \in DOMAIN a PROVE a[k].i \in StepsIn(a \o b)
  <2>1. k \in DOMAIN (a \o b) /\ (a \o b)[k] = a[k]
    BY <1>1, <1>2
  <2> QED BY <2>1 DEF StepsIn
<1>5. ASSUME NEW k \in DOMAIN b PROVE b[k].i \in StepsIn(a \o b)
  <2>1. k + Len(a) \in 1..(Len(a) + Len(b)) /\ ~(k + Len(a) <= Len(a))
        /\ (k + Len(a)) - Len(a) = k
    BY <1>2
  <2>2. k + Len(a) \in DOMAIN (a \o b) /\ (a \o b)[k + Len(a)] = b[k]
    BY <1>1, <1>2, <2>1
  <2> QED BY <2>2 DEF StepsIn
<1>6. StepsIn(a \o b) \subseteq StepsIn(a) \cup StepsIn(b)
  BY <1>3 DEF StepsIn
<1>7. StepsIn(a) \subseteq StepsIn(a \o b) /\ StepsIn(b) \subseteq StepsIn(a \o b)
  BY <1>4, <1>5 DEF StepsIn
<1> QED BY <1>6, <1>7

LEMMA StepsOfBlocks == StepsIn(Short) = 0..Seam /\ StepsIn(Long) = Seam..LastStep
<1>a. Seam \in Nat /\ LastStep \in Nat /\ Seam < LastStep
  BY ManifestAssumption
<1>1. \A n \in 0..Seam : n + 1 \in DOMAIN Short /\ Short[n + 1].i = n
  BY <1>a, BlocksAre
<1>2. \A n \in Seam..LastStep : n - Seam + 1 \in DOMAIN Long /\ Long[n - Seam + 1].i = n
  BY <1>a, BlocksAre
<1>3. \A p \in DOMAIN Short : Short[p].i \in 0..Seam
  BY <1>a, BlocksAre
<1>4. \A p \in DOMAIN Long : Long[p].i \in Seam..LastStep
  BY <1>a, BlocksAre
<1> QED BY <1>1, <1>2, <1>3, <1>4 DEF StepsIn

LEMMA WithoutIs ==
  ASSUME NEW block \in Seq(StepEntry), Len(block) > 0, NEW step \in Int
  PROVE  LET p == step - block[1].i + 1 IN
         /\ Without(block, step) \in Seq(StepEntry)
         /\ p \notin 1..Len(block) => Without(block, step) = block
         /\ p \in 1..Len(block) =>
              /\ Len(Without(block, step)) = Len(block) - 1
              /\ \A q \in 1..(Len(block) - 1) :
                   Without(block, step)[q] = IF q < p THEN block[q] ELSE block[q + 1]
<1> DEFINE p == step - block[1].i + 1
           n == Len(block)
<1>1. n \in Nat /\ DOMAIN block = 1..n /\ \A q \in 1..n : block[q] \in StepEntry
  BY LenProperties, ElementOfSeq
<1>2. 1 \in 1..n /\ block[1].i \in Int /\ p \in Int
  <2>1. 1 \in 1..n
    BY <1>1
  <2>2. block[1].i \in Int
    BY <1>1, <2>1 DEF StepEntry
  <2> QED BY <2>1, <2>2
<1>3. CASE p \notin 1..n
  <2>1. Without(block, step) = block
    BY <1>1, <1>3 DEF Without
  <2> QED BY <1>3, <2>1
<1>4. CASE p \in 1..n
  <2> DEFINE a == SubSeq(block, 1, p - 1)
             b == SubSeq(block, p + 1, n)
  <2>0. Without(block, step) = a \o b
    BY <1>1, <1>4 DEF Without, RemoveAt
  <2>1. \A q \in 1..(p - 1) : block[q] \in StepEntry
    BY <1>1, <1>4
  <2>2. \A q \in (p + 1)..n : block[q] \in StepEntry
    BY <1>1, <1>4
  <2>3. 1 \in Int /\ p - 1 \in Int /\ p + 1 \in Int /\ n \in Int
    BY <1>1, <1>4
  <2>4. a \in Seq(StepEntry) /\ Len(a) = p - 1 /\ \A q \in 1..(p - 1) : a[q] = block[q]
    <3>1. /\ a \in Seq(StepEntry) /\ Len(a) = IF 1 <= p - 1 THEN p - 1 - 1 + 1 ELSE 0
          /\ \A q \in 1..(p - 1 - 1 + 1) : a[q] = block[1 + q - 1]
      BY <2>1, <2>3, SubSeqProperties
    <3>2. p - 1 - 1 + 1 = p - 1 /\ \A q \in 1..(p - 1) : 1 + q - 1 = q
      BY <1>4
    <3>3. Len(a) = p - 1
      BY <1>1, <1>4, <3>1
    <3> HIDE DEF a, p
    <3> QED BY <3>1, <3>2, <3>3
  <2>5. b \in Seq(StepEntry) /\ Len(b) = n - p /\ \A q \in 1..(n - p) : b[q] = block[p + q]
    <3>1. /\ b \in Seq(StepEntry) /\ Len(b) = IF p + 1 <= n THEN n - (p + 1) + 1 ELSE 0
          /\ \A q \in 1..(n - (p + 1) + 1) : b[q] = block[p + 1 + q - 1]
      BY <2>2, <2>3, SubSeqProperties
    <3>2. n - (p + 1) + 1 = n - p /\ \A q \in 1..(n - p) : p + 1 + q - 1 = p + q
      BY <1>1, <1>4
    <3>3. Len(b) = n - p
      BY <1>1, <1>4, <3>1
    <3> HIDE DEF b, p, n
    <3> QED BY <3>1, <3>2, <3>3
  <2> HIDE DEF a, b
  <2>6. /\ a \o b \in Seq(StepEntry) /\ Len(a \o b) = Len(a) + Len(b)
        /\ \A k \in 1..(Len(a) + Len(b)) : (a \o b)[k] = IF k <= Len(a) THEN a[k] ELSE b[k - Len(a)]
    BY <2>4, <2>5, ConcatProperties
  <2>7. Len(a) + Len(b) = n - 1
    BY <1>1, <1>4, <2>4, <2>5
  <2>8. ASSUME NEW q \in 1..(n - 1)
        PROVE  (a \o b)[q] = IF q < p THEN block[q] ELSE block[q + 1]
    <3>1. (a \o b)[q] = IF q <= p - 1 THEN a[q] ELSE b[q - (p - 1)]
      BY <2>4, <2>6, <2>7
    <3>2. CASE q < p
      <4>1. q <= p - 1 /\ q \in 1..(p - 1)
        BY <1>1, <1>4, <3>2
      <4> QED BY <2>4, <3>1, <3>2, <4>1
    <3>3. CASE ~(q < p)
      <4>1. ~(q <= p - 1) /\ q - (p - 1) \in 1..(n - p) /\ p + (q - (p - 1)) = q + 1
        BY <1>1, <1>4, <3>3
      <4>2. b[q - (p - 1)] = block[q + 1]
        BY <2>5, <4>1
      <4> QED BY <3>1, <3>3, <4>1, <4>2
    <3> QED BY <3>2, <3>3
  <2> HIDE DEF p, n
  <2>9. Without(block, step) \in Seq(StepEntry) /\ Len(Without(block, step)) = n - 1
    BY <2>0, <2>6, <2>7
  <2> QED BY <1>4, <2>0, <2>8, <2>9 DEF p, n
<1> QED BY <1>3, <1>4

LEMMA StepsOfWithout ==
  ASSUME NEW block \in Seq(StepEntry), Len(block) > 0, NEW step \in Int,
         \A q \in 1..Len(block) : block[q].i = block[1].i + q - 1
  PROVE  StepsIn(Without(block, step)) = StepsIn(block) \ {step}
<1> DEFINE p == step - block[1].i + 1
           n == Len(block)
           w == Without(block, step)
<1>1. n \in Nat /\ DOMAIN block = 1..n /\ \A q \in 1..n : block[q] \in StepEntry
  BY LenProperties, ElementOfSeq
<1>2. block[1].i \in Int /\ p \in Int
  <2>1. 1 \in 1..n
    BY <1>1
  <2>2. block[1].i \in Int
    BY <1>1, <2>1 DEF StepEntry
  <2> QED BY <2>2
<1>3. \A q \in 1..n : block[q].i = step <=> q = p
  BY <1>1, <1>2
<1> HIDE DEF p, n
<1>4. CASE p \notin 1..n
  <2>1. w = block
    BY <1>4, WithoutIs DEF p, n
  <2>2. step \notin StepsIn(block)
    BY <1>1, <1>3, <1>4 DEF StepsIn
  <2> QED BY <2>1, <2>2
<1>5. CASE p \in 1..n
  <2>1. /\ w \in Seq(StepEntry) /\ Len(w) = n - 1
        /\ \A q \in 1..(n - 1) : w[q] = IF q < p THEN block[q] ELSE block[q + 1]
    BY <1>5, WithoutIs DEF p, n
  <2>2. DOMAIN w = 1..(n - 1)
    BY <1>1, <2>1, LenProperties
  <2> HIDE DEF w
  <2>3. ASSUME NEW q \in 1..(n - 1) PROVE w[q].i \in StepsIn(block) \ {step}
    <3>1. CASE q < p
      <4>1. q \in 1..n /\ q # p /\ w[q] = block[q]
        BY <1>1, <1>5, <2>1, <3>1
      <4> QED BY <1>1, <1>3, <4>1 DEF StepsIn
    <3>2. CASE ~(q < p)
      <4>1. q + 1 \in 1..n /\ q + 1 # p /\ w[q] = block[q + 1]
        BY <1>1, <1>5, <2>1, <3>2
      <4> QED BY <1>1, <1>3, <4>1 DEF StepsIn
    <3> QED BY <3>1, <3>2
  <2>4. ASSUME NEW q \in 1..n, block[q].i # step PROVE block[q].i \in StepsIn(w)
    <3>0. q # p
      BY <1>3, <2>4
    <3>1. CASE q < p
      <4>1. q \in 1..(n - 1) /\ w[q] = block[q]
        BY <1>1, <1>5, <2>1, <3>1
      <4> QED BY <2>2, <4>1 DEF StepsIn
    <3>2. CASE ~(q < p)
      <4>1. q - 1 \in 1..(n - 1) /\ ~(q - 1 < p) /\ (q - 1) + 1 = q
        BY <1>1, <1>5, <3>0, <3>2
      <4>2. w[q - 1] = block[q]
        BY <2>1, <4>1
      <4> QED BY <2>2, <4>1, <4>2 DEF StepsIn
    <3> QED BY <3>1, <3>2
  <2>5. StepsIn(w) \subseteq StepsIn(block) \ {step}
    BY <2>2, <2>3 DEF StepsIn
  <2>6. StepsIn(block) \ {step} \subseteq StepsIn(w)
    BY <1>1, <2>4 DEF StepsIn
  <2> QED BY <2>5, <2>6 DEF w
<1> QED BY <1>4, <1>5

LEMMA SwappedIs ==
  ASSUME NEW block \in Seq(StepEntry), NEW at \in 1..(Len(block) - 1)
  PROVE  /\ Swapped(block, at) \in Seq(StepEntry) /\ Len(Swapped(block, at)) = Len(block)
         /\ Swapped(block, at)[at] = block[at + 1] /\ Swapped(block, at)[at + 1] = block[at]
         /\ \A q \in 1..Len(block) : q \notin {at, at + 1} => Swapped(block, at)[q] = block[q]
<1> DEFINE w == Swapped(block, at)
           n == Len(block)
<1>1. n \in Nat /\ block \in [1..n -> StepEntry]
  BY LenProperties
<1>2. at \in 1..n /\ at + 1 \in 1..n /\ at # at + 1
  BY <1>1
<1>3. w = [block EXCEPT ![at] = block[at + 1], ![at + 1] = block[at]]
  BY DEF Swapped
<1>4. w \in [1..n -> StepEntry]
  BY <1>1, <1>2, <1>3
<1>5. w \in Seq(StepEntry)
  BY <1>1, <1>4, SeqDef
<1>6. Len(w) = n
  BY <1>1, <1>4, <1>5, LenProperties
<1>7. w[at] = block[at + 1] /\ w[at + 1] = block[at]
      /\ \A q \in 1..n : q \notin {at, at + 1} => w[q] = block[q]
  BY <1>1, <1>2, <1>3
<1> QED BY <1>5, <1>6, <1>7

LEMMA ShortIsStitched ==
  Stitched(Short, Seam, Seam) /\ Stitched(Without(Short, Seam), Seam - 1, Seam - 1)
<1>a. Seam \in Nat \ {0} /\ Seam + 1 \in Nat
  BY ManifestAssumption
<1>b. Short \in Seq(StepEntry) /\ Len(Short) = Seam + 1 /\ DOMAIN Short = 1..(Seam + 1)
      /\ \A p \in 1..(Seam + 1) : Short[p].i = p - 1 /\ Short[p].t = p - 1
  BY BlocksAre
<1>1. Stitched(Short, Seam, Seam)
  <2>1. Len(Short) > 0 /\ Short[Len(Short)].i = Seam
    BY <1>a, <1>b
  <2>2. \A p \in DOMAIN Short :
          /\ Short[p].t = Short[p].i /\ Short[p].i <= Seam /\ Short[p].t \in 0..Seam
          /\ Short[p].t < p /\ Short[p].i \in Int
    BY <1>a, <1>b
  <2>3. \A p \in DOMAIN Short : ~(Short[p].i > Seam)
    BY <1>a, <2>2
  <2>4. \A u \in 0..Seam : u + 1 \in DOMAIN Short /\ Short[u + 1].t = u
    BY <1>a, <1>b
  <2> QED BY <1>b, <2>1, <2>2, <2>3, <2>4, StepsOfBlocks DEF Stitched
<1>2. Stitched(Without(Short, Seam), Seam - 1, Seam - 1)
  <2> DEFINE w == Without(Short, Seam)
  <2>1. Seam - Short[1].i + 1 = Seam + 1 /\ Seam + 1 \in 1..Len(Short) /\ Len(Short) > 0
        /\ Seam \in Int
    BY <1>a, <1>b
  <2>2. /\ w \in Seq(StepEntry) /\ Len(w) = Len(Short) - 1
        /\ \A q \in 1..(Len(Short) - 1) : w[q] = IF q < Seam + 1 THEN Short[q] ELSE Short[q + 1]
    BY <1>b, <2>1, WithoutIs
  <2>3. Len(w) = Seam
    BY <1>a, <1>b, <2>2
  <2>4. DOMAIN w = 1..Seam
    BY <2>2, <2>3, LenProperties
  <2>5. \A q \in 1..Seam : q \in 1..(Seam + 1) /\ q < Seam + 1 /\ q \in 1..(Len(Short) - 1)
    BY <1>a, <1>b
  <2>6. \A q \in 1..Seam : w[q].i = q - 1 /\ w[q].t = q - 1
    BY <1>b, <2>2, <2>5
  <2>7. StepsIn(w) = 0..(Seam - 1)
    <3>1. StepsIn(w) = StepsIn(Short) \ {Seam}
      <4>1. \A q \in 1..Len(Short) : Short[q].i = Short[1].i + q - 1
        BY <1>a, <1>b
      <4> QED BY <1>b, <2>1, <4>1, StepsOfWithout
    <3> QED BY <1>a, <3>1, StepsOfBlocks
  <2> HIDE DEF w
  <2>8. \A p \in DOMAIN w :
          /\ w[p].t = w[p].i /\ w[p].i <= Seam /\ w[p].t \in 0..(Seam - 1)
          /\ w[p].t < p /\ w[p].i \in Int
    BY <1>a, <2>4, <2>6
  <2>9. \A p \in DOMAIN w : ~(w[p].i > Seam)
    BY <1>a, <2>8
  <2>10. \A u \in 0..(Seam - 1) : u + 1 \in DOMAIN w /\ w[u + 1].t = u
    BY <1>a, <2>4, <2>6
  <2>11. Len(w) > 0 /\ w[Len(w)].i = Seam - 1
    BY <1>a, <2>3, <2>6
  <2>12. Stitched(w, Seam - 1, Seam - 1)
    BY <2>2, <2>7, <2>8, <2>9, <2>10, <2>11 DEF Stitched
  <2> QED BY <2>12 DEF w
<1> QED BY <1>1, <1>2

\* The long block may be listed after the short one, and over and over.
LEMMA LongGoesOn ==
  ASSUME NEW es, es = Short \/ Stitched(es, LastStep, LastStep + 1)
  PROVE  Stitched(es \o Long, LastStep, LastStep + 1)
<1>a. Seam \in Nat \ {0} /\ LastStep \in Nat /\ Seam < LastStep
  BY ManifestAssumption
<1> DEFINE m == LastStep - Seam + 1
           js == es \o Long
           last == IF es = Short THEN Seam ELSE LastStep
           lastTime == IF es = Short THEN Seam ELSE LastStep + 1
<1>b. Long \in Seq(StepEntry) /\ Len(Long) = m /\ DOMAIN Long = 1..m /\ m \in Nat \ {0}
      /\ \A p \in 1..m : Long[p].i = Seam + p - 1 /\ Long[p].t = Seam + p
  BY <1>a, BlocksAre
<1>c. Stitched(es, last, lastTime)
  BY ShortIsStitched
<1>d. es = Short => Len(es) = Seam + 1
  BY BlocksAre
<1>e. es \in Seq(StepEntry) /\ last \in 0..LastStep /\ lastTime \in Seam..(LastStep + 1)
  BY <1>a, <1>c DEF Stitched
<1>f. DOMAIN es = 1..Len(es) /\ Len(es) \in Nat /\ \A q \in DOMAIN es : es[q] \in StepEntry
  BY <1>e, LenProperties, ElementOfSeq
<1>g. /\ StepsIn(es) = 0..last
      /\ \A p \in DOMAIN es :
           /\ es[p].t \in {es[p].i, es[p].i + 1}
           /\ es[p].i < Seam => es[p].t = es[p].i
           /\ es[p].i > Seam => es[p].t = es[p].i + 1
           /\ es[p].t \in 0..lastTime /\ es[p].t < p
      /\ \A u \in 0..lastTime : u + 1 \in DOMAIN es /\ es[u + 1].t = u
  BY <1>c DEF Stitched
<1>h. Len(es) >= Seam + 1 /\ (es # Short => lastTime = LastStep + 1)
      /\ (es = Short => lastTime = Seam /\ Len(es) = Seam + 1)
      /\ (es # Short => last = LastStep) /\ (es = Short => last = Seam)
  <2>1. Seam \in 0..lastTime
    BY <1>a, <1>e
  <2>2. Seam + 1 \in DOMAIN es
    BY <1>g, <2>1
  <2>3. Len(es) >= Seam + 1
    BY <1>a, <1>f, <2>2
  <2>4. CASE es = Short
    BY <1>d, <2>3, <2>4
  <2>5. CASE es # Short
    BY <2>3, <2>5
  <2> QED BY <2>4, <2>5
<1> HIDE DEF last, lastTime, m
<1>1. /\ js \in Seq(StepEntry) /\ Len(js) = Len(es) + m
      /\ \A k \in 1..(Len(es) + m) : js[k] = IF k <= Len(es) THEN es[k] ELSE Long[k - Len(es)]
  BY <1>b, <1>e, ConcatProperties
<1>2. DOMAIN js = 1..(Len(es) + m)
  BY <1>1, LenProperties
<1>s. StepsIn(js) = StepsIn(es) \cup StepsIn(Long)
  BY <1>b, <1>e, StepsOfJoined
<1> HIDE DEF js
<1>3. \A k \in 1..Len(es) : k \in DOMAIN js /\ js[k] = es[k] /\ k \in DOMAIN es
  BY <1>1, <1>2, <1>b, <1>f
<1>4. ASSUME NEW k \in DOMAIN js, k \notin 1..Len(es)
      PROVE  /\ k - Len(es) \in 1..m /\ js[k].i = Seam + (k - Len(es)) - 1
             /\ js[k].t = Seam + (k - Len(es))
  <2>1. k - Len(es) \in 1..m /\ ~(k <= Len(es))
    BY <1>2, <1>4, <1>b, <1>f
  <2>2. js[k] = Long[k - Len(es)]
    BY <1>1, <1>2, <2>1
  <2> QED BY <1>b, <2>1, <2>2
<1>5. StepsIn(js) = 0..LastStep
  <2>1. last = Seam \/ last = LastStep
    BY <1>h
  <2>2. (0..last) \cup (Seam..LastStep) = 0..LastStep
    BY <1>a, <2>1
  <2> QED BY <1>s, <1>g, <2>2, StepsOfBlocks
<1>6. ASSUME NEW p \in DOMAIN js
      PROVE  /\ js[p].t \in {js[p].i, js[p].i + 1}
             /\ js[p].i < Seam => js[p].t = js[p].i
             /\ js[p].i > Seam => js[p].t = js[p].i + 1
             /\ js[p].t \in 0..(LastStep + 1) /\ js[p].t < p
  <2>1. CASE p \in 1..Len(es)
    <3>1. js[p] = es[p] /\ p \in DOMAIN es
      BY <1>3, <2>1
    <3>2. es[p].t \in 0..(LastStep + 1)
      <4>1. es[p].t \in 0..lastTime
        BY <1>g, <3>1
      <4> QED BY <1>a, <1>e, <4>1
    <3> QED BY <1>g, <3>1, <3>2
  <2>2. CASE p \notin 1..Len(es)
    <3>1. p - Len(es) \in 1..m /\ js[p].i = Seam + (p - Len(es)) - 1 /\ js[p].t = Seam + (p - Len(es))
      BY <1>4, <2>2
    <3>2. p \in Int
      BY <1>2, <1>b, <1>f
    <3>3. Seam + (p - Len(es)) < p /\ Seam + (p - Len(es)) \in 0..(LastStep + 1)
      <4> DEFINE n == Len(es)
      <4>1. n \in Nat /\ n >= Seam + 1 /\ p - n \in 1..(LastStep - Seam + 1)
        BY <1>f, <1>h, <3>1 DEF m
      <4> HIDE DEF n
      <4>2. Seam + (p - n) < p /\ Seam + (p - n) \in 0..(LastStep + 1)
        BY <1>a, <3>2, <4>1
      <4> QED BY <4>2 DEF n
    <3> QED BY <1>a, <1>f, <3>1, <3>2, <3>3
  <2> QED BY <2>1, <2>2
<1>7. ASSUME NEW u \in 0..(LastStep + 1)
      PROVE  u + 1 \in DOMAIN js /\ js[u + 1].t = u
  <2>1. CASE u \in 0..lastTime
    <3>1. u + 1 \in DOMAIN es /\ es[u + 1].t = u
      BY <1>g, <2>1
    <3> QED BY <1>3, <1>f, <3>1
  <2>2. CASE u \notin 0..lastTime
    <3>1. lastTime = Seam /\ Len(es) = Seam + 1
      BY <1>h, <2>2
    <3>2. u + 1 \in DOMAIN js /\ u + 1 \notin 1..Len(es)
      BY <1>a, <1>2, <2>2, <3>1 DEF m
    <3>3. js[u + 1].t = Seam + (u + 1 - Len(es))
      BY <1>4, <3>2
    <3> QED BY <1>a, <3>1, <3>2, <3>3
  <2> QED BY <2>1, <2>2
<1>8. Len(js) > 0 /\ js[Len(js)].i = LastStep
  <2>1. Len(es) + m \in DOMAIN js /\ Len(es) + m \notin 1..Len(es) /\ Len(es) + m > 0
        /\ (Len(es) + m) - Len(es) = m
    BY <1>2, <1>b, <1>f
  <2>2. js[Len(es) + m].i = Seam + m - 1
    BY <1>4, <2>1
  <2>3. Seam + m - 1 = LastStep
    BY <1>a DEF m
  <2> QED BY <1>1, <2>1, <2>2, <2>3
<1>9. Stitched(js, LastStep, LastStep + 1)
  BY <1>1, <1>5, <1>6, <1>7, <1>8 DEF Stitched
<1> QED BY <1>9 DEF js

LEMMA BlocksOf ==
  ASSUME NEW d \in {Sound} \cup Damages
  PROVE  LET short == BlockAs(Short, "short", d)
             long == BlockAs(Long, "long", d) IN
         /\ short \in Seq(StepEntry) /\ long \in Seq(StepEntry)
         /\ d.is \in {"none", "other_run"} => short = Short /\ long = Long
         /\ d.is = "dropped" => /\ short = Without(Short, d.step) /\ long = Without(Long, d.step)
                                /\ StepsIn(short) = (0..Seam) \ {d.step}
                                /\ StepsIn(long) = (Seam..LastStep) \ {d.step}
         /\ d.is = "swapped" => /\ Len(short) = Seam + 1 /\ Len(long) = LastStep - Seam + 1
                                /\ d.of = "short" => short = Swapped(Short, d.at) /\ long = Long
                                /\ d.of = "long" => short = Short /\ long = Swapped(Long, d.at)
<1> DEFINE short == BlockAs(Short, "short", d)
           long == BlockAs(Long, "long", d)
<1>a. Seam \in Nat \ {0} /\ LastStep \in Nat /\ Seam < LastStep
  BY ManifestAssumption
<1>1. CASE d.is \in {"none", "other_run"}
  <2>1. short = Short /\ long = Long
    BY <1>1 DEF BlockAs
  <2> QED BY <1>1, <2>1, BlocksAre
<1>2. CASE d.is = "dropped" /\ d.step \in 1..(LastStep - 1)
  <2>1. short = Without(Short, d.step) /\ long = Without(Long, d.step)
    BY <1>2 DEF BlockAs
  <2>2. d.step \in Int
    BY <1>a, <1>2
  <2>3. /\ Short \in Seq(StepEntry) /\ Len(Short) > 0 /\ Long \in Seq(StepEntry) /\ Len(Long) > 0
        /\ \A q \in 1..Len(Short) : Short[q].i = Short[1].i + q - 1
        /\ \A q \in 1..Len(Long) : Long[q].i = Long[1].i + q - 1
    <3>1. Len(Short) > 0 /\ Len(Long) > 0 /\ 1 \in 1..(Seam + 1) /\ 1 \in 1..(LastStep - Seam + 1)
      BY <1>a, BlocksAre
    <3>2. Short[1].i = 0 /\ Long[1].i = Seam
      BY <1>a, <3>1, BlocksAre
    <3>3. \A q \in 1..(Seam + 1) : Short[q].i = 0 + q - 1
      BY <1>a, BlocksAre
    <3>4. \A q \in 1..(LastStep - Seam + 1) : Long[q].i = Seam + q - 1
      BY <1>a, BlocksAre
    <3> QED BY <3>1, <3>2, <3>3, <3>4, BlocksAre
  <2>4. StepsIn(short) = StepsIn(Short) \ {d.step}
    BY <2>1, <2>2, <2>3, StepsOfWithout
  <2>5. StepsIn(long) = StepsIn(Long) \ {d.step}
    BY <2>1, <2>2, <2>3, StepsOfWithout
  <2>6. short \in Seq(StepEntry) /\ long \in Seq(StepEntry)
    BY <2>1, <2>2, <2>3, WithoutIs
  <2> HIDE DEF short, long
  <2>7. /\ StepsIn(short) = (0..Seam) \ {d.step}
        /\ StepsIn(long) = (Seam..LastStep) \ {d.step}
    BY <2>4, <2>5, StepsOfBlocks
  <2> QED BY <1>2, <2>1, <2>6, <2>7 DEF short, long
<1>3. CASE d.is = "swapped" /\ d.of = "short" /\ d.at \in 1..Seam
  <2>1. short = Swapped(Short, d.at) /\ long = Long
    BY <1>3 DEF BlockAs
  <2>2. d.at \in 1..(Len(Short) - 1)
    BY <1>a, <1>3, BlocksAre
  <2>3. short \in Seq(StepEntry) /\ Len(short) = Seam + 1
    BY <2>1, <2>2, BlocksAre, SwappedIs
  <2> QED BY <1>3, <2>1, <2>3, BlocksAre
<1>4. CASE d.is = "swapped" /\ d.of = "long" /\ d.at \in 1..(LastStep - Seam)
  <2>1. short = Short /\ long = Swapped(Long, d.at)
    BY <1>4 DEF BlockAs
  <2>2. d.at \in 1..(Len(Long) - 1)
    BY <1>a, <1>4, BlocksAre
  <2>3. long \in Seq(StepEntry) /\ Len(long) = LastStep - Seam + 1
    BY <2>1, <2>2, BlocksAre, SwappedIs
  <2> QED BY <1>4, <2>1, <2>3, BlocksAre
<1> QED BY <1>1, <1>2, <1>3, <1>4, DamageKinds

LEMMA BeginningStays ==
  ASSUME NEW es \in Seq(StepEntry), NEW more \in Seq(StepEntry), NEW d, BeginsWith(es, d)
  PROVE  BeginsWith(es \o more, d)
<1>1. DOMAIN es = 1..Len(es) /\ Len(es) \in Nat /\ Len(more) \in Nat
  BY LenProperties
<1>2. /\ es \o more \in Seq(StepEntry) /\ Len(es \o more) = Len(es) + Len(more)
      /\ \A k \in 1..(Len(es) + Len(more)) :
           (es \o more)[k] = IF k <= Len(es) THEN es[k] ELSE more[k - Len(es)]
  BY ConcatProperties
<1>3. DOMAIN (es \o more) = 1..(Len(es) + Len(more))
  BY <1>2, LenProperties
<1>4. \A k \in DOMAIN es : k \in DOMAIN (es \o more) /\ (es \o more)[k] = es[k]
  BY <1>1, <1>2, <1>3
<1> QED BY <1>4 DEF BeginsWith

LEMMA ManifestInductive == ManifestInv /\ [ManifestNext]_manifestVars => ManifestInv'
<1> SUFFICES ASSUME ManifestInv, [ManifestNext]_manifestVars PROVE ManifestInv'
  OBVIOUS
<1>a. MaxReplays \in Nat /\ Seam \in Nat \ {0} /\ LastStep \in Nat /\ Seam < LastStep
  BY ManifestAssumption
<1>1. CASE Publish
  <2>1. /\ replays' = 0 /\ entries' = entries /\ damage' \in {Sound} \cup Damages
        /\ listed' = BlockAs(Short, "short", damage')
    BY <1>1 DEF Publish
  <2> QED BY <1>a, <2>1 DEF ManifestInv
<1>2. CASE Relist
  <2> DEFINE long == BlockAs(Long, "long", damage)
             short == BlockAs(Short, "short", damage)
  <2>1. /\ replays \in 0..(MaxReplays - 1) /\ replays' = replays + 1
        /\ listed' = listed \o long /\ damage' = damage /\ entries' = entries
    BY <1>2 DEF Relist
  <2>2. /\ damage \in {Sound} \cup Damages /\ entries \in Seq([name : Times, stated : Times])
        /\ replays = 0 => listed = short
        /\ replays > 0 =>
             /\ listed \in Seq(StepEntry)
             /\ damage.is = "dropped" => StepsIn(listed) = (0..LastStep) \ {damage.step}
             /\ damage.is = "swapped" => BeginsWith(listed, damage)
             /\ damage.is \in {"none", "other_run"} => Stitched(listed, LastStep, LastStep + 1)
    BY DEF ManifestInv
  <2>3. replays = 0 \/ replays > 0
    BY <2>1
  <2>4. /\ short \in Seq(StepEntry) /\ long \in Seq(StepEntry)
        /\ damage.is \in {"none", "other_run"} => short = Short /\ long = Long
        /\ damage.is = "dropped" => /\ StepsIn(short) = (0..Seam) \ {damage.step}
                                    /\ StepsIn(long) = (Seam..LastStep) \ {damage.step}
        /\ damage.is = "swapped" => Len(short) = Seam + 1 /\ Len(long) = LastStep - Seam + 1
    BY <2>2, BlocksOf
  <2> HIDE DEF long, short
  <2>5. listed \in Seq(StepEntry)
    BY <2>2, <2>3, <2>4
  <2>6. listed' \in Seq(StepEntry)
    BY <2>1, <2>4, <2>5, ConcatProperties
  <2>7. ASSUME damage.is = "dropped" PROVE StepsIn(listed') = (0..LastStep) \ {damage.step}
    <3>1. StepsIn(listed') = StepsIn(listed) \cup StepsIn(long)
      BY <2>1, <2>4, <2>5, StepsOfJoined
    <3>2. (0..Seam) \cup (Seam..LastStep) = 0..LastStep /\ Seam..LastStep \subseteq 0..LastStep
      BY <1>a
    <3>3. CASE replays = 0
      BY <2>2, <2>4, <2>7, <3>1, <3>2, <3>3
    <3>4. CASE replays > 0
      BY <2>2, <2>4, <2>7, <3>1, <3>2, <3>4
    <3> QED BY <2>3, <3>3, <3>4
  <2>8. ASSUME damage.is = "swapped" PROVE BeginsWith(listed', damage)
    <3>1. CASE replays = 0
      <4>1. listed' = short \o long /\ Len(short) + Len(long) = LastStep + 2
        <5>1. listed' = short \o long
          BY <2>1, <2>2, <3>1
        <5>2. Len(short) = Seam + 1 /\ Len(long) = LastStep - Seam + 1
          BY <2>4, <2>8
        <5>3. (Seam + 1) + (LastStep - Seam + 1) = LastStep + 2
          BY <1>a
        <5> QED BY <5>1, <5>2, <5>3
      <4>2. DOMAIN (short \o long) = 1..(LastStep + 2)
        <5>1. short \o long \in Seq(StepEntry) /\ Len(short \o long) = LastStep + 2
          BY <2>4, <4>1, ConcatProperties
        <5> QED BY <5>1, LenProperties
      <4> QED BY <4>1, <4>2 DEF BeginsWith, short, long
    <3>2. CASE replays > 0
      BY <2>1, <2>2, <2>4, <2>5, <2>8, <3>2, BeginningStays
    <3> QED BY <2>3, <3>1, <3>2
  <2>9. ASSUME damage.is \in {"none", "other_run"}
        PROVE  Stitched(listed', LastStep, LastStep + 1)
    <3>1. listed = Short \/ Stitched(listed, LastStep, LastStep + 1)
      BY <2>2, <2>3, <2>4, <2>9
    <3>2. listed' = listed \o Long
      BY <2>1, <2>4, <2>9
    <3> QED BY <3>1, <3>2, LongGoesOn
  <2>10. replays' \in -1..MaxReplays /\ replays' > 0 /\ replays' # 0 /\ replays' # -1
    BY <1>a, <2>1
  <2> QED BY <2>1, <2>2, <2>6, <2>7, <2>8, <2>9, <2>10 DEF ManifestInv
<1>3. CASE \E n, s \in Times : Observe(n, s)
  <2>1. PICK n \in Times, s \in Times : Observe(n, s)
    BY <1>3
  <2>2. /\ entries' = Append(entries, [name |-> n, stated |-> s])
        /\ UNCHANGED <<replays, damage, listed>>
    BY <2>1 DEF Observe
  <2>3. entries' \in Seq([name : Times, stated : Times])
    <3>1. entries \in Seq([name : Times, stated : Times])
          /\ [name |-> n, stated |-> s] \in [name : Times, stated : Times]
      BY DEF ManifestInv
    <3> QED BY <2>2, <3>1, AppendProperties
  <2> QED BY <2>2, <2>3 DEF ManifestInv
<1>4. CASE UNCHANGED manifestVars
  BY <1>4 DEF manifestVars, ManifestInv
<1> QED BY <1>1, <1>2, <1>3, <1>4 DEF ManifestNext

LEMMA ManifestBegins == ManifestInit => ManifestInv
<1> SUFFICES ASSUME ManifestInit PROVE ManifestInv
  OBVIOUS
<1>1. replays = -1 /\ damage = Sound /\ listed = <<>> /\ entries = <<>>
  BY DEF ManifestInit
<1>2. -1 \in -1..MaxReplays /\ <<>> \in Seq([name : Times, stated : Times])
  BY ManifestAssumption
<1> QED BY <1>1, <1>2 DEF ManifestInv

\* An entry before which every time is earlier, and after it one that is not.
LEMMA SwapTold ==
  ASSUME NEW es \in Seq(StepEntry), NEW a \in DOMAIN es, a + 1 \in DOMAIN es, es[a + 1].t < es[a].t,
         \A q \in 1..(a - 1) : es[q].t < es[a + 1].t
  PROVE  StepsWarn(es)
<1>1. DOMAIN es = 1..Len(es) /\ Len(es) \in Nat /\ \A q \in DOMAIN es : es[q] \in StepEntry
  BY LenProperties, ElementOfSeq
<1>2. \A q \in DOMAIN es : es[q].t \in Int /\ q \in Nat
  BY <1>1 DEF StepEntry
<1> DEFINE ts == [p \in DOMAIN es |-> es[p].t]
<1>3. \A q \in 1..(a - 1) : q \in DOMAIN es /\ ts[q] # ts[a] /\ ts[q] # ts[a + 1]
  <2> SUFFICES ASSUME NEW q \in 1..(a - 1)
               PROVE  q \in DOMAIN es /\ ts[q] # ts[a] /\ ts[q] # ts[a + 1]
    OBVIOUS
  <2>1. q \in DOMAIN es
    BY <1>1
  <2>2. es[q].t < es[a + 1].t /\ es[q].t \in Int /\ es[a].t \in Int /\ es[a + 1].t \in Int
    BY <1>2, <2>1
  <2> QED BY <2>1, <2>2
<1>4. ts[a] # ts[a + 1] /\ ts[a + 1] <= ts[a]
  BY <1>2
<1>5. \A q \in 1..((a + 1) - 1) : ts[q] # ts[a + 1]
  <2>1. \A q \in 1..((a + 1) - 1) : q \in 1..(a - 1) \/ q = a
    BY <1>2
  <2> QED BY <1>3, <1>4, <2>1
<1>6. a < a + 1
  BY <1>2
<1>7. time_not_advancing(ts)
  <2> DEFINE firsts == {p \in DOMAIN ts : \A q \in 1..(p - 1) : ts[q] # ts[p]}
  <2>1. a \in firsts /\ a + 1 \in firsts
    BY <1>3, <1>5
  <2> QED BY <1>4, <1>6, <2>1 DEF time_not_advancing
<1> QED BY <1>7 DEF StepsWarn

\* The other run: its steps go up by one, its times are later than all others.
LEMMA OtherRunIs ==
  ASSUME damage.is = "other_run", damage.from \in 0..(LastStep - 1), damage.steps \in 2..3
  PROVE  /\ OtherRun \in Seq(StepEntry) /\ Len(OtherRun) = damage.steps
         /\ DOMAIN OtherRun = 1..damage.steps
         /\ \A p \in 1..damage.steps :
              OtherRun[p].i = damage.from + p - 1 /\ OtherRun[p].t = LastStep + 1 + p
         /\ StepsIn(OtherRun) = damage.from..(damage.from + damage.steps - 1)
<1> DEFINE f == damage.from
           k == damage.steps
           o == [p \in 1..k |-> [i |-> f + p - 1, t |-> LastStep + 1 + p]]
<1>a. LastStep \in Nat
  BY ManifestAssumption
<1>b. f \in Nat /\ k \in Nat
  BY <1>a
<1>1. OtherRun = o
  BY DEF OtherRun
<1> HIDE DEF f, k
<1>2. \A p \in 1..k : [i |-> f + p - 1, t |-> LastStep + 1 + p] \in StepEntry
  BY <1>a, <1>b DEF StepEntry
<1>3. o \in [1..k -> StepEntry]
  BY <1>2
<1>4. o \in Seq(StepEntry)
  BY <1>b, <1>3, SeqDef
<1>5. Len(o) = k
  BY <1>b, <1>3, <1>4, LenProperties
<1>6. \A p \in 1..k : o[p].i = f + p - 1 /\ o[p].t = LastStep + 1 + p
  OBVIOUS
<1>7. StepsIn(o) = f..(f + k - 1)
  <2>1. \A n \in f..(f + k - 1) : n - f + 1 \in 1..k /\ f + (n - f + 1) - 1 = n
    BY <1>b
  <2>2. \A p \in 1..k : f + p - 1 \in f..(f + k - 1)
    BY <1>b
  <2>3. DOMAIN o = 1..k
    OBVIOUS
  <2> HIDE DEF o
  <2>4. \A n \in f..(f + k - 1) : n \in StepsIn(o)
    BY <1>6, <2>1, <2>3 DEF StepsIn
  <2>5. \A n \in StepsIn(o) : n \in f..(f + k - 1)
    BY <1>6, <2>2, <2>3 DEF StepsIn
  <2> QED BY <2>4, <2>5
<1> QED BY <1>1, <1>3, <1>4, <1>5, <1>6, <1>7 DEF f, k

LEMMA JoinedEntries ==
  ASSUME NEW a \in Seq(StepEntry), NEW b \in Seq(StepEntry)
  PROVE  /\ a \o b \in Seq(StepEntry) /\ Len(a \o b) = Len(a) + Len(b)
         /\ DOMAIN (a \o b) = 1..(Len(a) + Len(b)) /\ Len(a) \in Nat /\ Len(b) \in Nat
         /\ \A k \in 1..Len(a) : (a \o b)[k] = a[k]
         /\ \A k \in 1..Len(b) : (a \o b)[Len(a) + k] = b[k]
<1>1. /\ a \o b \in Seq(StepEntry) /\ Len(a \o b) = Len(a) + Len(b)
      /\ \A k \in 1..(Len(a) + Len(b)) : (a \o b)[k] = IF k <= Len(a) THEN a[k] ELSE b[k - Len(a)]
  BY ConcatProperties
<1>2. DOMAIN (a \o b) = 1..(Len(a) + Len(b)) /\ Len(a) \in Nat /\ Len(b) \in Nat
  BY <1>1, LenProperties
<1>3. \A k \in 1..Len(a) : k \in 1..(Len(a) + Len(b)) /\ k <= Len(a)
  BY <1>2
<1>4. \A k \in 1..Len(b) : /\ Len(a) + k \in 1..(Len(a) + Len(b)) /\ ~(Len(a) + k <= Len(a))
                           /\ (Len(a) + k) - Len(a) = k
  BY <1>2
<1>5. \A k \in 1..Len(b) : (a \o b)[Len(a) + k] = b[k]
  BY <1>1, <1>4
<1> QED BY <1>1, <1>2, <1>3, <1>5

\* A run that begins within what is listed is told by the second step it repeats.
LEMMA RepublishTold ==
  ASSUME NEW last \in Nat, NEW lastTime \in 0..(LastStep + 1), Stitched(listed, last, lastTime),
         damage.is = "other_run", damage.from \in 0..(LastStep - 1), damage.steps \in 2..3,
         damage.from < last
  PROVE  StepsWarn(listed \o OtherRun)
<1> DEFINE es == listed \o OtherRun
           n == Len(listed)
           f == damage.from
<1>a. LastStep \in Nat /\ f \in Nat
  BY ManifestAssumption
<1>b. /\ listed \in Seq(StepEntry) /\ n > 0 /\ listed[n].i = last /\ StepsIn(listed) = 0..last
      /\ \A p \in DOMAIN listed : listed[p].t \in 0..lastTime
  BY DEF Stitched
<1>c. OtherRun \in Seq(StepEntry) /\ 1 \in 1..Len(OtherRun) /\ 2 \in 1..Len(OtherRun)
      /\ OtherRun[1].i = f /\ OtherRun[2].i = f + 1
      /\ OtherRun[1].t = LastStep + 2 /\ OtherRun[2].t = LastStep + 3
  <2>1. 1 \in 1..damage.steps /\ 2 \in 1..damage.steps
    OBVIOUS
  <2>2. OtherRun \in Seq(StepEntry) /\ Len(OtherRun) = damage.steps
    BY OtherRunIs
  <2>3. /\ OtherRun[1].i = f + 1 - 1 /\ OtherRun[1].t = LastStep + 1 + 1
        /\ OtherRun[2].i = f + 2 - 1 /\ OtherRun[2].t = LastStep + 1 + 2
    BY <2>1, OtherRunIs
  <2> QED BY <1>a, <2>1, <2>2, <2>3
<1>d. DOMAIN listed = 1..n /\ n \in Nat
  BY <1>b, LenProperties
<1>1. /\ es \in Seq(StepEntry) /\ DOMAIN es = 1..Len(es) /\ Len(es) \in Nat
      /\ \A k \in 1..n : k \in DOMAIN es /\ es[k] = listed[k]
      /\ n + 1 \in DOMAIN es /\ n + 2 \in DOMAIN es
      /\ es[n + 1] = OtherRun[1] /\ es[n + 2] = OtherRun[2]
  <2>1. /\ es \in Seq(StepEntry) /\ Len(es) = n + Len(OtherRun) /\ DOMAIN es = 1..(n + Len(OtherRun))
        /\ n \in Nat /\ Len(OtherRun) \in Nat /\ \A k \in 1..n : es[k] = listed[k]
        /\ \A k \in 1..Len(OtherRun) : es[n + k] = OtherRun[k]
    BY <1>b, <1>c, JoinedEntries
  <2> HIDE DEF es, n
  <2>2. \A k \in 1..n : k \in 1..(n + Len(OtherRun))
    BY <2>1
  <2>3. n + 1 \in 1..(n + Len(OtherRun)) /\ n + 2 \in 1..(n + Len(OtherRun))
    BY <1>c, <2>1
  <2> QED BY <1>c, <2>1, <2>2, <2>3
<1> HIDE DEF es, n
<1>2. n + 1 \in Starts(es)
  <2>1. es[n].i = last /\ es[n + 1].i = f /\ f # last + 1 /\ (n + 1) - 1 = n
    <3>1. n \in 1..n
      BY <1>b, <1>d
    <3> QED BY <1>a, <1>b, <1>c, <1>d, <1>1, <3>1
  <2> QED BY <1>1, <2>1 DEF Starts
<1>3. n + 2 \notin Starts(es)
  <2>1. n + 2 # 1 /\ (n + 2) - 1 = n + 1
    BY <1>d
  <2> QED BY <1>c, <1>1, <2>1 DEF Starts
<1>4. n + 1 \in Block(es, n + 1) /\ n + 2 \in Block(es, n + 1)
  <2>1. \A r \in Starts(es) : r \in Nat
    BY <1>1 DEF Starts
  <2>2. \A r \in Nat : r <= n + 1 \/ r > n + 1
    BY <1>d
  <2>3. \A r \in Nat : r = n + 2 \/ r <= n + 1 \/ r > n + 2
    BY <1>d
  <2>4. n + 1 >= n + 1 /\ n + 2 >= n + 1
    BY <1>d
  <2> QED BY <1>1, <1>3, <2>1, <2>2, <2>3, <2>4 DEF Block
<1> DEFINE C == {p \in Block(es, n + 1) : /\ \A q \in 1..((n + 1) - 1) : es[q] # es[p]
                                          /\ \E q \in 1..((n + 1) - 1) : es[q].i = es[p].i}
<1>5. (n + 1) - 1 = n
  BY <1>d
<1>6. \A q \in 1..n : es[q] # es[n + 1] /\ es[q] # es[n + 2]
  <2> SUFFICES ASSUME NEW q \in 1..n PROVE es[q] # es[n + 1] /\ es[q] # es[n + 2]
    OBVIOUS
  <2>1. es[q].t \in 0..lastTime
    BY <1>b, <1>d, <1>1
  <2>2. es[q].t # LastStep + 2 /\ es[q].t # LastStep + 3
    BY <1>a, <2>1
  <2> QED BY <1>c, <1>1, <2>2
<1>7. (\E q \in 1..n : es[q].i = es[n + 1].i) /\ (\E q \in 1..n : es[q].i = es[n + 2].i)
  <2>1. f \in StepsIn(listed) /\ f + 1 \in StepsIn(listed)
    BY <1>a, <1>b
  <2>2. PICK q \in 1..n, r \in 1..n : listed[q].i = f /\ listed[r].i = f + 1
    BY <1>d, <2>1 DEF StepsIn
  <2>3. es[q].i = f /\ es[r].i = f + 1
    BY <1>1, <2>2
  <2> QED BY <1>c, <1>1, <2>3
<1>8. n + 1 \in C /\ n + 2 \in C
  BY <1>4, <1>5, <1>6, <1>7
<1>9. IsFiniteSet(C)
  <2>1. C \in SUBSET (1..Len(es))
    BY <1>1 DEF Block
  <2>2. IsFiniteSet(1..Len(es))
    BY <1>1, FS_Interval
  <2> HIDE DEF C
  <2> QED BY <2>1, <2>2, FS_Subset
<1> HIDE DEF C
<1>10. Cardinality(C) > 1
  <2> DEFINE T == {n + 1, n + 2}
  <2>1. n + 1 # n + 2
    BY <1>d
  <2>2. T \subseteq C
    BY <1>8
  <2>3. IsFiniteSet(T) /\ Cardinality(T) = 2
    <3>1. IsFiniteSet({n + 1}) /\ Cardinality({n + 1}) = 1
      BY FS_Singleton
    <3>2. T = {n + 1} \cup {n + 2} /\ n + 2 \notin {n + 1}
      BY <2>1
    <3> QED BY <3>1, <3>2, FS_AddElement
  <2>4. Cardinality(T) <= Cardinality(C)
    BY <1>9, <2>2, FS_Subset
  <2>5. Cardinality(C) \in Nat
    BY <1>9, FS_CardinalityType
  <2> QED BY <2>3, <2>4, <2>5
<1>11. conflicting_republish(es)
  BY <1>2, <1>10 DEF conflicting_republish, C
<1> QED BY <1>11 DEF StepsWarn, es

\* A run that goes on from the short block, or shares its last step, is a join.
LEMMA JoinPasses ==
  ASSUME damage.is = "other_run", damage.from \in {Seam, Seam + 1}, damage.steps \in 2..3,
         damage.from \in 0..(LastStep - 1)
  PROVE  ~StepsWarn(Short \o OtherRun)
<1> DEFINE es == Short \o OtherRun
           f == damage.from
           k == damage.steps
           n == Seam + 1
<1>a. Seam \in Nat /\ LastStep \in Nat /\ Seam < LastStep /\ f \in Nat /\ k \in 2..3 /\ f \in {Seam, Seam + 1}
      /\ n \in Nat /\ n = Seam + 1
  BY ManifestAssumption
<1>b. /\ Short \in Seq(StepEntry) /\ Len(Short) = n
      /\ \A p \in 1..n : Short[p].i = p - 1 /\ Short[p].t = p - 1
  BY BlocksAre
<1>c. /\ OtherRun \in Seq(StepEntry) /\ Len(OtherRun) = k
      /\ \A p \in 1..k : OtherRun[p].i = f + p - 1 /\ OtherRun[p].t = LastStep + 1 + p
      /\ StepsIn(OtherRun) = f..(f + k - 1)
  BY OtherRunIs
<1> HIDE DEF f, k, n
<1>1. /\ es \in Seq(StepEntry) /\ DOMAIN es = 1..(n + k)
      /\ \A p \in 1..n : es[p] = Short[p]
      /\ \A p \in 1..k : es[n + p] = OtherRun[p]
  BY <1>b, <1>c, JoinedEntries
<1>2. StepsIn(es) = 0..(f + k - 1)
  <2>1. StepsIn(es) = (0..Seam) \cup (f..(f + k - 1))
    BY <1>b, <1>c, StepsOfJoined, StepsOfBlocks
  <2>2. (0..Seam) \cup (f..(f + k - 1)) = 0..(f + k - 1)
    BY <1>a
  <2> QED BY <2>1, <2>2
<1> HIDE DEF es
<1>3. \A p \in DOMAIN es : p <= n => p \in 1..n /\ es[p].i = p - 1 /\ es[p].t = p - 1
  <2>1. \A p \in DOMAIN es : p <= n => p \in 1..n
    BY <1>a, <1>1
  <2> QED BY <1>b, <1>1, <2>1
<1>4. \A p \in DOMAIN es : p > n => /\ es[p].i = f + (p - n) - 1
                                    /\ es[p].t = LastStep + 1 + (p - n)
  <2> SUFFICES ASSUME NEW p \in DOMAIN es, p > n
               PROVE  es[p].i = f + (p - n) - 1 /\ es[p].t = LastStep + 1 + (p - n)
    OBVIOUS
  <2>1. p - n \in 1..k /\ n + (p - n) = p
    BY <1>a, <1>1
  <2>2. es[n + (p - n)] = OtherRun[p - n]
    BY <1>1, <2>1
  <2> QED BY <1>c, <2>1, <2>2
<1>5. ASSUME NEW p \in DOMAIN es, NEW q \in DOMAIN es, p < q PROVE es[p].t < es[q].t
  <2>0. p \in Int /\ q \in Int
    BY <1>1
  <2>1. CASE q <= n
    <3>1. p <= n
      BY <1>a, <1>5, <2>0, <2>1
    <3>2. es[p].t = p - 1 /\ es[q].t = q - 1
      BY <1>3, <2>1, <3>1
    <3> QED BY <1>5, <2>0, <3>2
  <2>2. CASE p <= n /\ q > n
    <3>1. es[p].t = p - 1 /\ es[q].t = LastStep + 1 + (q - n)
      BY <1>3, <1>4, <2>2
    <3> QED BY <1>a, <2>0, <2>2, <3>1
  <2>3. CASE p > n /\ q > n
    <3>1. es[p].t = LastStep + 1 + (p - n) /\ es[q].t = LastStep + 1 + (q - n)
      BY <1>4, <2>3
    <3> QED BY <1>a, <1>5, <2>0, <3>1
  <2> QED BY <1>a, <1>5, <2>0, <2>1, <2>2, <2>3
<1>6. ASSUME NEW p \in DOMAIN es, NEW q \in DOMAIN es, es[p].i = es[q].i
      PROVE  p = q \/ es[p].i = Seam
  <2>0. p \in Int /\ q \in Int
    BY <1>1
  <2>1. CASE p <= n /\ q <= n
    <3>1. es[p].i = p - 1 /\ es[q].i = q - 1
      BY <1>3, <2>1
    <3>2. p - 1 = q - 1
      BY <1>6, <3>1
    <3> QED BY <2>0, <3>2
  <2>2. CASE p <= n /\ q > n
    <3>1. es[p].i = p - 1 /\ es[q].i = f + (q - n) - 1
      BY <1>3, <1>4, <2>2
    <3>2. p - 1 = f + (q - n) - 1
      BY <1>6, <3>1
    <3>3. p - 1 = Seam
      BY <1>a, <2>0, <2>2, <3>2
    <3> QED BY <3>1, <3>3
  <2>3. CASE p > n /\ q <= n
    <3>1. es[p].i = f + (p - n) - 1 /\ es[q].i = q - 1
      BY <1>3, <1>4, <2>3
    <3>2. f + (p - n) - 1 = q - 1
      BY <1>6, <3>1
    <3>3. q - 1 = Seam
      BY <1>a, <2>0, <2>3, <3>2
    <3> QED BY <1>6, <3>1, <3>3
  <2>4. CASE p > n /\ q > n
    <3>1. es[p].i = f + (p - n) - 1 /\ es[q].i = f + (q - n) - 1
      BY <1>4, <2>4
    <3>2. f + (p - n) - 1 = f + (q - n) - 1
      BY <1>6, <3>1
    <3> QED BY <1>a, <2>0, <3>2
  <2> QED BY <1>a, <2>0, <2>1, <2>2, <2>3, <2>4
<1>7. \A p \in DOMAIN es : es[p].t \in Int
  <2>1. \A p \in DOMAIN es : es[p] \in StepEntry
    BY <1>1, ElementOfSeq, LenProperties
  <2> QED BY <2>1 DEF StepEntry
<1>8. \A p, q \in DOMAIN es : p < q => ~(es[q].t <= es[p].t)
  BY <1>5, <1>7
<1>9. \A p \in DOMAIN es : p > 1 => es[p - 1].t < es[p].t
  <2> SUFFICES ASSUME NEW p \in DOMAIN es, p > 1 PROVE es[p - 1].t < es[p].t
    OBVIOUS
  <2>1. p - 1 \in DOMAIN es /\ p - 1 < p
    BY <1>a, <1>1
  <2> QED BY <1>5, <2>1
<1>10. f + k - 1 \in Int /\ Seam \in Int
  BY <1>a
<1>11. ~StepsWarn(es)
  BY <1>1, <1>2, <1>6, <1>8, <1>9, <1>10, SoundSteps
<1> QED BY <1>11 DEF es

LEMMA NoOtherRun ==
  ASSUME listed \in Seq(StepEntry), damage.is # "other_run"
  PROVE  Published = listed
<1>1. OtherRun = <<>>
  BY DEF OtherRun
<1> QED BY <1>1, ConcatEmptySeq DEF Published

LEMMA ListedIs ==
  ASSUME ManifestInv, replays >= 0
  PROVE  listed \in Seq(StepEntry) /\ (replays = 0 \/ replays > 0)
<1>1. replays = 0 \/ replays > 0
  <2>1. replays \in Int
    BY ManifestAssumption DEF ManifestInv
  <2> QED BY <2>1
<1>2. damage \in {Sound} \cup Damages
  BY DEF ManifestInv
<1>3. BlockAs(Short, "short", damage) \in Seq(StepEntry)
  BY <1>2, BlocksOf
<1> QED BY <1>1, <1>3 DEF ManifestInv

\* A dropped step is missed once a later one is listed.
LEMMA DroppedTold ==
  ASSUME ManifestInv, replays >= 0, damage.is = "dropped", damage.step \in 1..(LastStep - 1)
  PROVE  StepsWarn(Published) <=> damage.step < (IF replays > 0 THEN LastStep ELSE Seam)
<1> DEFINE d == damage.step
           last == IF replays > 0 THEN LastStep ELSE Seam
<1>a. Seam \in Nat \ {0} /\ LastStep \in Nat /\ Seam < LastStep /\ d \in 1..(LastStep - 1)
  BY ManifestAssumption
<1>b. listed \in Seq(StepEntry) /\ (replays = 0 \/ replays > 0) /\ ~(replays = 0 /\ replays > 0)
  BY ListedIs
<1>c. Published = listed
  BY <1>b, NoOtherRun
<1>d. damage \in {Sound} \cup Damages
  BY DEF ManifestInv
<1>e. replays = 0 => listed = Without(Short, d) /\ StepsIn(listed) = (0..Seam) \ {d}
  <2>1. replays = 0 => listed = BlockAs(Short, "short", damage)
    BY DEF ManifestInv
  <2> QED BY <1>d, <2>1, BlocksOf
<1>f. replays > 0 => StepsIn(listed) = (0..LastStep) \ {d}
  BY DEF ManifestInv
<1>g. StepsIn(listed) = (0..last) \ {d} /\ last \in {Seam, LastStep}
  BY <1>b, <1>e, <1>f
<1>1. ASSUME d < last PROVE StepsWarn(listed)
  <2>0. last \in Nat
    BY <1>a, <1>g
  <2> HIDE DEF last, d
  <2>1. d - 1 \in (0..last) \ {d} /\ d + 1 \in (0..last) \ {d} /\ d - 1 < d + 1 /\ (d - 1) + 1 = d
    BY <1>1, <1>a, <2>0
  <2>2. (d - 1) + 1 \notin StepsIn(listed) /\ d - 1 \in StepsIn(listed) /\ d + 1 \in StepsIn(listed)
    BY <1>g, <2>1
  <2>3. missing_steps(listed)
    BY <2>1, <2>2 DEF missing_steps, StepsIn
  <2> QED BY <2>3 DEF StepsWarn
<1>2. ASSUME ~(d < last) PROVE ~StepsWarn(listed)
  <2>1. replays = 0 /\ ~(d < Seam)
    BY <1>2, <1>a, <1>b
  <2>2. CASE d = Seam
    <3>1. Stitched(listed, Seam - 1, Seam - 1)
      BY <1>e, <2>1, <2>2, ShortIsStitched
    <3>2. Seam - 1 \in Int
      BY <1>a
    <3> QED BY <3>1, <3>2, StitchedPasses
  <2>3. CASE d # Seam
    <3>1. Short \in Seq(StepEntry) /\ Len(Short) = Seam + 1 /\ Short[1].i = 0
      <4>1. 1 \in 1..(Seam + 1) /\ 1 - 1 = 0
        BY <1>a
      <4> QED BY <4>1, BlocksAre
    <3>2. d - 0 + 1 \notin 1..(Seam + 1) /\ d \in Int /\ Seam + 1 > 0
      BY <1>a, <2>1, <2>3
    <3>3. Without(Short, d) = Short
      BY <3>1, <3>2, WithoutIs
    <3>4. Stitched(listed, Seam, Seam)
      BY <1>e, <2>1, <3>3, ShortIsStitched
    <3> QED BY <1>a, <3>4, StitchedPasses
  <2> QED BY <2>2, <2>3
<1> QED BY <1>c, <1>1, <1>2

\* A swap shows as a time that goes back.
LEMMA SwappedTold ==
  ASSUME ManifestInv, replays >= 0, damage.is = "swapped",
         \/ damage.of = "short" /\ damage.at \in 1..Seam
         \/ damage.of = "long" /\ damage.at \in 1..(LastStep - Seam)
  PROVE  StepsWarn(Published) <=> damage.of = "short" \/ replays > 0
<1> DEFINE at == damage.at
           short == BlockAs(Short, "short", damage)
           long == BlockAs(Long, "long", damage)
           m == LastStep - Seam + 1
<1>a. Seam \in Nat \ {0} /\ LastStep \in Nat /\ Seam < LastStep
  BY ManifestAssumption
<1>b. listed \in Seq(StepEntry) /\ (replays = 0 \/ replays > 0)
  BY ListedIs
<1>c. Published = listed
  BY <1>b, NoOtherRun
<1>d. damage \in {Sound} \cup Damages /\ (replays = 0 => listed = short)
      /\ (replays > 0 => BeginsWith(listed, damage))
  BY DEF ManifestInv
<1>e. /\ short \in Seq(StepEntry) /\ long \in Seq(StepEntry) /\ Len(short) = Seam + 1 /\ Len(long) = m
      /\ damage.of = "short" => short = Swapped(Short, at) /\ long = Long
      /\ damage.of = "long" => short = Short /\ long = Swapped(Long, at)
  BY <1>d, BlocksOf
<1>f. /\ short \o long \in Seq(StepEntry)
      /\ \A q \in 1..(Seam + 1) : (short \o long)[q] = short[q]
      /\ \A q \in 1..m : (short \o long)[Seam + 1 + q] = long[q]
  BY <1>e, JoinedEntries
<1> HIDE DEF short, long, m
<1>g. \A q \in 1..(Seam + 1) : q \in DOMAIN listed /\ listed[q] = short[q]
  <2>1. CASE replays = 0
    <3>1. listed = short /\ DOMAIN short = 1..(Seam + 1)
      BY <1>d, <1>e, <2>1, LenProperties
    <3> QED BY <3>1
  <2>2. CASE replays > 0
    <3>1. \A q \in 1..(LastStep + 2) : q \in DOMAIN listed /\ listed[q] = (short \o long)[q]
      BY <1>d, <2>2 DEF BeginsWith, short, long
    <3>2. \A q \in 1..(Seam + 1) : q \in 1..(LastStep + 2)
      BY <1>a
    <3> QED BY <1>f, <3>1, <3>2
  <2> QED BY <1>b, <2>1, <2>2
<1>h. replays > 0 => \A q \in 1..m : /\ Seam + 1 + q \in DOMAIN listed
                                     /\ listed[Seam + 1 + q] = long[q]
  <2> SUFFICES ASSUME replays > 0, NEW q \in 1..m
               PROVE  Seam + 1 + q \in DOMAIN listed /\ listed[Seam + 1 + q] = long[q]
    OBVIOUS
  <2>1. \A r \in 1..(LastStep + 2) : r \in DOMAIN listed /\ listed[r] = (short \o long)[r]
    BY <1>d DEF BeginsWith, short, long
  <2>2. Seam + 1 + q \in 1..(LastStep + 2)
    BY <1>a DEF m
  <2> QED BY <1>f, <2>1, <2>2
<1>s. /\ Short \in Seq(StepEntry) /\ Len(Short) = Seam + 1
      /\ \A p \in 1..(Seam + 1) : Short[p].t = p - 1
      /\ Long \in Seq(StepEntry) /\ Len(Long) = m
      /\ \A p \in 1..m : Long[p].t = Seam + p
  BY BlocksAre DEF m
<1>1. ASSUME damage.of = "short" PROVE StepsWarn(listed)
  <2>1. at \in 1..Seam /\ at \in 1..(Len(Short) - 1) /\ short = Swapped(Short, at)
    BY <1>1, <1>a, <1>e, <1>s
  <2>2. /\ short[at] = Short[at + 1] /\ short[at + 1] = Short[at]
        /\ \A q \in 1..(Seam + 1) : q \notin {at, at + 1} => short[q] = Short[q]
    <3>1. /\ Swapped(Short, at)[at] = Short[at + 1] /\ Swapped(Short, at)[at + 1] = Short[at]
          /\ \A q \in 1..Len(Short) : q \notin {at, at + 1} => Swapped(Short, at)[q] = Short[q]
      BY <1>s, <2>1, SwappedIs
    <3> QED BY <1>s, <2>1, <3>1
  <2> HIDE DEF at
  <2>3. at \in 1..(Seam + 1) /\ at + 1 \in 1..(Seam + 1)
    BY <1>a, <2>1
  <2>4. listed[at].t = at /\ listed[at + 1].t = at - 1
    <3>1. Short[at + 1].t = (at + 1) - 1 /\ Short[at].t = at - 1
      BY <1>s, <2>3
    <3>2. (at + 1) - 1 = at
      BY <2>1
    <3> QED BY <1>g, <2>2, <2>3, <3>1, <3>2
  <2>5. \A q \in 1..(at - 1) : listed[q].t < listed[at + 1].t
    <3> SUFFICES ASSUME NEW q \in 1..(at - 1) PROVE listed[q].t < listed[at + 1].t
      OBVIOUS
    <3>1. q \in 1..(Seam + 1) /\ q \notin {at, at + 1} /\ q - 1 < at - 1
      BY <1>a, <2>1
    <3>2. listed[q].t = q - 1
      BY <1>g, <1>s, <2>2, <3>1
    <3> QED BY <2>4, <3>1, <3>2
  <2>6. listed[at + 1].t < listed[at].t
    BY <2>1, <2>4
  <2>7. at \in DOMAIN listed /\ at + 1 \in DOMAIN listed
    BY <1>g, <2>3
  <2> QED BY <1>b, <2>5, <2>6, <2>7, SwapTold
<1>2. ASSUME damage.of = "long", replays > 0 PROVE StepsWarn(listed)
  <2> DEFINE a == Seam + 1 + at
  <2>1. at \in 1..(LastStep - Seam) /\ at \in 1..(Len(Long) - 1) /\ long = Swapped(Long, at)
        /\ short = Short
    BY <1>2, <1>a, <1>e, <1>s DEF m
  <2>2. /\ long[at] = Long[at + 1] /\ long[at + 1] = Long[at]
        /\ \A q \in 1..m : q \notin {at, at + 1} => long[q] = Long[q]
    BY <1>s, <2>1, SwappedIs
  <2> HIDE DEF at
  <2>3. at \in 1..m /\ at + 1 \in 1..m /\ Seam + 1 + (at + 1) = a + 1
    BY <1>a, <2>1 DEF m
  <2>4. listed[a] = long[at] /\ listed[a + 1] = long[at + 1] /\ a \in DOMAIN listed
        /\ a + 1 \in DOMAIN listed
    BY <1>2, <1>h, <2>3
  <2> HIDE DEF a
  <2>5. listed[a].t = Seam + (at + 1) /\ listed[a + 1].t = Seam + at
    BY <1>s, <2>2, <2>3, <2>4
  <2>6. \A q \in 1..(a - 1) : listed[q].t < listed[a + 1].t
    <3> SUFFICES ASSUME NEW q \in 1..(a - 1) PROVE listed[q].t < listed[a + 1].t
      OBVIOUS
    <3>1. CASE q <= Seam + 1
      <4>1. q \in 1..(Seam + 1) /\ q - 1 < Seam + at
        BY <1>a, <2>1, <3>1 DEF a
      <4>2. listed[q].t = q - 1
        BY <1>g, <1>s, <2>1, <4>1
      <4> QED BY <2>5, <4>1, <4>2
    <3>2. CASE ~(q <= Seam + 1)
      <4> DEFINE r == q - (Seam + 1)
      <4>1. r \in 1..m /\ r < at /\ Seam + 1 + r = q /\ Seam + r < Seam + at
        BY <1>a, <2>1, <3>2 DEF a, m
      <4> HIDE DEF r
      <4>2. r \notin {at, at + 1}
        BY <2>1, <4>1, <1>a
      <4>3. listed[q] = Long[r]
        BY <1>2, <1>h, <2>2, <4>1, <4>2
      <4>4. listed[q].t = Seam + r
        BY <1>s, <4>1, <4>3
      <4> QED BY <2>5, <4>1, <4>4
    <3> QED BY <3>1, <3>2
  <2>7. listed[a + 1].t < listed[a].t
    BY <1>a, <2>1, <2>5
  <2> QED BY <1>b, <2>4, <2>6, <2>7, SwapTold
<1>3. ASSUME damage.of = "long", ~(replays > 0) PROVE ~StepsWarn(listed)
  <2>1. listed = Short
    BY <1>3, <1>b, <1>d, <1>e
  <2>2. Seam \in Int
    BY <1>a
  <2> QED BY <2>1, <2>2, ShortIsStitched, StitchedPasses
<1>4. damage.of = "short" \/ (damage.of = "long" /\ damage.of # "short")
  OBVIOUS
<1> QED BY <1>c, <1>1, <1>2, <1>3, <1>4

\* Another run is told by what it repeats or leaves out.
LEMMA OtherRunTold ==
  ASSUME ManifestInv, replays >= 0, damage.is = "other_run",
         damage.from \in 0..(LastStep - 1), damage.steps \in 2..3,
         damage.from + damage.steps <= LastStep + 1
  PROVE  LET last == IF replays > 0 THEN LastStep ELSE Seam IN
         StepsWarn(Published) <=> damage.from \notin {last, last + 1}
<1> DEFINE f == damage.from
           last == IF replays > 0 THEN LastStep ELSE Seam
           lastTime == IF replays > 0 THEN LastStep + 1 ELSE Seam
<1>a. Seam \in Nat \ {0} /\ LastStep \in Nat /\ Seam < LastStep /\ f \in 0..(LastStep - 1)
      /\ last \in Nat /\ lastTime \in 0..(LastStep + 1)
  BY ManifestAssumption
<1>b. listed \in Seq(StepEntry) /\ (replays = 0 \/ replays > 0)
  BY ListedIs
<1>c. replays = 0 => listed = Short
  <2>1. damage \in {Sound} \cup Damages /\ (replays = 0 => listed = BlockAs(Short, "short", damage))
    BY DEF ManifestInv
  <2> QED BY <2>1, BlocksOf
<1>d. Stitched(listed, last, lastTime)
  <2>1. CASE replays > 0
    <3>1. Stitched(listed, LastStep, LastStep + 1)
      BY <2>1 DEF ManifestInv
    <3> QED BY <2>1, <3>1
  <2>2. CASE ~(replays > 0)
    <3>1. Stitched(listed, Seam, Seam)
      BY <1>b, <1>c, <2>2, ShortIsStitched
    <3> QED BY <2>2, <3>1
  <2> QED BY <2>1, <2>2
<1>1. ASSUME f < last PROVE StepsWarn(Published)
  <2> HIDE DEF last, lastTime
  <2> QED BY <1>1, <1>a, <1>d, RepublishTold DEF Published
<1>2. ASSUME f > last + 1 PROVE StepsWarn(Published)
  <2>1. OtherRun \in Seq(StepEntry) /\ StepsIn(OtherRun) = f..(f + damage.steps - 1)
    BY OtherRunIs
  <2>2. StepsIn(listed) = 0..last
    BY <1>d DEF Stitched
  <2> HIDE DEF last, lastTime
  <2>3. StepsIn(Published) = (0..last) \cup (f..(f + damage.steps - 1))
    BY <1>b, <2>1, <2>2, StepsOfJoined DEF Published
  <2> HIDE DEF f
  <2>4. last \in StepsIn(Published) /\ f \in StepsIn(Published) /\ last + 1 \notin StepsIn(Published)
        /\ last < f
    BY <1>2, <1>a, <2>3
  <2>5. missing_steps(Published)
    BY <2>4 DEF missing_steps, StepsIn
  <2> QED BY <2>5 DEF StepsWarn
<1>3. ASSUME f \in {last, last + 1} PROVE ~StepsWarn(Published)
  <2>1. replays = 0
    <3> SUFFICES ASSUME replays > 0 PROVE FALSE
      BY <1>b
    <3>1. f \in {LastStep, LastStep + 1}
      BY <1>3
    <3> QED BY <1>a, <3>1
  <2>2. f \in {Seam, Seam + 1} /\ listed = Short
    BY <1>3, <1>c, <2>1
  <2> QED BY <2>2, JoinPasses DEF Published
<1>4. f < last \/ f > last + 1 \/ f \in {last, last + 1}
  <2> HIDE DEF f, last
  <2> QED BY <1>a
<1>5. ~(f < last /\ f \in {last, last + 1}) /\ ~(f > last + 1 /\ f \in {last, last + 1})
  <2> HIDE DEF f, last
  <2> QED BY <1>a
<1> QED BY <1>1, <1>2, <1>3, <1>4, <1>5

LEMMA ForecastTold ==
  ASSUME ManifestInv
  PROVE  (StepsWarn(Published) <=> Damaged) /\ (Published = <<>> <=> replays = -1)
<1>a. replays \in Int /\ (replays = -1 \/ replays >= 0)
  BY ManifestAssumption DEF ManifestInv
<1>b. damage \in {Sound} \cup Damages
  BY DEF ManifestInv
<1>1. CASE replays = -1
  <2>1. damage.is = "none" /\ listed = <<>> /\ listed \in Seq(StepEntry)
    BY <1>1 DEF ManifestInv, Sound
  <2>2. Published = <<>>
    BY <2>1, NoOtherRun
  <2>3. ~Damaged
    BY <1>1 DEF Damaged
  <2> QED BY <1>1, <2>2, <2>3, NothingPasses
<1>2. CASE replays >= 0
  <2>1. listed \in Seq(StepEntry) /\ (replays = 0 \/ replays > 0)
    BY <1>2, ListedIs
  <2>2. Published # <<>>
    <3>1. listed # <<>>
      <4>1. CASE replays = 0
        <5>1. listed = BlockAs(Short, "short", damage)
          BY <4>1 DEF ManifestInv
        <5>2. StepsIn(listed) # {}
          <6>1. CASE damage.is \in {"none", "other_run"}
            <7>1. listed = Short
              BY <1>b, <5>1, <6>1, BlocksOf
            <7> QED BY <7>1, StepsOfBlocks, ManifestAssumption
          <6>2. CASE damage.is = "dropped" /\ damage.step \in 1..(LastStep - 1)
            <7>1. StepsIn(listed) = (0..Seam) \ {damage.step}
              BY <1>b, <5>1, <6>2, BlocksOf
            <7>2. 0 \in (0..Seam) \ {damage.step}
              BY <6>2, ManifestAssumption
            <7> QED BY <7>1, <7>2
          <6>3. CASE damage.is = "swapped"
            <7>1. Len(listed) = Seam + 1
              BY <1>b, <5>1, <6>3, BlocksOf
            <7>2. DOMAIN listed = 1..(Seam + 1)
              BY <2>1, <7>1, LenProperties
            <7>3. 1 \in DOMAIN listed
              BY <7>2, ManifestAssumption
            <7> QED BY <7>3 DEF StepsIn
          <6> QED BY <1>b, <6>1, <6>2, <6>3, DamageKinds
        <5> QED BY <5>2 DEF StepsIn
      <4>2. CASE replays > 0
        <5>1. StepsIn(listed) # {}
          <6>1. CASE damage.is \in {"none", "other_run"}
            <7>1. StepsIn(listed) = 0..LastStep
              BY <4>2, <6>1 DEF ManifestInv, Stitched
            <7> QED BY <7>1, ManifestAssumption
          <6>2. CASE damage.is = "dropped" /\ damage.step \in 1..(LastStep - 1)
            <7>1. StepsIn(listed) = (0..LastStep) \ {damage.step}
              BY <4>2, <6>2 DEF ManifestInv
            <7>2. 0 \in (0..LastStep) \ {damage.step}
              BY <6>2, ManifestAssumption
            <7> QED BY <7>1, <7>2
          <6>3. CASE damage.is = "swapped"
            <7>1. BeginsWith(listed, damage) /\ 1 \in 1..(LastStep + 2)
              BY <4>2, <6>3, ManifestAssumption DEF ManifestInv
            <7>2. 1 \in DOMAIN listed
              BY <7>1 DEF BeginsWith
            <7> QED BY <7>2 DEF StepsIn
          <6> QED BY <1>b, <6>1, <6>2, <6>3, DamageKinds
        <5> QED BY <5>1 DEF StepsIn
      <4> QED BY <2>1, <4>1, <4>2
    <3>2. OtherRun \in Seq(StepEntry)
      <4>1. CASE damage.is # "other_run"
        BY <4>1 DEF OtherRun
      <4>2. CASE damage.is = "other_run"
        <5>1. damage.from \in 0..(LastStep - 1) /\ damage.steps \in 2..3
          BY <1>b, <4>2, DamageKinds
        <5> QED BY <4>2, <5>1, OtherRunIs
      <4> QED BY <4>1, <4>2
    <3> QED BY <2>1, <3>1, <3>2, ConcatEqualIffEmpty DEF Published
  <2>3. CASE damage.is = "none"
    <3>1. Published = listed
      BY <2>1, <2>3, NoOtherRun
    <3>2. Stitched(listed, Seam, Seam) \/ Stitched(listed, LastStep, LastStep + 1)
      <4>1. CASE replays = 0
        <5>1. listed = Short
          BY <1>b, <2>3, <4>1, BlocksOf DEF ManifestInv
        <5> QED BY <5>1, ShortIsStitched
      <4>2. CASE replays > 0
        BY <2>3, <4>2 DEF ManifestInv
      <4> QED BY <2>1, <4>1, <4>2
    <3>3. Seam \in Int /\ LastStep \in Int /\ LastStep + 1 \in Int
      BY ManifestAssumption
    <3>4. ~StepsWarn(Published)
      BY <3>1, <3>2, <3>3, StitchedPasses
    <3> QED BY <1>2, <1>a, <2>2, <2>3, <3>4 DEF Damaged
  <2>4. CASE damage.is = "dropped" /\ damage.step \in 1..(LastStep - 1)
    <3>1. StepsWarn(Published) <=> damage.step < (IF replays > 0 THEN LastStep ELSE Seam)
      BY <1>2, <2>4, DroppedTold
    <3> QED BY <1>2, <1>a, <2>2, <2>4, <3>1 DEF Damaged
  <2>5. CASE damage.is = "swapped" /\ \/ damage.of = "short" /\ damage.at \in 1..Seam
                                      \/ damage.of = "long" /\ damage.at \in 1..(LastStep - Seam)
    <3>1. StepsWarn(Published) <=> damage.of = "short" \/ replays > 0
      BY <1>2, <2>5, SwappedTold
    <3> QED BY <1>2, <1>a, <2>2, <2>5, <3>1 DEF Damaged
  <2>6. CASE /\ damage.is = "other_run" /\ damage.from \in 0..(LastStep - 1)
             /\ damage.steps \in 2..3 /\ damage.from + damage.steps <= LastStep + 1
    <3>1. LET last == IF replays > 0 THEN LastStep ELSE Seam IN
          StepsWarn(Published) <=> damage.from \notin {last, last + 1}
      BY <1>2, <2>6, OtherRunTold
    <3> QED BY <1>2, <1>a, <2>2, <2>6, <3>1 DEF Damaged
  <2> QED BY <1>b, <2>3, <2>4, <2>5, <2>6, DamageKinds
<1> QED BY <1>a, <1>1, <1>2

\* Parity tells every damage from every legitimate form, wherever the blocks meet, for
\* forecasts of any length, listed any number of times, beside any observed product.
THEOREM DamageIsTold == ManifestSpec => []ParityTellsDamage
<1>1. ASSUME ManifestInv PROVE ParityTellsDamage
  <2>1. (StepsWarn(Published) <=> Damaged) /\ (Published = <<>> <=> replays = -1)
    BY <1>1, ForecastTold
  <2>2. TimesWarn(entries) <=> ~InOrder
    <3>1. entries \in Seq([name : Times, stated : Times])
      BY <1>1 DEF ManifestInv
    <3> QED BY <3>1, ObservedTold
  <2>3. Published = <<>> => ~Damaged
    BY <2>1, NothingPasses
  <2>4. entries = <<>> => InOrder
    BY DEF InOrder
  <2>5. parity_verdict(Published, entries) =
          IF Damaged \/ ~InOrder THEN "warn"
          ELSE IF Published = <<>> /\ entries = <<>> THEN "skip"
          ELSE "pass"
    BY <2>1, <2>2, <2>3, <2>4 DEF parity_verdict
  <2> QED BY <2>5 DEF ParityTellsDamage, InOrder
<1> QED BY <1>1, ManifestBegins, ManifestInductive, PTL DEF ManifestSpec
=============================================================================

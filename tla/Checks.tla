------------------------------- MODULE Checks -------------------------------
(***************************************************************************)
(* What the checks make of what they observe: for each family of checks,   *)
(* the status, the sub-verdicts and the facts of the row it records, as a  *)
(* function of the observation, of the thresholds in force and, for two of *)
(* them, of what the previous run left in memory.  Ages, and the share of  *)
(* an image that one colour takes, are in units of which the rows keep     *)
(* only every third: they record them rounded.                             *)
(***************************************************************************)
EXTENDS Integers, FiniteSets

NotThere == -1  \* a number that was not observed, or a threshold that is not set

Rank == [skip |-> 0, pass |-> 1, warn |-> 2, fail |-> 3, error |-> 4]

worst_of(S) == IF S = {} THEN "pass" ELSE CHOOSE s \in S : \A t \in S : Rank[s] >= Rank[t]

Worst(sub) == worst_of({sub[k] : k \in DOMAIN sub})

\* round(age, 1), round(frac, 4)
Rounded(a) == 3 * ((a + 1) \div 3)

NoSub == <<>>

\* Some verdicts beside others.
f ++ g == [k \in DOMAIN f \cup DOMAIN g |-> IF k \in DOMAIN f THEN f[k] ELSE g[k]]

Row(status, sub, facts) == [status |-> status, sub |-> sub, facts |-> facts]
Final(sub, facts) == Row(Worst(sub), sub, facts)

Within(good, bad, x, limit) == IF x <= limit THEN good ELSE bad

-----------------------------------------------------------------------------
(* layer1_product: one product of the web tier *)

CadenceVerdict(med, lim) ==
  IF lim.cadence_s = NotThere THEN "pass"
  ELSE IF 10 * (med - lim.cadence_s) \in -lim.cadence_s..lim.cadence_s THEN "pass" ELSE "warn"

StepVerdict(n, lim) ==
  IF lim.expected_steps = NotThere THEN "skip"
  ELSE IF n - lim.expected_steps \in -lim.step_count_tol..lim.step_count_tol THEN "pass" ELSE "warn"

L1Manifest(o, lim) ==
  [A_api_up |-> "pass", B_nonempty |-> "pass", B_schema |-> "pass",
   C_freshness |-> Within("pass", "fail", o.age, lim.max_freshness_s),
   D_cadence |-> IF o.med = NotThere THEN "pass" ELSE CadenceVerdict(o.med, lim),
   E_step_count |-> StepVerdict(o.n, lim)]

L1Image(o, lim) ==
  CASE o.got = "image_error" -> [F_image_exists |-> "fail"]
    [] o.got = "image_http"  -> [F_image_exists |-> "fail", G_image_size |-> "fail",
                                 H_image_hash |-> "fail", parity |-> o.parity]
    [] OTHER -> [F_image_exists |-> "pass",
                 G_image_size |-> IF o.bytes >= lim.min_png_bytes THEN "pass" ELSE "warn",
                 H_image_hash |-> "pass", parity |-> o.parity]

\* A manifest or an image that cannot be waited for is an error, and says nothing
\* of the product.  (Rows of an older version of the check record a timeout of
\* the image as its failure.)
JudgeL1(o, lim) ==
  LET facts == [n |-> o.n, last |-> o.age + o.took,
                med |-> IF lim.cadence_s = NotThere THEN NotThere ELSE o.med,
                bytes |-> IF o.got = "image" THEN o.bytes ELSE NotThere,
                old_timeout |-> FALSE]
      none  == [facts EXCEPT !.last = NotThere, !.med = NotThere, !.bytes = NotThere] IN
  CASE o.got \in {"no_answer", "image_timeout"} -> Row("error", NoSub, none)
    [] o.got = "http"      -> Final([A_api_up |-> "fail"], none)
    [] o.got = "empty"     -> Final([A_api_up |-> "pass", B_nonempty |-> "fail"], none)
    [] o.got = "malformed" -> Final([A_api_up |-> "pass", B_schema |-> "fail"], none)
    [] o.got = "old_timeout" -> Final(L1Manifest(o, lim) ++ [F_image_exists |-> "fail"],
                                      [facts EXCEPT !.old_timeout = TRUE])
    [] OTHER -> Final(L1Manifest(o, lim) ++ L1Image(o, lim), facts)

-----------------------------------------------------------------------------
(* layer2_radar: what is declared of a radar against what it publishes *)

Upper(lim) == lim.silent_fail_s + lim.hysteresis
Lower(lim) == lim.silent_fail_s - lim.hysteresis

\* Within the band the previous run decides.
Fresh(o, lim, was) ==
  /\ o.n # NotThere /\ o.n > 0
  /\ o.age # NotThere => o.age <= (IF was THEN Upper(lim) ELSE Lower(lim))

RadarVerdict(o, fresh) ==
  IF o.n = NotThere THEN "OBSERVED_API_ERROR"
  ELSE CASE o.declared = "UP"   -> IF fresh THEN "HEALTHY" ELSE "GHOST_UP"
         [] o.declared = "DOWN" -> IF fresh THEN "STUCK_DOWN_FLAG" ELSE "CONFIRMED_DOWN"
         [] OTHER               -> "OBSERVED_API_ERROR"

_VERDICT_STATUS ==
  [HEALTHY |-> "pass", CONFIRMED_DOWN |-> "fail", GHOST_UP |-> "fail",
   STUCK_DOWN_FLAG |-> "warn", OBSERVED_API_ERROR |-> "error"]

JudgeL2(o, lim, was) ==
  IF o.declared = "unavailable"
  THEN Row("error", NoSub, [verdict |-> "none", n |-> NotThere, last |-> NotThere])
  ELSE LET v == RadarVerdict(o, Fresh(o, lim, was)) IN
       Row(_VERDICT_STATUS[v], NoSub,
           [verdict |-> v, n |-> o.n,
            last |-> IF o.age = NotThere THEN NotThere ELSE o.age + o.took])

-----------------------------------------------------------------------------
(* layer1_backend_product, layer2_backend_radar: the age of a file *)

\* The limits that are set, and others for those that are not.
Over(lim, otherwise) ==
  [k \in DOMAIN otherwise |-> IF lim[k] = NotThere THEN otherwise[k] ELSE lim[k]]

\* An age is recorded with the limits it was held to.
NoAge == [age |-> NotThere]
KeptAge(age, lim) == [age |-> Rounded(age), limits |-> lim]

JudgeLB1(o, lim) ==
  CASE o.got = "unreadable" -> Row("error", NoSub, NoAge)
    [] o.got = "absent"     -> Row("fail", NoSub, NoAge)
    [] o.got = "nothing"    -> Final([A_present |-> "fail"], NoAge)
    [] OTHER -> Final([A_present |-> "pass",
                       B_freshness |-> Within("pass", "fail", o.age, lim.backend_max_age_s)],
                      KeptAge(o.age, lim))

\* Passes up to four fifths of the limit, warns up to the limit.
Arriving(age, lim) ==
  IF 5 * age <= 4 * lim.backend_silent_s THEN "pass"
  ELSE Within("warn", "fail", age, lim.backend_silent_s)

JudgeLB2(o, lim) ==
  CASE o.got = "unreadable" -> Row("error", NoSub, NoAge)
    [] o.got \in {"absent", "nothing"} -> Final([A_arriving |-> "fail"], NoAge)
    [] OTHER -> Final([A_arriving |-> Arriving(o.age, lim)], KeptAge(o.age, lim))

-----------------------------------------------------------------------------
(* layer3_backend_processing: in the composite, in its staging, in the DROPS tree *)

Contribution(age, lim) ==
  IF age <= lim.contrib_warn_s THEN "pass" ELSE Within("warn", "fail", age, lim.contrib_fail_s)

\* What is judged of a radar that is in the run: the receipt's ages are not
\* assessed, one may be missing from the log, and a radar whose arrival is not
\* monitored has no band to be held to.
Included(o, lim) ==
  IF o.got = "run_log" THEN [A_included |-> "pass", B_fresh |-> Contribution(o.age, lim)]
  ELSE [A_included |-> "pass"]

\* Neither log nor receipt, not in the run, or named and not read.
JudgeComposite(o, lim) ==
  CASE o.got = "unreadable" -> Row("error", NoSub, NoAge)
    [] o.got \in {"absent", "nothing", "not_read"} -> Final([A_included |-> "fail"], NoAge)
    [] OTHER -> Final(Included(o, lim),
                      IF o.got \in {"run_log", "unbanded"} THEN KeptAge(o.age, lim) ELSE NoAge)

\* What is older than the tree keeps anything is not a live tree; without a limit
\* the age is recorded and not judged.
Staged(age, lim, retention_s) ==
  IF age > retention_s THEN Row("error", NoSub, NoAge)
  ELSE Final([A_staged |-> "pass"] ++
               (IF lim.input_warn_s = NotThere THEN NoSub
                ELSE [B_fresh |-> Within("pass", "warn", age, lim.input_warn_s)]),
             KeptAge(age, lim))

\* No such directory, or files none of which the pattern matches: no verdict of
\* the radar.
JudgeInput(o, lim, retention_s) ==
  CASE o.got \in {"unreadable", "absent", "unmatched"} -> Row("error", NoSub, NoAge)
    [] o.got = "nothing" -> Final([A_staged |-> "fail"], NoAge)
    [] OTHER -> Staged(o.age, lim, retention_s)

\* Never more than a warning; a folder that cannot be read has no age.
JudgeDrops(o, lim) ==
  IF o.got = "unreadable" THEN Row("error", NoSub, NoAge)
  ELSE Final([folder |-> IF o.got # "file" THEN "warn"
                         ELSE Within("pass", "warn", o.age, lim.drops_s)],
             IF o.got # "file" THEN NoAge ELSE KeptAge(o.age, lim))

-----------------------------------------------------------------------------
(* layer4_image: saturated, or frozen *)

OK_VERDICTS ==
  {"OK", "N/A", "EMPTY", "TOO_SPARSE", "QUIET_LOW_COV", "QUIET_SLOW", "OK_LOW_COV",
   "OK_SAME_FRAME"}

L4Status(verdicts) == worst_of({IF v \in OK_VERDICTS THEN "pass" ELSE "warn" : v \in verdicts})

Extreme(o, lim) ==
  CASE o.fraction = 0 -> "EMPTY"
    [] o.fraction > lim.extreme_threshold ->
         IF o.coverage < lim.frozen_min_cov THEN "OK_LOW_COV" ELSE "SATURATED"
    [] OTHER -> "OK"

\* Compared with the frame of the previous run, unless it is the same frame.
Frozen(o, lim, prev) ==
  IF prev.source # "none" /\ o.source = prev.source THEN "OK_SAME_FRAME"
  ELSE IF prev.phash = "none" \/ prev.phash # o.phash THEN "OK"
  ELSE IF lim.skip_frozen THEN "QUIET_SLOW"
  ELSE IF o.coverage < lim.frozen_min_cov THEN "QUIET_LOW_COV"
  ELSE "FROZEN"

\* The fraction is judged as it was measured, and recorded rounded.
Pictured(o) == [o EXCEPT !.fraction = Rounded(@)]

JudgeL4(o, lim, prev) ==
  IF o.got = "no_image" THEN Row("skip", NoSub, o)
  ELSE Row(L4Status({Extreme(o, lim), o.speckle, Frozen(o, lim, prev)}), NoSub, Pictured(o))
=============================================================================

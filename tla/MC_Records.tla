----------------------------- MODULE MC_Records -----------------------------
(***************************************************************************)
(* From what a check observes to what is kept and told of it: the look at  *)
(* the trees of files, the latch of the fleets, the reprocessing of        *)
(* recorded rows, the parity of a manifest, the reading of a receipt; the  *)
(* rows that age out of the database, the images of the archive, the       *)
(* frames the proxy serves and keeps; the daily report and the task that   *)
(* mails it.  They share no state here, so a behaviour exercises one of    *)
(* them, chosen at the start.                                              *)
(***************************************************************************)
EXTENDS Arrival, Fleet, Reprocess, Manifest, Receipt, Retention, Archive, Proxy, Digest, Report

CONSTANTS
  r1, r2, h1, h2,
  Focus  \* the components a behaviour may exercise

\* What the checks may observe: on either side of each limit, and near it.
Product == [got : {"image"}, age : {3, 4}, took : {0, 1}, med : {10}, n : {1}, bytes : {2},
            parity : {"pass"}]
             \cup [got : {"image"}, age : {3}, took : {0}, med : {10, 12}, n : {1, 2}, bytes : {1, 2},
                   parity : {"warn"}]
NoProduct(got) == [got |-> got, age |-> 3, took |-> 0, med |-> 10, n |-> 1, bytes |-> 2,
                   parity |-> "pass"]
Dated(S, ages) == [got : S, age : ages]
Picture(fractions, coverages, hashes, sources) ==
  [got : {"image"}, fraction : fractions, coverage : coverages, phash : hashes, source : sources,
   speckle : {"OK"}]

Observed ==
  [L1 |-> Product
            \cup {NoProduct(g) : g \in {"no_answer", "http", "empty", "malformed", "image_timeout",
                                        "image_http", "image_error", "old_timeout"}},
   L2 |-> [declared : {"UP"}, n : {1}, age : {3, 6, 8}, took : {0}]
            \cup [declared : {"UP"}, n : {1}, age : {6}, took : {1}]
            \cup [declared : {"DOWN"}, n : {1}, age : {3}, took : {0}]
            \cup [declared : {"UP"}, n : {0}, age : {NotThere}, took : {0}]
            \cup [declared : {"UP", "unavailable"}, n : {NotThere}, age : {NotThere}, took : {0}],
   LB1 |-> Dated({"file"}, 2..8) \cup Dated({"unreadable", "absent", "nothing"}, {0}),
   LB2 |-> Dated({"file"}, 2..8) \cup Dated({"unreadable", "absent", "nothing"}, {0}),
   composite |-> Dated({"run_log"}, 2..8) \cup Dated({"unbanded"}, {2, 8})
                  \cup Dated({"unreadable", "absent", "nothing", "not_read", "receipt", "undated"}, {0}),
   input |-> Dated({"file"}, 2..9)
              \cup Dated({"unreadable", "absent", "unmatched", "nothing"}, {0}),
   drops |-> Dated({"file"}, 2..8) \cup Dated({"unreadable", "nothing"}, {0}),
   L4 |-> Picture({0}, {6}, {"p1"}, {"s1", "s2"}) \cup Picture({0}, {6}, {"p2"}, {"s2"})
            \cup Picture({2}, {6}, {"p1"}, {"s2"}) \cup Picture({4}, {1}, {"p1"}, {"s1"})
            \cup [got : {"no_image"}]]

\* Only where a run leaves something to the next does a second row matter.
RowsOf == [c \in DOMAIN Observed |-> IF c \in {"L2", "L4"} THEN 2 ELSE 1]

Two(l, m) == {l, m}
Bands == [contrib_warn_s |-> 5, contrib_fail_s |-> 8]

Thresholds ==
  [L1 |-> Two([max_freshness_s |-> 3, cadence_s |-> 10, expected_steps |-> 1, step_count_tol |-> 0,
               min_png_bytes |-> 2],
              [max_freshness_s |-> 5, cadence_s |-> NotThere, expected_steps |-> NotThere,
               step_count_tol |-> 0, min_png_bytes |-> 1]),
   L2 |-> Two([silent_fail_s |-> 5, hysteresis |-> 2], [silent_fail_s |-> 8, hysteresis |-> 1]),
   LB1 |-> Two([backend_max_age_s |-> 4, standard |-> [backend_max_age_s |-> 7]],
               [backend_max_age_s |-> NotThere, standard |-> [backend_max_age_s |-> 7]]),
   LB2 |-> Two([backend_silent_s |-> 5, standard |-> [backend_silent_s |-> 7]],
               [backend_silent_s |-> NotThere, standard |-> [backend_silent_s |-> 7]]),
   composite |-> Two([contrib_warn_s |-> 4, contrib_fail_s |-> NotThere, standard |-> Bands],
                     [contrib_warn_s |-> NotThere, contrib_fail_s |-> 6, standard |-> Bands]),
   input |-> Two([input_warn_s |-> 4, retention_s |-> 8, standard |-> [input_warn_s |-> NotThere]],
                 [input_warn_s |-> NotThere, retention_s |-> 8,
                  standard |-> [input_warn_s |-> NotThere]]),
   drops |-> Two([drops_s |-> 4, standard |-> [drops_s |-> 7]],
                 [drops_s |-> NotThere, standard |-> [drops_s |-> 7]]),
   L4 |-> Two([extreme_threshold |-> 2, skip_frozen |-> FALSE, frozen_min_cov |-> 5],
              [extreme_threshold |-> 3, skip_frozen |-> TRUE, frozen_min_cov |-> 5])]

\* What the two tiers of a subject may record in a timestep.
TwoTiers ==
  [frontend : {"pass", "warn", "fail", "none"}, backend : {"pass", "error"}]
    \cup [frontend : {"pass", "error"}, backend : {"fail"}]
    \cup {[frontend |-> "error", backend |-> "error"]}

\* Where logs answer, the receipt is read in their place only: there one rewrite is
\* enough, and two are kept for where it is all there is.

Symmetry == Permutations({r1, r2}) \cup Permutations({h1, h2})

VARIABLE focus

checkVars == <<arrivalVars, fleetVars, reVars, manifestVars, receiptVars>>
keepVars == <<retentionVars, archiveVars, proxyVars>>
tellVars == <<digestVars, reportVars>>
vars == <<checkVars, keepVars, tellVars, focus>>

Init ==
  /\ focus \in Focus
  /\ ArrivalInit /\ FleetInit /\ ReprocessInit /\ ManifestInit /\ ReceiptInit
  /\ RetentionInit /\ ArchiveInit /\ ProxyInit /\ DigestInit /\ ReportInit
  /\ focus # "arrival" => layout = "flat"
  /\ focus # "fleet" => family = "xband" /\ \A c \in DOMAIN due : due[c] = 0
  /\ focus # "rows" => check = "L1" /\ lim.max_freshness_s = 3
  /\ focus # "receipt" => logs.count = 0
  /\ focus # "frames" => loop = "tilt"
  /\ focus # "mail" => setting = [enabled |-> FALSE, hour |-> 0, tz |-> 0]
  /\ focus # "report" => \A t \in Tier : before[t] = Silent

Checking ==
  \/ focus = "arrival" /\ ArrivalNext
       /\ UNCHANGED <<fleetVars, reVars, manifestVars, receiptVars>>
  \/ focus = "fleet" /\ FleetNext
       /\ UNCHANGED <<arrivalVars, reVars, manifestVars, receiptVars>>
  \/ focus = "rows" /\ ReprocessNext /\ (stopped' = stopped \/ Len(rows) = 1)
       /\ UNCHANGED <<arrivalVars, fleetVars, manifestVars, receiptVars>>
  \/ focus = "manifest" /\ ManifestNext
       /\ UNCHANGED <<arrivalVars, fleetVars, reVars, receiptVars>>
  \/ focus = "receipt" /\ ReceiptNext /\ (logs.count = 0 \/ file'.writes <= 1)
       /\ UNCHANGED <<arrivalVars, fleetVars, reVars, manifestVars>>

Keeping ==
  \/ focus = "offload" /\ RetentionNext /\ UNCHANGED <<archiveVars, proxyVars>>
  \/ focus = "images" /\ ArchiveNext /\ UNCHANGED <<retentionVars, proxyVars>>
  \/ focus = "frames" /\ ProxyNext /\ UNCHANGED <<retentionVars, archiveVars>>

Telling ==
  \/ focus = "mail" /\ DigestNext /\ UNCHANGED reportVars
  \/ focus = "report" /\ ReportNext /\ UNCHANGED digestVars

Next ==
  /\ focus' = focus
  /\ \/ Checking /\ UNCHANGED <<keepVars, tellVars>>
     \/ Keeping /\ UNCHANGED <<checkVars, tellVars>>
     \/ Telling /\ UNCHANGED <<checkVars, keepVars>>

Spec == Init /\ [][Next]_vars
=============================================================================

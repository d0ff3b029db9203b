# AQPI Sentinel: a verification of its monitoring core

Sentinel watches a radar and product pipeline. Some forty *checks* run
periodically; the *scheduler* decides which of their failures to believe; the
*alarm engine* turns lasting failures into alarms, decides who is told and
when, and keeps quiet about what is silenced, acknowledged or the consequence
of something else. Around this core, people are reached by mails with links,
by web push and on dashboards; what was observed is judged, judged again,
archived, swept to cold storage and reported daily. This directory holds TLA+
models of all of that, the TLC configurations that check them, and theorems
about them with proofs checked by TLAPS. `PROJECT.json` maps every definition
to the lines it models.

Paths below are relative to the repository root; `engine.py`, `router.py`,
`suppression.py`, `silences.py` and `tiers.py` are in `backend/alarms/`,
`store.py` is `backend/db/store.py`, the `layer*.py` are in `backend/checks/`,
and `ack.py`, `upstream.py` and `admin.py` in `backend/api/routes/`; other bare
names are in `backend/`.

## 1. The system

### Parts, their state and their operations

| part | code | state | operations |
|---|---|---|---|
| Scheduler | `scheduler.py` | `_latest_status`, `_running`, one task per check | `start`, `_loop`: gate, run, demote, publish, persist, evaluate, sleep |
| Network monitor | `backend/checks/network.py` | `online`, `_consecutive_fail`, DNS state | `_probe_once` every 15 s |
| Alarm engine, evaluation | `engine.py` `evaluate` | none of its own | close, hold down, suppress, open, emit |
| Alarm engine, ticker | `engine.py` `_tick`, `_process`, `_dispatch` | `_last_autoclose` | sweep, suppression, silence, severity, ack, tier, steps |
| Store | `store.py`, `backend/db/schema.sql` | `check_runs`, `alarms`, `alarm_acks`, `notification_log`, `silences`, `ack_tokens` | one SQL statement each |
| Alarm API | `backend/api/routes/alarms.py`, `silences.py`, `ack.py` | the same tables | ack, unack, silence, ack by mailed link |
| Routing configuration | `backend/alarms/models.py`, `admin.py` | `engine.cfg`, `router`, `sinks` | load, validate, hot swap |
| Web push | `push.py`, `backend/api/routes/push.py` | `push_subscriptions`, sleeping tasks | subscribe, route, immediate and delayed sends |
| Dashboards | `backend/api/ws.py`, `backend/api/app.py` | `_conns`, `_last_broadcast_status` | announce a change of status, connect, drop |
| The checks | `backend/checks/` | the last fresh verdict, the last frame, receipts, the fleet latch | `run`: look, judge, publish |
| Thresholds, reprocessing | `thresholds.py`, `reprocess_engine.py` | `_cache`, the job, the rows | save, judge history again, cancel |
| Retention | `retention.py` | cold files, `_last_run_date` | count, export, delete; prune the archive |
| Image archive, prewarm, upstream proxy | `backend/archive/`, `prewarm.py`, `upstream.py` | blobs, `image_archive`, `image_index`, LRU and lists | save, look up, serve, fetch once |
| Daily report | `digest.py`, `backend/api/routes/digest.py` | `settings`: schedule and last date | claim the date, compute, send; save the schedule |
| Accounts, dashboards' queries, frontend, scripts | `backend/auth/`, `backend/api/`, `frontend/`, `ops/`, `scripts/` | | |

### How they interact

All of the backend is one asyncio process on one PostgreSQL database. A task
loses control only at an `await`, and every statement to the database is one.
For each check the scheduler's task runs it, demotes the result, updates its
cache, writes the row (`store.write_check_run`) and calls
`engine.evaluate(result)`, in that order and in that task. The ticker is
another task; the API handlers, the listeners of the engine, the sweeps and the
daily report are others still. They share nothing but the tables and the disk,
so the interleavings that matter are those of single statements and of file
operations run in threads. Outside the process are the producers who write the
trees the checks look at, the origins the proxy fetches from, the devices and
the browsers.

### What makes it hard

* `evaluate` asks whether an alarm is open and inserts one several awaits later;
  no constraint of the table forbids two open rows for a check.
* A tick works on a snapshot (open rows, silences, tiers, latest verdicts)
  while evaluations, acks and closings go on.
* A demotion to "skip" means that nothing was judged; taken for health it closes
  alarms, taken for failure it opens them.
* Attributions, acks and severities describe the moment they were made and are
  used much later.
* Any statement may fail: each place where that is caught degrades differently.
* The process restarts anywhere. The tables survive; tasks, caches, the memory
  of the checks and the sweep's time stamp do not.
* Downstream failures are judged against a cache that upstream runs in flight
  have yet to correct; waiting for them must not stop anything for good.
* Links, pushes and reports are claimed or scheduled first and sent later;
  what they are about changes meanwhile.
* Producers rewrite receipts and trees in place while they are read, roll their
  windows while a position in them is being resolved, and turn the day.
* The verdict of a fleet is consulted once, a hold-down after the radars went
  red, and is made of verdicts that grow old in between.
* A row is judged live from more than it records, and again from what it records,
  by jobs that nothing keeps apart.

### What makes it correct

* **Alarms.** At most one open alarm per check; opened only after the
  hold-down; closed only on recovery; severity never falls; a new alarm inherits
  nothing; while a failure lasts, there is an alarm for it in the end and for good.
* **Notification.** Steps in order, none twice; nothing under an ack that still
  covers the condition, nothing while the cause is upstream; nothing silent for
  ever because of an ack or an attribution that no longer holds.
* **Reaching people.** A mailed link acks once, for whom it was mailed to; an
  opening is on a phone once, and not when it is over, acked or silenced; a
  dashboard that is connected shows what was announced.
* **Scheduling.** A red cell is not collateral of a known upstream failure; the
  cache agrees with the table; every check keeps being run; cells settle once
  the world does.
* **Observation.** No age is younger than the truth or overlooks what was there;
  no radar is absent because its line was not written yet; parity warns of
  damage and only of damage; an event of the fleet outlasts the hold-down.
* **Records.** A row judged again under its own thresholds gets its first status;
  stoppages stay, and where a first verdict is noted the note stays true; rows leave
  the database only for a file; a frame that recurs stays; the figures of a report
  agree; one report a day, and one each day.

`PROJECT.json` lists, under "hazards", where in the code each of these could
fail, with the properties that watch it. Known and watched by nothing: a crash
between the insert of an alarm and `alarm_open` (nobody on a listener hears of
it, the ticker still pages); between a send and its row in `notification_log`
(sent again); a tick that pages for a row which closed since the tick listed it;
a failure recorded after the sweep selected the row it closes; a step with
nobody on duty, which leaves no row and stays due; an ack that records the
status of an inconclusive run.

## 2. The modules

```
 Dependencies <- AlarmStore <- AlarmEvaluate <- AlarmTicker <- AlarmEngine <- MC_AlarmEngine
      ^                                                          ^   |
      |                              AlarmLifecycle <------------|---+  (refinement)
      |                                    ^                     |
 Scheduler <- MC_Scheduler                 | (environment)   AlarmEngine_proofs
      ^                                    |                    <- AlarmSafety_proofs
 Scheduler_proofs                      AlarmFeed                <- AlarmSuppression_proofs
                                        ^     ^                    <- AlarmRefinement_proofs
                                   AckLink   WebPush   Broadcast      <- MC_Contact
                                        ^     ^            ^
                                        Contact_proofs

 Checks <- Reprocess  Arrival  Fleet  Receipt  Digest  Manifest  Report  }
     ^       ^          ^       ^       ^       ^       ^         ^      }
     Records_proofs                                                      } <- MC_Records
                                                                         }
 Retention  Archive  Proxy                                               }
     ^         ^       ^
     Keeping_proofs
```

(`A <- B`: B extends A.)

### The alarm engine

**Dependencies**: the `depends_on` graph and the two walks over it.
`TransitiveDeps` is `Scheduler._compute_transitive`; `NearestAncestors` is the
breadth-first search of `suppression.compute_suppression` and of
`_find_unhealthy_ancestor`. Both return the first unhealthy ancestor in the
order of declaration; the model allows any of the nearest ones.

**AlarmStore**: the four tables the engine lives on and the statements on them,
with the names they have in `store.py`. A check stands for its (check, target)
pair. A run history is kept as the four answers the engine asks of it: the
latest verdict, the start of the non-pass streak, the ages of the last clean
and of the last other run. Verdicts are `ok` (pass or intrinsic skip), `held`
(inconclusive skip), `warn` and `fail` (fail or error). Times are *ages*,
counted up to `MaxAge`.

**AlarmEvaluate**: `AlarmEngine.evaluate`, one action per await. `eval[c]`
is where the evaluation of check `c` stands. One is enough: only the task of the
check calls it, and awaits it. Its first action is the scheduler's
`write_check_run`, which may fail (`ResultNotPersisted`) without stopping the
evaluation.

**AlarmTicker**: `_tick` and all it calls. `tick` holds the stage and what
was read: the rows to process (`todo`), the sweep's selection (`stale`), silences,
tiers and the snapshot (`latest`); then the row, the step and the receivers left
of the step in hand. `sent` is a history variable: messages that left, per
alarm, step and receiver. The text of a message, the addresses it goes to, route
conditions and schedules are abstracted to: is the alarm routed (`Routed`), and
is a receiver served, skipped (only those in `Scheduled`) or failed.

**AlarmEngine**: both tasks together with the people at the API (`UserAck`,
`UserUnack`, `ToggleSilence`, `ToggleTier`), exceptions at any await, a restart
anywhere, and time. Its properties are at the end of the module. Row identities
are reused once nobody holds the former row, so that two of them serve any
number of successive alarms. `fresh` and `blamed` are history variables: alarms
acked since the tick began; alarms whose upstream cause has not been over since
they opened.

**AlarmLifecycle**: what the engine promises of each check, in five actions:
open (unacked, below critical), close, worsen (not while an upstream is blamed),
ack or un-ack, re-attribute. `AlarmEngine` maps its tables to this state with
`Standing`, and `ImplementsLifecycle` says that every step of the engine is one
of these steps or none.

### The scheduler

**Scheduler**: `_loop` per check with the gate and its 10 s cap
(`StartCapped`), the three demotions (`Verdict_of`), publication and release of
the slot in one step (there is no await between them), persistence that may
fail; the NetworkMonitor's probe; and the world: which targets are broken, and
whether the uplink works. A run observes the world at one moment (`Observe`).
The topological stagger is modelled weaker than it is: a task starts once those
upstream of it have started.

### Reaching people

**AlarmFeed**: the alarms as everything outside the engine meets them. Its
steps are those of `AlarmLifecycle`, so what is checked against it is checked
against everything the engine is shown to do, without the engine's own states
(`FeedShowsEveryLifecycle`).
`opening` numbers the alarms a check has one after another.

**AckLink**: `ensure_ack_token` in its two statements for the mail in
preparation (`mail`), the page of a link and its button (`tap`, one request
each), `consume_ack_token` and the ack that follows it, expiry, and whatever is
raised in between (`MaxLost`). Each token counts the acks written through it.

**WebPush**: the listener `_web_push` (`announce`: opened, silences read,
subscriptions read, sent one by one), delayed tasks (`deferred`: asleep, due,
subscription seen, still actionable, send), the devices with their rows and
routings, silences, restarts. `pushed`, `muted` and `moot` are history
variables. Quiet hours, groups and product patterns are one bit of a routing:
does it match.

**Broadcast**: the gate `_maybe_broadcast` and the manager of `ws.py`: tasks in
the order they were created, one outbox per client, in order; a failed or slow
send closes the client.

### Observation and judgement

**Arrival**: the three ways of looking for the newest volume, against a producer
who begins, completes and abandons files, makes directories early, and turns the
day. A look is a sequence of places (`look.left`) that are listed one at a time
while the producer goes on. The check of `layer2_backend_radar.py` tries
today, then yesterday; `_drops_newest` the folder, two days, and then descends
by numeric name; the staging check one folder.

**Checks**: the judgement of each family of checks as an operator from what is
observed, the thresholds and what the previous run left in memory, to the row.
Data is abstracted to either side of each threshold, and to ages, and shares of an
image in one colour, of which the row keeps every third value: it records them
rounded and they are judged before that (the coverage of an image is judged as it is
recorded). A limit that is not set is `NotThere`: the live checks then hold to the
one of the configuration (`InEffect`).

**Fleet**: the two families of radar checks with what they publish, both fleet
checks with their latch (`FLEET_SYSTEMIC_ENTER`, `_EXIT`, `FLEET_MIN_DWELL`,
the lifetimes of verdicts), and what the alarm engine makes of a red radar: an
alarm a hold-down later. `named` is a history variable: the radar was in the
systemic reading of its red spell.

**Manifest**: a forecast published as two blocks that overlap in one step, with
a step dropped, swapped or told twice; `listed` is the short block and then the
long one, once for every time it was listed, and steps of another run may
follow. An observed product is a sequence of times. `ParityTellsDamage`
compares the verdict of `layer1_product.py` with the damage done.

**Receipt**: `_participation`: the second-newest run log, or the receipt, with
the settling window, the second look after reading, one retry, and the cache
that all readers share, against a script that truncates and writes line by line.

**Reprocess**: `run_reprocess` and the re-judgement of every stage over rows that
live runs recorded, with thresholds saved during the walk, cancelling, failing and
restarts. Several jobs may walk at once, as `start_reprocess` allows: each decides
on the rows as it read them at its start (`read`), compares images with a trail that
begins empty (`frame`), and writes what it changed over whatever is there by then.
Where a limit is not set, the one recorded with the row stays (`Now`). `live`,
`obs`, `under` and `known` of a row are history: what the live run decided, saw, was
judged by and remembered; `mixed` of a job, that the thresholds changed or another
job wrote while it walked. `Measured` and `Adjustable` give the types of what a
check may measure and of its thresholds.

Where the code asks one question after another (`if ... elif ...`) and the
conditions overlap, these models say IF ... ELSE IF: of overlapping arms of a
CASE, TLA+ may take any, though TLC takes the first.

### Keeping

**Retention**: `offload_check_runs` and `offload_metric_samples`: count, span, export
under a name made of the span, verification, delete in chunks; failures and
restarts between any two. **Archive**: `save_image` against `prune_archive`:
the file first, then the rows; the unlinking first, then the rows; the row locks
and the foreign key decide between the transactions.

**Proxy**: `_serve_source` with the memory, the archive, the shared fetch in
`_INFLIGHT` and its shield, viewers who leave; above it the tilts, resolved by a
list kept for a while against a window that rolls, and the products and scans
with a name of their own and a list that is served while it is refreshed. The
prewarmer is one more viewer.

### Telling

**Digest**: the task and the page that saves its schedule: the hour in a zone,
the claim as a conditional upsert, the release flag, `reload`, failures and
restarts. **Report**: what `compute` says of one subject over a window of
timesteps, from two tiers: counts, outages and blips, the slices of the day, the
combined source, how far back a chronic subject goes. Episodes are the groups
of the SQL: rows of one status for which the difference of two row numbers is
the same.

### Instances

**MC_AlarmEngine**, **MC_Scheduler**: values for the constants. **MC_Contact**,
**MC_Records**: components that share nothing but the alarms, or nothing at all;
`focus`, chosen at the start, says which of them a behaviour exercises, so the
states of a run are the sum of theirs.

Definitions under a comment that says "Mutant" are broken variants of a nearby
definition. They show that each property can fail: `PROJECT.json` pairs every
property with one.

## 3. What TLC checks

| run | question | bounds | states |
|---|---|---|---|
| engine_lifecycle | `TypeOK`, `OneOpenAlarm`, `HeldDown`, `ClosedOnRecovery`, `SeverityRatchet`, `ImplementsLifecycle` | 1 check, 2 rows, every verdict, hold-down 2, ages to 2, 1 fault | 1.1 M |
| engine_acks | `NoPageUnderStandingAck`, `OutgrownAckLapses` | 1 row, acking, ok/fail, promotion at age 1, 1 fault | 276 k |
| engine_suppression | `SilentWhileBlamed`, `SuppressionClears` | 2 checks, one depending on the other, an off-duty receiver | 253 k |
| engine_liveness | `NoDuplicatePage`, `StepsInOrder`, `FailureOpensAlarm`, `FirstStepGoesOut` | 2 steps a unit apart, 2 receivers of whom one has a schedule, failing sends, silences, tiers, hold-down 1 | 665 k |
| scheduler | `TypeOK`, `SlotsAreRuns`, `RedIsNotCollateral` | chain of 3, failing uplink, 2 grace rounds | 463 k |
| scheduler_liveness | `CacheMatchesStore`, `EveryCheckKeepsRunning`, `CascadeSettles`, `RecoverySettles` | chain of 2, the upstream may break and hang, 1 fault | 141 k |
| contact | `LinkAcksOnce`, `OneLinkPerReader` | 1 check with 2 alarms in turn, 2 addresses, 2 tokens, 2 requests, 1 loss | 248 k |
| | `OnePushPerOpening`, `NoMootPush`, `SilenceMutesPush` | the same alarms, 1 device with 2 rows in turn, 2 wishes, 1 restart | 903 k |
| | `DashboardInSync` | 2 checks, 2 clients, 2 announcements pending | 141 k |
| records | `AgeIsTrue` | days of 2 moments, months of 3 days, 5 moments, 2 volumes | 172 k |
| | `EpisodeSuppresses` | 2 radars of either family, every phase of the cadences | 81 k |
| | `InStep`, `HistoryKept`, `RepeatChangesNothing` | every family of checks, limits set and not, 1 or 2 rows, 2 jobs, 1 save, 1 restart | 427 k |
| | `ParityTellsDamage` | steps 0 to 5 with the seam at 2, one damage; 3 entries of 3 times | 48 k |
| | `ParsedIsWhole` | 2 readers, 2 lines, 2 rewrites, no logs or 2 to 3, which may be unreadable | 949 k |
| | `NothingLost` | 3 rows, chunks of 1, 2 restarts | 84 k |
| | `RecurringFrameStays` | 2 paths, 2 hashes, 2 saves in flight, 3 days | 163 k |
| | `WaitersHaveAFetch` | 2 viewers, a window of 1 or a name each, 2 captures, memory of 1 | 91 k |
| | `OneReportPerSchedule`, `EveryDayReported` | days of 2 hours, 2 zones, 2 saves, 1 upset | 224 k |
| | `ReportAddsUp` | windows of 3 timesteps, 2 tiers, 2 slices of 1 | 23 k |

What they show, in the order of the table:

* alarms of one check succeed each other cleanly, whatever fails once;
* no interleaving of acks with a tick pages under an ack or lets an outgrown one
  stand for good;
* what is blamed on an upstream stays silent exactly as long as it should;
* the steps of an alarm go out once and in order; a failure that lasts has an alarm
  from some moment on, and an alarm that stands has its first step out;
* what is published as red is not collateral, and everything keeps running and
  settles;
* a link, a push and a broadcast do what they promise although what they are
  about changes under them;
* what the checks see, decide, decide again, keep and report stays true under
  writers, sweeps, restarts and the turning of days.

**Why the bounds are enough.** The engine treats checks independently but for
the dependency graph and the shared tick; one check, or a pair on one edge,
shows every interaction of the tables. The second row of engine_lifecycle is
there so that two alarms of the check could be open at once. Ages matter only in
comparison with the constants, all at most `MaxAge`; ages above are
indistinguishable. A held-down `origin` (beyond `MaxAge`) keeps alarms of the
upstream itself out of engine_suppression. `sent` stops at 2, since 2 is a
duplicate already. One fault is one exception or restart at every place; the
proofs below cover any number. `MaxFaults = 0` in the runs whose property
speaks of undisturbed operation, or is lost to faults by design.

In contact, a second alarm of the check is what a stale link, task or silence could
be mistaken for; two requests, two addresses and two clients are the smallest number
that can race; the proofs below cover any number of each. In records each bound is
the smallest at which the hazard bites: a day that turns and turns again over the
end of a month, a saved threshold between two jobs or under one that walks, two jobs
of which either may read before the other writes, two readers sharing one cache, a
sweep resumed on a part of its rows, a save on either side of the sweep, a viewer
who leaves while another waits, a schedule moved across the hour it names, a window
that cuts an episode. The dwell, the hold-down, the cadences and the lifetimes of
verdicts of `Fleet` have the values of the code, in minutes.

All bounds: `MaxAge`, `Outcome` (verdicts of runs), `MaxFaults`, the switches
`Acking`, `Silencing` and `Tiering`, the cap of 2 on `sent`, `Breakable`; and
the constants declared as bounds in the other modules (`MaxOpenings`, `Token`,
`Tap`, `MaxLost`, `MaxRows`, `MaxRestarts`, `MaxPending`, `LastMoment`,
`MaxVolumes`, `Job`, `MaxSaves`, `MaxReplays`, `MaxEntries`, `MaxLogs`,
`MaxWrites`, `MaxRow`, `MaxStops`, `MaxDay`, `MaxCapture`, `MaxSaving`,
`MaxHour`, `MaxVersion`, `MaxUpsets`, `MaxSteps`, `Slice`, `n_buckets`,
`Recorded`). contact and records end when these are used up: deadlock is not
checked there. In the engine and the scheduler it is.

**Fairness.** `AlarmEngine!FairSpec`: weak fairness of each check's evaluation
task and of the ticker (asyncio runs every ready task; their loops never end);
time passes (`SF(Elapse)`) and moments with neither a tick nor an evaluation in
progress recur (`[]<>Quiet`): evaluations take milliseconds and ticks seconds,
against cadences of 15 s and more. Nothing is assumed of people, of the
outcomes of runs, or that faults occur. `Scheduler!FairSpec`: weak fairness of
each task and of the probe; a check outside `MayHang` returns, since its HTTP
calls time out. Nothing is assumed of checks in `MayHang`. The other modules
promise safety only, and state no fairness: what must happen there must happen
before a clock goes on (`EveryDayReported`, `EpisodeSuppresses`), and the guards
of the clocks say why it does: a check that is due runs within its minute, the
report's task ticks within the hour.

### Where documentation and code disagree

Four runs expect a violation: each checks what a doc or a comment says, and TLC
shows that the code does otherwise.

* `code_lapse`: an ack placed during a tick may be revoked because of the
  snapshot taken before it (`engine.py:274`, `415`; docstring at 497).
* `doc_gate`: an upstream run that starts after a downstream one is not waited
  for, so the demotion may not see the authoritative state (`scheduler.py:481`).
  `RedIsNotCollateral` is what does hold.
* `doc_tilt_key`: a tilt is keyed by a capture time from a list that is kept for
  45 s, and fetched by its position in the origin's window: the archive may file
  the newer capture under the time of the older (`upstream.py:948`, against
  872 and 1088).
* `doc_drops_age`: the descent to the newest day is bounded at every level by
  that part of today's date, also below a month that is past, so the age is
  lost until the same day of the next month
  (`layer3_backend_processing.py:780`, against 740-741).

Read off the code while modelling, and not run: `alarm_open` is emitted for
suppressed alarms as well (docs/16-alarm-engine.md:18, 271); step delays count
from the opening, not from the previous step (docs/16-alarm-engine.md:199); the
certificate check of radar-display is exempt from the offline demotion by the
prefix of its id (`scheduler.py:361`); "Already acknowledged" may greet a reader
whose ack was lost after the claim (`ack.py:114`); the verdict of a
fleet lasts "at least the dwell regardless", except that it is a skip while too
few verdicts are fresh (`layer2_radar.py:580`).

Of reprocessing: it is "idempotent within a single threshold blob"
(`reprocess_engine.py:667-673`) only as long as no two jobs overlap: one that read
its rows under older thresholds and writes last undoes the other, and a job under the
newer thresholds then changes rows again. `RepeatChangesNothing` therefore leaves
out jobs while which another wrote. The two ways of judging "must not come to
disagree" (38-43), but do where the row keeps less than the check saw: near a limit
that rounding crosses, within the band of a radar, for the first frame of a window
(the job's trail is empty there, 698-699, so a frozen frame passes), and where a limit
is not set: the live check then goes by the configuration, the job by the limit of the
row (317-321), which an earlier job may have replaced by another (`HeldToAnother`).
Rows of L1, LB1, LB2 and LB3 are rewritten without a note of their first verdict
(290-293, 324-325, 354-355, 522, 548, 580); those of L2, L4 and timeouts have one.

## 4. What is proved

For every value of the constants that satisfies the assumptions stated with
them, these are theorems (the specifications named other than `Spec` are
the components on their own, of which the behaviours of contact and records that
exercise them are behaviours):

| theorem | states |
|---|---|
| **AlarmEngine_proofs**, **AlarmSafety_proofs** | |
| `TypeCorrect` | `Spec => []TypeOK` |
| `AtMostOneOpenAlarm` | `Spec => []OneOpenAlarm` |
| `SeverityNeverFalls` | `Spec => SeverityRatchet` |
| `AcksAreHonored` | `Spec => []NoPageUnderStandingAck` |
| `HoldDownHolds` | `Spec => []HeldDown` |
| `EvaluateClosesOnRecovery` | `Spec => ClosedOnRecovery` |
| `StepsGoInOrder` | `Spec => []StepsInOrder` |
| `NobodyIsPagedTwice` | `Spec => []NoDuplicatePage` |
| **AlarmSuppression_proofs**, **AlarmRefinement_proofs** | |
| `BlamedStaysSilent` | `Spec => []SilentWhileBlamed` |
| `EngineImplementsLifecycle` | `Spec => ImplementsLifecycle` |
| **Scheduler_proofs** | |
| `SchedulerTypeCorrect` | `Spec => []TypeOK` of Scheduler |
| `SlotsNeverLeak` | `Spec => []SlotsAreRuns` |
| `CacheFollowsStore` | `Spec => []CacheMatchesStore` |
| `PublishedRedIsNotCollateral` | `Spec => RedIsNotCollateral` |
| **Contact_proofs** | |
| `LinksAckOnce` | `LinkSpec => []LinkAcksOnce` |
| `LinksArePersonal` | `LinkSpec => []OneLinkPerReader` |
| `OpeningsPushOnce` | `PushSpec => []OnePushPerOpening` |
| `DelayedPushIsActionable` | `PushSpec => []NoMootPush` |
| `SilencedIsNotPushed` | `PushSpec => []SilenceMutesPush` |
| `DashboardsKeepUp` | `WsSpec => []DashboardInSync` |
| `FeedShowsEveryLifecycle` | `AlarmLifecycle!Spec`, its alarms counted: `FeedSpec` |
| **Keeping_proofs** | |
| `WhatRecursStays` | `ArchiveSpec => []RecurringFrameStays` |
| `SweepLosesNothing` | `RetentionSpec => []NothingLost`, assuming `Steady` |
| `FetchesAreShared` | `ProxySpec => []WaitersHaveAFetch` |
| **Records_proofs** | |
| `ReceiptsAreReadWhole` | `ReceiptSpec => []ParsedIsWhole` |
| `ReportsAreSentOnce` | `DigestSpec => []OneReportPerSchedule` |
| `ReportsSkipNoDay` | `DigestSpec => []EveryDayReported` |
| `EpisodesAreSuppressed` | `FleetSpec => EpisodeSuppresses` |
| `AgesAreTrue` | `ArrivalSpec => []AgeIsTrue` |
| `HistoryIsKept` | `ReprocessSpec => []HistoryKept` |
| `JudgementsAreInStep` | `ReprocessSpec => []InStep` |
| `RepeatsWriteNothing` | `ReprocessSpec => RepeatChangesNothing` |
| `DamageIsTold` | `ManifestSpec => []ParityTellsDamage` |
| `ReportsAddUp` | `ReportSpec => []ReportAddsUp` |
| `EpisodesAreUnbroken` | the groups of the SQL are the unbroken runs of one status |

**The assumptions** (`DependsAssumption`, `StoreAssumption` and so on, one per
module, evaluated by TLC on the instances) give the types of the constants, that
the set of checks is finite, and that `NoCheck`, `NoAlarm`, `Unheard` and the
like are not members of the sets they complement. These say more:

* `FleetAssumption`: the hold-down and one cadence of a radar fit into the
  minimum dwell. `FLEET_MIN_DWELL` was chosen for that (`layer2_radar.py`).
* `ReceiptAssumption`: a rewrite takes less than the settling window, and the
  script rests for longer than it. A writer that stalls in mid-file for longer
  than the window is read in part. A directory of run logs holds two at least: of
  a single one the code reads the log that may still be written.
* `ReprocessAssumption`: what a check observes and its thresholds have their types,
  a threshold of the backend tier may be unset, and the silence limit and the
  hysteresis of a radar are not negative. The server checks that a radar's own limit
  is positive; of the hysteresis, as of all globals, the admin page alone makes sure
  (`_validate_thresholds`). With a negative one the two edges of the band change
  places, and a row may be judged differently the second time.
* `ManifestAssumption`: the seam of a forecast lies after its first step and
  before its last, so that either block has a step of its own.
* `ReportAssumption`: a slice of the day is not empty.
* `Steady`, see below.

**The inductive invariant** of the engine (`AlarmEngine_proofs`) is `IInv`: the types;
`RowsHaveChecks`, a row in use names a check; `TickHoldsRows`, whatever the tick
has in hand is a row in use, which is why nobody may reuse the identity;
`EvalKnows`, the knowledge an evaluation acts on: between `find_open_alarm` and
the insert no alarm of the check is open, because only that evaluation inserts
one, and the alarm it is about to close or announce is one of its check; and
`OneOpenAlarm`. `EvalKnows` is what `OneOpenAlarm` lacks to be inductive, and it
is the reason the missing constraint does no harm. `Next` is split into seven
kinds of step (evaluations, the insert, the ticker, acks, switches, restart,
time), each with its own lemma.

**AlarmSafety_proofs.** `SeverityNeverFalls` needs only that `compute_severity`
ends in a maximum with the row's own severity, and that identities are reused
only by rows that were not open. `AcksAreHonored` rests on `AckPassed`: from the
moment the tick has found the row unacked, or has revoked its ack, until it
leaves the row, an unrevoked ack of it is one placed since the tick began.
`HoldDownHolds` rests on `Streaks`: a streak is never older than the last clean
run. `EvaluateClosesOnRecovery` rests on `Recovered`: an undisturbed evaluation
that is about to close still has its own clean run as the last conclusive one.

**AlarmSuppression_proofs.** `BlamedStaysSilent` rests on `Attribution`: a
blamed alarm is still marked as suppressed; its cause is in the latest verdicts,
and hence in every snapshot a tick has taken since it opened; so a tick that
reaches dispatch with the row found no cause in its snapshot, and the row is not
blamed.

**Scheduler_proofs.** The invariant `SInv` adds two facts to the properties:
`PublishedIsInHand`, between publishing and persisting the cache holds the result
that will be written, without which `CacheMatchesStore` is not inductive; and
`BehindOnlyCapped`, a run with upstream runs of its start still in flight waited
out the cap. `PublishedRedIsNotCollateral` also needs `WalkFindsTheSick`: if any
check that `_compute_transitive` reaches is unhealthy, then
`_find_unhealthy_ancestor` returns one. It follows from the well-foundedness of
the rounds of the walk, whatever the graph.

`StepsGoInOrder` rests on `StepsRecorded`: as long as somebody is always on
duty, the tick goes to the next step only with an entry for the one before.
`NobodyIsPagedTwice` rests on `SentOnce`: what was sent is in the log, or is what
the ticker is about to record, and those still to be served have not had it.
Both are disturbed by what ends a step early (an exception, an alarm that closed,
nobody left), so that each has one step per such end.

**AlarmRefinement_proofs.** The view `[c |-> Standing(c)]` is shown to move only
as `AlarmLifecycle` allows. Besides `IInv` this needs `InHand`: what the ticker
read of the attribution when it took the row up still holds when it acts on it.
Most kinds of step cannot touch the view; for each that can, one lemma names the
step of the abstract specification, and the checks it leaves alone.

**Contact_proofs.** Links: `LinkInv`: a request that has claimed a token is the
only one, and no ack has been written through it (`ClaimsAreSole`: the conditional
update lets one request through); what the ticker knows when it mints is still so,
since it alone mints (`MailKnows`); hence live links are unique (`LiveIsUnique`).

Pushes: `PushInv` rests on `OneChance`: of an opening and a device
exactly one thing can still push, the row the listener has ahead of it, the
delayed task, or nothing, and as long as something can, nothing has been
pushed. `MutedIsDropped`: under a silence that has lasted since the opening, the
listener does not get past the silences.

Dashboards: `OnTheWay`: of a check that changed since the client connected, the
last word on the way to it, in the tasks or else in its outbox, is the status last
announced; or there is no word left and it has been heard.

The feed: what is proved here of links and pushes is proved against
`AlarmFeed`. `FeedShowsEveryLifecycle` says that nothing is lost by that: take
any behaviour of `AlarmLifecycle`, leave out what is blamed, number the alarms
as they open, and it is one of the feed, as long as `MaxOpenings` numbers are
enough. With `EngineImplementsLifecycle` it joins the engine to its readers.

**Keeping_proofs.** Images: `ArchiveInv`: the entries a sweep deletes have the
hashes it selected (`SweepKnows`); a save that no sweep overtook has its file
(`SaveKnows`); what was saved within the retention has its file and both rows,
and its hash is not among those selected (`RecentIsKept`).

Rows: `RetentionInv`: as long as a sweep has yet to export a
table, the last row behind its cutoff is still in it, and no file of that table
has a stamp that ends there (`SweepIsNew`), so the export does not overwrite;
what is being deleted is in a file (`SweepFollows`). `Steady` says that a row
has aged since the previous cutoff: with a day without a single recording, a
sweep that was interrupted while deleting may be resumed under the name of the
file it wrote, and `SweepIsNew` does not hold.

Fetches: `ProxyInv`: who is past the list asks for a capture that the list held
(`Listed`, `Named`); so a fetch is in flight under the name its waiters have,
whoever leaves.

**Records_proofs**, one section per component:

* Receipts: `ReceiptInv`. A reader that waits the window out finds the file at rest
  (`Settling`: the write under way is older than the window by then, and no
  other begins before); as long as the stamp is the one seen before reading,
  the file was whole and so is what was read (`Reading`).
* Report: `DigestInv` says who may claim a date, and what the flag and the claim
  mean under each version of the schedule. `ClaimIsKept` and `HoursDone` carry
  `EveryDayReported`: where nothing failed, a claim has its report, sent or
  about to be, and so has every hour of the schedule that is past.
* Fleets: `LatchHolds`: while a counted radar waits for its alarm, the last
  systemic reading is no older than its last clean run nor, once the hold-down is
  over, than the run that is to come, which is at most a cadence away; so the
  dwell outlasts the wait.
* Ages: `Looking` says what every place already passed by cannot hold; `LatestLies`
  that a complete observation stays where its name says. The days are
  linear arithmetic over the division by their length.
* History: `RowKept` is what a row keeps through any number of rewritings, for
  each family of checks: its first verdict where one is noted, no verdict on an age
  it has not got, nothing worse than a warning where only warnings are given. It
  holds of the rows, of the copies a job has read, and of what it is about to write
  (`WalkKept`): so it does not matter which of two jobs writes last.
* Judgements: `InStepInv`. `Agrees` is what the facts of a row say of its live
  status, whatever was written over it since (`RecordedAgrees` shows it of the
  live run, `JudgedAgainAgrees` of every rewriting); `InStep` follows, since judging
  again computes just that (`AgreedVerdict`), or holds to another limit
  (`NowIsInEffect`). Of images the previous frame counts: the trail of a job is
  what the rows it read tell from where its window begins (`WalkIsAt`, `TrailOf`),
  what the check remembered is what all the rows before tell (`FramesAgree`), and
  where the first is not empty the two are the same (`TrailFromBefore`).
* The second job: `RepeatInv`. A job that walked under one set of thresholds, with
  nobody writing meanwhile, rewrites, of the rows behind it, just those that do not
  stand, and what it rewrites them to does (`JobsAreAhead`); what the last job left
  stands still (`LastIsSettled`). That judging twice is judging once
  (`AgainItStands`), also for the frame that the next row is compared with, rests on
  `InStepInv`.
* Parity: `ManifestInv`. `Stitched`: a sound forecast, listed however often, has a
  time for each step that is the step up to the seam and one more after it; its
  first entries have the times in order and the others repeat them. Hence nothing
  warns (`StitchedPasses`), and a run listed over it does unless it goes on
  where the forecast ends (`RepublishTold`, `JoinPasses`). A swap stays where it
  was first listed (`BeginsWith`, `SwappedTold`), a dropped step stays away
  (`DroppedTold`). Observed times: `ObservedTold`.
* Figures: `ReportAddsUp` equates sums that the report computes in different
  ways. Each sum is shown to be the size of a union of disjoint sets of
  timesteps (`SumOfParts`): were it not, there would be a smallest set of parts
  for which it is not, and taking one part out of it gives a smaller one.
  `EpisodesAreUnbroken`: the difference of the two row numbers counts the rows of
  other classes so far, so it is the same if none of them lies between.

Attempts to prove these found overlapping arms of CASE in `Checks`, `Reprocess`,
`AckLink` and `Manifest`: TLC took the first, as the code does, while the formulas left
the choice open. They are IF ... ELSE IF now.

**Only model-checked**: what happens eventually (`FailureOpensAlarm`,
`FirstStepGoesOut`, `OutgrownAckLapses`, `SuppressionClears`,
`EveryCheckKeepsRunning`, `CascadeSettles`, `RecoverySettles`): liveness and
ENABLED are out of the prover's reach. Every other property of the passing runs
is stated by a theorem above, `NothingLost` under `Steady`. The four runs that expect a
violation are TLC's alone. Induction over data is out of reach too: sums, and
the positions a loop reaches in a list, are treated by smallest counterexamples
and by intervals instead, and what the recursive function `Visited` computes is
used in proofs only through what its callers do with it.

## 5. What is not modelled

* Contents: summaries, payloads, templates, addresses, rendering of the report.
* Configuration: matching of routes, floors of receivers, validation, and the
  hot swap of a new configuration during a tick; groups and schedules, which are
  arithmetic on the wall clock (a weekly window that runs past midnight is
  matched with the weekday of the moment).
* Accounts, sessions and reset tokens: single statements outside the alarm path.
* The fetching of products and the statistics of images; the episode check of
  layer 0; the DNS state of the monitor; `_list_parent`; ages read from the
  modification times of files instead of their names.
* The one-off scripts (`reprocess_l4.py` and the like), read-only API, frontend,
  operations scripts.
* Real time finer than the unit of the ages: no time passes during a tick or an
  evaluation.

What the models leave open, or decide, where they do cover the code:

* The cap on entries of a scan, which can only make an age older; the witness
  the fleet check quotes.
* A claim of the report is kept if the process dies before sending: that day's
  report is lost, as the code chooses. The release flag is in memory and lost
  with the process.
* Lists of the proxy are read and replaced in one step; in the code a cold list
  from the archive may briefly replace one that was refreshed meanwhile.
* A subject that both tiers observe is combined per timestep; with tiers of very
  different cadence an outage of one may come out as a row of blips. How far
  back a chronic combined subject goes is asked of the web tier alone.
* The first bad episode of a subject may be called cut though passes precede it in
  the window (`digest.py:645-657` looks at the runs before the window and at the
  class, not at what lies between).
* A query of the silences that fails ends a tick (`engine.py:266`). The models have
  no such fault of its own; a restart at that point does the same and more.
* A block of another run that joins a forecast at its last step or the one after
  counts as a legitimate stitch, as in `layer1_product.py`.
* Saves of the report's schedule are applied one after the other, and a zone is a
  fixed distance: its clock does not change in summer.
* The list of the steps of a tilt is read at once, of seven fetches in the code;
  whether the archive has a product is asked at the start of its fetch and again at
  its end. A device that is gone loses its row together with the send that
  found out, and a client that is too slow leaves as its time runs out.
* Of a directory with a single run log, see `ReceiptAssumption`.
* A cancel after the last row leaves the job "completed".

## 6. The plan

Done: the engine with its abstract specification, the scheduler with the network
monitor, links, pushes and dashboards against that specification, observation
and judgement, reprocessing, keeping and telling, the proofs above.

Left, in order of worth:

1. Engine: the hot swap of the configuration as an action; what holds of
   duplicates and of partly served steps under faults; what the sweep may close.
2. Retention with gaps in the recording, and the reading back of cold files.
3. Proofs: `NothingLost` without `Steady`, once the name of a cold file tells more
   than its span.
4. Accounts: single-use reset tokens and sessions, which are shaped like
   `AckLink`.

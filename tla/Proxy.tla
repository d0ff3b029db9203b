------------------------------- MODULE Proxy --------------------------------
(***************************************************************************)
(* Serving the frames of one loop (api/routes/upstream.py).  The origin of *)
(* the tilts names its last few captures by their position in a window     *)
(* that rolls; the proxy keys them by the time of the capture, which it    *)
(* reads from a list it keeps for a while.  Products and X-band scans have *)
(* a name of their own, and a list that is served while it is refreshed.   *)
(* A frame comes from the memory, the archive, or one fetch shared by      *)
(* everybody who waits for it.  Captures are numbered; position f of the   *)
(* window holds the capture newest - f.                                    *)
(***************************************************************************)
EXTENDS Integers, SequencesExt, FiniteSetsExt

CONSTANTS
  Viewer,         \* requests in flight at the same time, the prewarmer's among them
  _TILT_FRAMES,   \* positions of the window
  MaxCapture,     \* bound: captures
  _IMAGE_CACHE_MAX,
  Tolerance,      \* how many captures away an archived frame may be
  MaxSaving       \* bound: saves under way

ASSUME ProxyAssumption ==
  _TILT_FRAMES \in Nat \ {0} /\ MaxCapture \in Nat /\ _TILT_FRAMES <= MaxCapture

VARIABLES
  loop,      \* of "tilt", "product" or "xband" frames
  listing,   \* _PD_CACHE or _XB_CACHE: the names it lists, fresh? being refreshed?
  newest,    \* the capture at position 0 of the origin's window
  steps,     \* _TILT_CACHE: the captures it lists by position, and is it fresh?
  viewer,    \* the requests
  lru,       \* _IMAGE_CACHE: [key, holds], the most recent last
  archived,  \* the archive: key -> the capture its bytes show, 0 without
  negative,  \* _NEG_CACHE: keys within its TTL
  inflight,  \* _INFLIGHT: key -> the position it is fetched from, -1 without
  saving     \* the saves under way: [key, holds]

listVars == <<loop, listing>>
proxyVars == <<listVars, newest, steps, viewer, lru, archived, negative, inflight, saving>>

Key == 1..MaxCapture
Position == 0.._TILT_FRAMES - 1
NoRequest == [pc |-> "idle", key |-> 0, frame |-> 0, archive_only |-> FALSE, found |-> 0]

ProxyInit ==
  /\ loop \in {"tilt", "product", "xband"}
  /\ listing = [has |-> {}, fresh |-> FALSE, refreshing |-> FALSE]
  /\ newest = _TILT_FRAMES
  /\ steps = [of |-> [f \in Position |-> 0], fresh |-> FALSE]
  /\ viewer = [r \in Viewer |-> NoRequest]
  /\ lru = <<>> /\ archived = [k \in Key |-> 0] /\ negative = {}
  /\ inflight = [k \in Key |-> -1] /\ saving = {}

-----------------------------------------------------------------------------
(* The origin, and what wears off *)

Shift == /\ newest < MaxCapture /\ newest' = newest + 1
         /\ UNCHANGED <<listVars, steps, viewer, lru, archived, negative, inflight, saving>>

ListExpires == /\ steps.fresh \/ listing.fresh
               /\ steps' = [steps EXCEPT !.fresh = FALSE]
               /\ listing' = [listing EXCEPT !.fresh = FALSE]
               /\ UNCHANGED <<loop, newest, viewer, lru, archived, negative, inflight, saving>>

BackOffEnds == /\ \E k \in negative : negative' = negative \ {k}
               /\ UNCHANGED <<listVars, newest, steps, viewer, lru, archived, inflight, saving>>

-----------------------------------------------------------------------------
(* tilt_image, and the prewarmer's _one_tilt: which key, from which position *)

\* The list in memory while it is fresh, else the origin's answers.
_tilt_steps_raw == IF steps.fresh THEN steps.of ELSE [f \in Position |-> newest - f]

Distance(k, c) == IF k > c THEN k - c ELSE c - k

\* The candidates on either side of the target, the nearer one if near enough.
_nearest_archived_tilt(c) ==
  {k \in Key : /\ archived[k] # 0 /\ Distance(k, c) <= Tolerance
               /\ \A j \in Key : archived[j] # 0 => Distance(k, c) <= Distance(j, c)}

Asked(r, k, f, only) ==
  viewer' = [viewer EXCEPT ![r] =
    [pc |-> "memory", key |-> k, frame |-> f, archive_only |-> only, found |-> 0]]

AskFrame(r, f) ==
  /\ loop = "tilt" /\ viewer[r].pc = "idle"
  /\ steps' = [of |-> _tilt_steps_raw, fresh |-> TRUE]
  /\ Asked(r, _tilt_steps_raw[f], f, FALSE)
  /\ UNCHANGED <<listVars, newest, lru, archived, negative, inflight, saving>>

\* A moment outside of the listed window is looked for in the archive alone.
AskMoment(r, c) ==
  /\ loop = "tilt" /\ viewer[r].pc = "idle"
  /\ steps' = [of |-> _tilt_steps_raw, fresh |-> TRUE]
  /\ c \notin Range(_tilt_steps_raw)
  /\ IF _nearest_archived_tilt(c) = {} THEN UNCHANGED viewer
     ELSE \E k \in _nearest_archived_tilt(c) : Asked(r, k, 0, TRUE)
  /\ UNCHANGED <<listVars, newest, lru, archived, negative, inflight, saving>>

-----------------------------------------------------------------------------
(* product_image_by_step and latest_xband_scan: a name of the list *)

Window == (newest - _TILT_FRAMES + 1)..newest

\* Fresh or stale, the list in memory is answered from at once; a stale one is
\* refreshed meanwhile, by one task.
_product_steps_cached(r, names) ==
  /\ viewer[r].pc = "idle"
  /\ \E k \in names : Asked(r, k, 0, FALSE)
  /\ listing' = [listing EXCEPT !.refreshing = @ \/ ~listing.fresh]
  /\ UNCHANGED <<loop, newest, steps, lru, archived, negative, inflight, saving>>

product_image_by_step(r) == loop = "product" /\ _product_steps_cached(r, listing.has)

latest_product_image(r) ==
  /\ loop = "product" /\ listing.has # {}
  /\ _product_steps_cached(r, {Max(listing.has)})

\* The scan nearest to a time, or the last.
latest_xband_scan(r) == loop = "xband" /\ _product_steps_cached(r, listing.has)

AskCold(r) ==
  /\ loop # "tilt" /\ viewer[r].pc = "idle" /\ listing.has = {}
  /\ viewer' = [viewer EXCEPT ![r].pc = "list"]
  /\ UNCHANGED <<listVars, newest, steps, lru, archived, negative, inflight, saving>>

\* The frames of a radar that are archived make a list, stale from the start.
_xband_listing_local(r) ==
  LET local == {k \in Key : archived[k] # 0} IN
  /\ loop = "xband" /\ viewer[r].pc = "list"
  /\ \E k \in local : Asked(r, k, 0, FALSE)
  /\ listing' = [has |-> local, fresh |-> FALSE, refreshing |-> TRUE]
  /\ UNCHANGED <<loop, newest, steps, lru, archived, negative, inflight, saving>>

\* Without one the viewer waits for the origin's.
_pd_fetch(r) ==
  /\ viewer[r].pc = "list"
  /\ loop = "xband" => \A k \in Key : archived[k] = 0
  /\ \/ /\ \E k \in Window : Asked(r, k, 0, FALSE)
        /\ listing' = [listing EXCEPT !.has = Window, !.fresh = TRUE]
     \/ viewer' = [viewer EXCEPT ![r] = NoRequest] /\ UNCHANGED listing
  /\ UNCHANGED <<loop, newest, steps, lru, archived, negative, inflight, saving>>

\* The refresh ends; when it has failed the stale list stays, and the next
\* request tries again.
_pd_refresh_bg ==
  /\ listing.refreshing
  /\ listing' \in {[listing EXCEPT !.refreshing = FALSE],
                   [has |-> Window, fresh |-> TRUE, refreshing |-> FALSE]}
  /\ UNCHANGED <<loop, newest, steps, viewer, lru, archived, negative, inflight, saving>>

\* A frame a check has recorded, by its name.
image_by_source(r, k) ==
  /\ loop # "tilt" /\ viewer[r].pc = "idle" /\ k <= newest
  /\ Asked(r, k, 0, FALSE)
  /\ UNCHANGED <<listVars, newest, steps, lru, archived, negative, inflight, saving>>

-----------------------------------------------------------------------------
(* _serve_source *)

InMemory(k) == {i \in DOMAIN lru : lru[i].key = k}

\* Stored, or moved to the end; beyond the limit the oldest goes.
Remember(k, c) ==
  LET kept == SelectSeq(lru, LAMBDA e : e.key # k) \o <<[key |-> k, holds |-> c]>> IN
  IF Len(kept) > _IMAGE_CACHE_MAX THEN Tail(kept) ELSE kept

FromMemory(r) ==
  LET k == viewer[r].key IN
  /\ viewer[r].pc = "memory"
  /\ \/ \E i \in InMemory(k) :
          /\ lru' = Remember(k, lru[i].holds)
          /\ viewer' = [viewer EXCEPT ![r] = NoRequest]
     \/ /\ InMemory(k) = {}
        /\ viewer' = [viewer EXCEPT ![r].pc = "archive", ![r].found = archived[k]]
        /\ UNCHANGED lru
  /\ UNCHANGED <<listVars, newest, steps, archived, negative, inflight, saving>>

\* The archive answered, some time after it was asked.
FromArchive(r) ==
  /\ viewer[r].pc = "archive" /\ viewer[r].found # 0
  /\ lru' = Remember(viewer[r].key, viewer[r].found)
  /\ viewer' = [viewer EXCEPT ![r] = NoRequest]
  /\ UNCHANGED <<listVars, newest, steps, archived, negative, inflight, saving>>

NotServed(r) ==
  /\ viewer[r].pc = "archive" /\ viewer[r].found = 0
  /\ viewer[r].archive_only \/ viewer[r].key \in negative
  /\ viewer' = [viewer EXCEPT ![r] = NoRequest]
  /\ UNCHANGED <<listVars, newest, steps, lru, archived, negative, inflight, saving>>

\* Join the fetch of this key, or start it.
FromOrigin(r) ==
  LET k == viewer[r].key IN
  /\ viewer[r].pc = "archive" /\ viewer[r].found = 0
  /\ ~viewer[r].archive_only /\ k \notin negative
  /\ inflight' = [inflight EXCEPT ![k] = IF @ = -1 THEN viewer[r].frame ELSE @]
  /\ viewer' = [viewer EXCEPT ![r].pc = "wait", ![r].frame = 0]
  /\ UNCHANGED <<listVars, newest, steps, lru, archived, negative, saving>>

\* Mutant of Leave: awaited without the shield, the fetch is cancelled with the viewer.
LeaveAndCancel(r) ==
  /\ viewer[r].pc # "idle"
  /\ viewer' = [viewer EXCEPT ![r] = NoRequest]
  /\ inflight' = IF viewer[r].pc = "wait" THEN [inflight EXCEPT ![viewer[r].key] = -1] ELSE inflight
  /\ UNCHANGED <<listVars, newest, steps, lru, archived, negative, saving>>

\* The client goes away.
Leave(r) ==
  /\ viewer[r].pc # "idle"
  /\ viewer' = [viewer EXCEPT ![r] = NoRequest]
  /\ UNCHANGED <<listVars, newest, steps, lru, archived, negative, inflight, saving>>

-----------------------------------------------------------------------------
(* _fetch_image_upstream *)

\* Whoever waits for the key is answered, with the image or with the error.
Served(k) ==
  /\ inflight[k] # -1
  /\ inflight' = [inflight EXCEPT ![k] = -1]
  /\ viewer' = [r \in Viewer |->
       IF viewer[r].pc = "wait" /\ viewer[r].key = k THEN NoRequest ELSE viewer[r]]
  /\ UNCHANGED <<listVars, newest, steps, archived>>

\* The position of the window, as it is now; or the file of that name.
Fetched(k) ==
  LET c == IF loop = "tilt" THEN newest - inflight[k] ELSE k IN
  /\ c \in Window
  /\ Cardinality(saving) < MaxSaving
  /\ Served(k)
  /\ lru' = Remember(k, c)
  /\ saving' = saving \cup {[key |-> k, holds |-> c]}
  /\ UNCHANGED negative

\* Anything but an image keeps the key from being asked for again for a while;
\* a fetch that raises does not.
FetchFails(k) ==
  /\ Served(k)
  /\ negative' \in {negative, negative \cup {k}}
  /\ UNCHANGED <<listVars, lru, saving>>

Saved(s) ==
  /\ saving' = saving \ {s}
  /\ archived' \in {archived, [archived EXCEPT ![s.key] = s.holds]}
  /\ UNCHANGED <<listVars, newest, steps, viewer, lru, negative, inflight>>

ProxyNext ==
  \/ Shift \/ ListExpires \/ BackOffEnds \/ _pd_refresh_bg
  \/ \E r \in Viewer :
       \/ \E f \in Position : AskFrame(r, f)
       \/ \E c \in Key : AskMoment(r, c) \/ image_by_source(r, c)
       \/ product_image_by_step(r) \/ latest_product_image(r) \/ latest_xband_scan(r)
       \/ AskCold(r) \/ _xband_listing_local(r) \/ _pd_fetch(r)
       \/ FromMemory(r) \/ FromArchive(r) \/ NotServed(r) \/ FromOrigin(r) \/ Leave(r)
  \/ \E k \in Key : Fetched(k) \/ FetchFails(k)
  \/ \E s \in saving : Saved(s)

-----------------------------------------------------------------------------
(* Properties *)

\* Whoever waits, waits for a fetch that is running: a viewer who leaves does
\* not take the fetch of the others along, and a fetch that ends leaves nobody
\* behind (the shield, and _INFLIGHT, of _serve_source).
WaitersHaveAFetch ==
  \A r \in Viewer : viewer[r].pc = "wait" => inflight[viewer[r].key] # -1

\* Said of the keys, and not so: that a key names the capture its bytes show.
\* The list is kept for 45 seconds, the bytes come from a position of the window
\* as it is then (upstream.py:872-876, and 948).
TiltKeyNamesItsFrame == \A k \in Key : archived[k] # 0 => archived[k] = k
=============================================================================

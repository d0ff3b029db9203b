------------------------------ MODULE Archive -------------------------------
(***************************************************************************)
(* The image archive: files named by the hash of their content, a row per  *)
(* hash that says when it was last seen, and an index from the path an     *)
(* image came from to its hash (archive/__init__.py), with the pruning of  *)
(* what has not been seen for long (retention.prune_archive).  A save      *)
(* writes the file in a thread and the two rows in one transaction; the    *)
(* sweep selects, unlinks, and deletes the rows in one transaction.        *)
(***************************************************************************)
EXTENDS Integers

CONSTANTS
  Path, Sha, Saver,
  Nothing,  \* no hash, no path
  Keep,     \* archive_retention_days
  MaxDay    \* bound: days

ASSUME ArchiveAssumption == Nothing \notin Sha \cup Path /\ Keep \in Nat /\ MaxDay \in Nat

VARIABLES
  day,
  blob,   \* the files
  image,  \* image_archive: first_seen_at and last_seen_at, 0 without a row
  index,  \* image_index
  saver,  \* the saves in flight; raced: has a sweep selected their hash meanwhile?
  prune,  \* the sweep in flight
  saved   \* history: path -> its latest completed save: hash, day, raced

archiveVars == <<day, blob, image, index, saver, prune, saved>>

NoSave == [pc |-> "idle", path |-> Nothing, sha |-> Nothing, raced |-> FALSE]
NoPrune == [pc |-> "idle", stale |-> {}, left |-> {}, indexed |-> {}]

ArchiveInit ==
  /\ day = 1 /\ blob = {} /\ index = [p \in Path |-> Nothing]
  /\ image = [h \in Sha |-> [first |-> 0, last |-> 0]]
  /\ saver = [s \in Saver |-> NoSave] /\ prune = NoPrune
  /\ saved = [p \in Path |-> [sha |-> Nothing, day |-> 0, raced |-> FALSE]]

NextDay == /\ day < MaxDay /\ day' = day + 1
           /\ UNCHANGED <<blob, image, index, saver, prune, saved>>

-----------------------------------------------------------------------------
(* save_image *)

SaveBegins(s, p, h) ==
  /\ saver[s].pc = "idle"
  /\ saver' = [saver EXCEPT ![s] =
       [pc |-> "blob", path |-> p, sha |-> h, raced |-> h \in prune.stale]]
  /\ UNCHANGED <<day, blob, image, index, prune, saved>>

\* A file that is there is left alone.
_write_blob(s) ==
  /\ saver[s].pc = "blob"
  /\ blob' = blob \cup {saver[s].sha}
  /\ saver' = [saver EXCEPT ![s].pc = "rows"]
  /\ UNCHANGED <<day, image, index, prune, saved>>

\* A path whose entry the sweep has deleted and not yet committed is locked.
SaveRows(s) ==
  LET h == saver[s].sha
      p == saver[s].path IN
  /\ saver[s].pc = "rows" /\ p \notin prune.indexed
  /\ image' = [image EXCEPT ![h] = [first |-> IF @.first = 0 THEN day ELSE @.first, last |-> day]]
  /\ index' = [index EXCEPT ![p] = h]
  /\ saved' = [saved EXCEPT ![p] = [sha |-> h, day |-> day, raced |-> saver[s].raced]]
  /\ saver' = [saver EXCEPT ![s] = NoSave]
  /\ UNCHANGED <<day, blob, prune>>

\* The disk or the database raises: best effort, logged.
SaveFails(s) ==
  /\ saver[s].pc # "idle"
  /\ saver' = [saver EXCEPT ![s] = NoSave]
  /\ UNCHANGED <<day, blob, image, index, prune, saved>>

-----------------------------------------------------------------------------
(* prune_archive *)

Cutoff == day - Keep

\* Mutant of Stale: keyed on first_seen_at.
StaleByAge == {h \in Sha : image[h].first > 0 /\ image[h].first < Cutoff}

Stale == {h \in Sha : image[h].last > 0 /\ image[h].last < Cutoff}

PruneSelects ==
  /\ prune.pc = "idle" /\ Stale # {}
  /\ prune' = [NoPrune EXCEPT !.pc = "unlink", !.stale = Stale, !.left = Stale]
  /\ saver' = [s \in Saver |-> [saver[s] EXCEPT !.raced = @ \/ saver[s].sha \in Stale]]
  /\ UNCHANGED <<day, blob, image, index, saved>>

\* A file that is gone already, or cannot be removed, does not stop the sweep.
Unlink(h) ==
  /\ prune.pc = "unlink" /\ h \in prune.left
  /\ blob' \in {blob \ {h}, blob}
  /\ prune' = [prune EXCEPT !.left = @ \ {h}]
  /\ UNCHANGED <<day, image, index, saver, saved>>

\* The first statement of the transaction.
DeleteIndexed ==
  /\ prune.pc = "unlink" /\ prune.left = {}
  /\ prune' = [prune EXCEPT !.pc = "rows", !.indexed = {p \in Path : index[p] \in prune.stale}]
  /\ UNCHANGED <<day, blob, image, index, saver, saved>>

\* The second, and the commit.  An entry committed since the first refers to a
\* row being deleted: the foreign key then rolls the transaction back.
DeleteImages ==
  /\ prune.pc = "rows"
  /\ \A p \in Path \ prune.indexed : index[p] \notin prune.stale
  /\ index' = [p \in Path |-> IF p \in prune.indexed THEN Nothing ELSE index[p]]
  /\ image' = [h \in Sha |->
       IF h \in prune.stale THEN [first |-> 0, last |-> 0] ELSE image[h]]
  /\ prune' = NoPrune
  /\ UNCHANGED <<day, blob, saver, saved>>

PruneFails ==
  /\ prune.pc # "idle" /\ prune' = NoPrune
  /\ UNCHANGED <<day, blob, image, index, saver, saved>>

ArchiveNext ==
  \/ NextDay \/ PruneSelects \/ DeleteIndexed \/ DeleteImages \/ PruneFails
  \/ \E h \in Sha : Unlink(h)
  \/ \E s \in Saver : _write_blob(s) \/ SaveRows(s) \/ SaveFails(s)
                        \/ \E p \in Path, h \in Sha : SaveBegins(s, p, h)

\* What lookup_by_source answers.
lookup_by_source(p) ==
  IF index[p] # Nothing /\ image[index[p]].last > 0 /\ index[p] \in blob
  THEN index[p] ELSE Nothing

\* A frame that keeps recurring stays, however long ago it first appeared: what
\* was saved within the retention can be looked up, unless the save overlapped
\* the very sweep that had selected its hash (retention.py:201-203).
RecurringFrameStays ==
  \A p \in Path :
    saved[p].day >= Cutoff /\ saved[p].day > 0 /\ ~saved[p].raced
    => lookup_by_source(p) = saved[p].sha
=============================================================================

-------------------------- MODULE Keeping_proofs ---------------------------
(***************************************************************************)
(* Proofs about what is kept, and for how long: the tables and their cold  *)
(* store, the archive of the images, and the frames the proxy serves, for  *)
(* any number of rows, paths, viewers, captures and files.                 *)
(***************************************************************************)
EXTENDS Retention, Archive, Proxy, FiniteSetTheorems, WellFoundedInduction, TLAPS

-----------------------------------------------------------------------------
(* Retention and the cold store *)

RetentionSpec == RetentionInit /\ [][RetentionNext]_retentionVars

Filed(t) == UNION {f.rows : f \in {g \in cold : g.of = t}}

Name == {<<>>} \cup {Stamp(S) : S \in SUBSET Recordings}

RetentionTypeOK ==
  /\ table \in [AppendOnly -> SUBSET Recordings]
  /\ aged \in 0 .. MaxRow
  /\ sweep \in [pc : {"idle", "count", "span", "export", "delete"}, of : AppendOnly,
                count : Nat, name : Name]

\* The sweep has yet to export this table.
Unswept(t) ==
  \/ sweep.pc \in {"count", "span", "export"} /\ sweep.of = t
  \/ sweep.pc # "idle" /\ sweep.of = "check_runs" /\ t = "metric_samples"

\* The last row behind the cutoff is then still in it, and no file has its stamp.
SweepIsNew ==
  \A t \in AppendOnly :
    /\ (aged + 1) .. MaxRow \subseteq table[t]
    /\ \A f \in cold : f.of = t => f.name[2] \in 1 .. aged
    /\ Unswept(t) => /\ aged \in table[t] /\ aged >= 1
                     /\ \A f \in cold : f.of = t => f.name[2] < aged

\* The name of the file is that of the rows, and they are filed before they go.
SweepFollows ==
  /\ sweep.pc = "export" => sweep.name = Stamp(Aged(sweep.of))
  /\ sweep.pc = "delete" => Aged(sweep.of) \subseteq Filed(sweep.of)

RetentionInv == RetentionTypeOK /\ SweepIsNew /\ SweepFollows /\ NothingLost

LEMMA MaxOf ==
  ASSUME NEW S \in SUBSET Int, NEW m \in S, \A x \in S : x <= m
  PROVE  Max(S) = m
<1>1. \E x \in S : \A y \in S : x >= y
  OBVIOUS
<1>2. Max(S) \in S /\ \A y \in S : Max(S) >= y
  BY <1>1 DEF Max
<1>3. Max(S) \in Int /\ m \in Int /\ Max(S) >= m /\ Max(S) <= m
  BY <1>2
<1> QED BY <1>3

LEMMA Later ==
  ASSUME NEW a \in Nat, NEW b \in Nat, b > a, NEW m \in Nat
  PROVE  (b + 1) .. m \subseteq (a + 1) .. m
  OBVIOUS

LEMMA StampOf ==
  ASSUME RetentionInv, NEW t \in AppendOnly, Unswept(t)
  PROVE  /\ Aged(t) # {} /\ aged \in Recordings
         /\ Stamp(Aged(t))[2] = aged
<1>1. aged \in Aged(t) /\ aged \in Recordings
  BY RetentionAssumption DEF RetentionInv, RetentionTypeOK, SweepIsNew, Aged, Recordings
<1>2. Max(Aged(t)) = aged
  <2>1. Aged(t) \in SUBSET Int /\ \A x \in Aged(t) : x <= aged
    BY RetentionAssumption DEF RetentionInv, RetentionTypeOK, Aged
  <2> QED BY <1>1, <2>1, MaxOf
<1> QED BY <1>1, <1>2 DEF Stamp

LEMMA RetentionInitially == RetentionInit => RetentionInv
<1> SUFFICES ASSUME RetentionInit PROVE RetentionInv
  OBVIOUS
<1>1. RetentionTypeOK /\ SweepIsNew /\ SweepFollows
  BY RetentionAssumption DEF RetentionInit, RetentionTypeOK, SweepIsNew, SweepFollows, Unswept,
     NoSweep, AppendOnly, Recordings, Name
<1>2. NothingLost
  BY DEF RetentionInit, NothingLost
<1> QED BY <1>1, <1>2 DEF RetentionInv

\* The sweep ends, or goes on to the other table.
LEMMA NextTable ==
  ASSUME RetentionInv, sweep.pc # "idle", sweep' = Next_table(sweep.of),
         UNCHANGED <<table, cold, aged>>
  PROVE  RetentionInv'
<1>1. /\ \/ sweep'.pc = "count" /\ sweep'.of = "metric_samples" /\ sweep.of = "check_runs"
         \/ sweep'.pc = "idle"
      /\ sweep' \in [pc : {"idle", "count", "span", "export", "delete"}, of : AppendOnly,
                     count : Nat, name : Name]
  BY DEF Next_table, NoSweep, AppendOnly, Name
<1>2. \A t \in AppendOnly : Unswept(t)' => Unswept(t)
  BY <1>1 DEF Unswept
<1> QED
  BY <1>1, <1>2 DEF RetentionInv, RetentionTypeOK, SweepIsNew, SweepFollows, NothingLost

LEMMA BeginStep ==
  ASSUME RetentionInv, Steady, SweepBegins
  PROVE  RetentionInv'
<1>1. /\ aged' \in (aged + 1) .. MaxRow /\ UNCHANGED <<table, cold>> /\ sweep.pc = "idle"
      /\ sweep' = [pc |-> "count", of |-> "check_runs", count |-> 0, name |-> <<>>]
  BY RetentionAssumption DEF SweepBegins, NoSweep, RetentionInv, RetentionTypeOK
<1>2. RetentionTypeOK'
  BY <1>1 DEF RetentionInv, RetentionTypeOK, AppendOnly, Name
<1>3. SweepIsNew'
  <2> SUFFICES ASSUME NEW t \in AppendOnly
               PROVE  /\ (aged' + 1) .. MaxRow \subseteq table'[t]
                      /\ aged' \in table'[t] /\ aged' >= 1
                      /\ \A f \in cold' : f.of = t =>
                           f.name[2] \in 1 .. aged' /\ f.name[2] < aged'
    BY DEF SweepIsNew
  <2>1. (aged + 1) .. MaxRow \subseteq table[t]
        /\ \A f \in cold : f.of = t => f.name[2] \in 1 .. aged
    BY DEF RetentionInv, SweepIsNew
  <2>2. aged \in Nat /\ aged' \in Nat /\ aged' > aged /\ MaxRow \in Nat
    BY <1>1, RetentionAssumption DEF RetentionInv, RetentionTypeOK
  <2>3. aged' \in (aged + 1) .. MaxRow /\ aged' >= 1
    BY <1>1, <2>2
  <2>5. (aged' + 1) .. MaxRow \subseteq (aged + 1) .. MaxRow
    BY <2>2, Later
  <2>4. \A f \in cold : f.of = t => f.name[2] \in 1 .. aged' /\ f.name[2] < aged'
    BY <2>1, <2>2
  <2> QED BY <1>1, <2>1, <2>3, <2>4, <2>5
<1>4. SweepFollows' /\ NothingLost'
  BY <1>1 DEF RetentionInv, SweepFollows, NothingLost
<1> QED BY <1>2, <1>3, <1>4 DEF RetentionInv

LEMMA CountStep ==
  ASSUME RetentionInv, Count \/ Span
  PROVE  RetentionInv'
<1> DEFINE t == sweep.of
<1>1. t \in AppendOnly /\ Unswept(t) /\ sweep.pc \in {"count", "span"}
      /\ UNCHANGED <<table, cold, aged>>
  BY DEF Count, Span, Unswept, RetentionInv, RetentionTypeOK
<1>2. Aged(t) # {} /\ Stamp(Aged(t)) \in Name /\ <<>> \in Name
  BY <1>1, StampOf DEF Aged, Name, RetentionInv, RetentionTypeOK
<1>3. /\ sweep' \in [pc : {"idle", "count", "span", "export", "delete"}, of : AppendOnly,
                     count : Nat, name : Name]
      /\ sweep'.of = t
      /\ sweep'.pc = "span" \/ (sweep'.pc = "export" /\ sweep'.name = Stamp(Aged(t)))
  <2>1. sweep \in [pc : {"idle", "count", "span", "export", "delete"}, of : AppendOnly,
                   count : Nat, name : Name]
    BY DEF RetentionInv, RetentionTypeOK
  <2>2. CASE Span
    BY <1>2, <2>1, <2>2 DEF Span
  <2>3. CASE Count
    <3> DEFINE n == Cardinality(Aged(t))
    <3>1. n \in Nat
      <4>1. IsFiniteSet(Aged(t))
        <5>1. aged \in Int /\ Aged(t) \subseteq 1 .. aged
          BY RetentionAssumption DEF Aged, RetentionInv, RetentionTypeOK
        <5>2. IsFiniteSet(1 .. aged)
          BY <5>1, FS_Interval
        <5> QED BY <5>1, <5>2, FS_Subset
      <4> QED BY <4>1, FS_CardinalityType
    <3>2. sweep' = [sweep EXCEPT !.count = n,
                      !.pc   = IF t = "check_runs" THEN "span" ELSE "export",
                      !.name = IF t = "check_runs" THEN <<>> ELSE Stamp(Aged(t))]
      BY <1>2, <2>3 DEF Count
    <3> HIDE DEF n
    <3> QED BY <1>2, <2>1, <3>1, <3>2
  <2> QED BY <2>2, <2>3
<1>4. Aged(t)' = Aged(t)
  BY <1>1, <1>3 DEF Aged
<1>5. RetentionTypeOK' /\ NothingLost'
  BY <1>1, <1>3 DEF RetentionInv, RetentionTypeOK, NothingLost
<1>6. SweepIsNew'
  <2>1. \A u \in AppendOnly : Unswept(u)' => Unswept(u)
    BY <1>1, <1>3 DEF Unswept
  <2> QED BY <1>1, <2>1 DEF RetentionInv, SweepIsNew
<1>7. SweepFollows'
  BY <1>1, <1>3 DEF SweepFollows, Aged
<1> QED BY <1>5, <1>6, <1>7 DEF RetentionInv

\* A new file, under a name no other file of the table has.
LEMMA ExportStep ==
  ASSUME RetentionInv, _export_query
  PROVE  RetentionInv'
<1> DEFINE t == sweep.of
           file == [of |-> t, name |-> sweep.name, rows |-> Aged(t)]
<1>1. /\ t \in AppendOnly /\ Unswept(t) /\ sweep.pc = "export" /\ sweep.name = Stamp(Aged(t))
      /\ UNCHANGED <<table, aged>>
  BY DEF _export_query, Unswept, RetentionInv, RetentionTypeOK, SweepFollows
<1>2. aged \in Recordings /\ sweep.name[2] = aged
  BY <1>1, StampOf
<1>3. cold' = cold \cup {file}
  <2>1. cold' = {f \in cold : f.of # t \/ f.name # sweep.name} \cup {file}
    BY DEF _export_query, Offload
  <2>2. \A f \in cold : f.of = t => f.name # sweep.name
    BY <1>1, <1>2 DEF RetentionInv, SweepIsNew, Recordings
  <2> QED BY <2>1, <2>2
<1>4. /\ file.of = t /\ file.rows = Aged(t) /\ file.name[2] \in 1 .. aged
  BY <1>2, RetentionAssumption DEF Recordings, RetentionInv, RetentionTypeOK
<1> HIDE DEF file
<1>5. /\ sweep' \in [pc : {"idle", "count", "span", "export", "delete"}, of : AppendOnly,
                     count : Nat, name : Name]
      /\ \/ sweep'.pc = "delete" /\ sweep'.of = t
         \/ sweep'.pc = "count" /\ sweep'.of = "metric_samples" /\ t = "check_runs"
         \/ sweep'.pc = "idle"
  BY DEF _export_query, Next_table, NoSweep, RetentionInv, RetentionTypeOK, AppendOnly, Name
<1>6. RetentionTypeOK'
  BY <1>1, <1>5 DEF RetentionInv, RetentionTypeOK
<1>7. \A u \in AppendOnly : Unswept(u)' => Unswept(u) /\ u # t
  BY <1>1, <1>5 DEF Unswept
<1>8. SweepIsNew'
  BY <1>1, <1>3, <1>4, <1>7 DEF RetentionInv, SweepIsNew
<1>9. \A u \in AppendOnly : Filed(u)' = IF u = t THEN Filed(u) \cup Aged(u) ELSE Filed(u)
  <2>1. \A u : {g \in cold' : g.of = u} =
                IF u = t THEN {g \in cold : g.of = u} \cup {file} ELSE {g \in cold : g.of = u}
    BY <1>3, <1>4
  <2> QED BY <1>4, <2>1 DEF Filed
<1>10. \A u \in AppendOnly : u = t => Aged(u) \subseteq Filed(u)'
  BY <1>9
<1>11. SweepFollows'
  BY <1>1, <1>5, <1>10 DEF SweepFollows, Aged
<1>12. NothingLost'
  <2>1. \A u \in AppendOnly : table[u] \cup Filed(u) = Recordings /\ Aged(u) \subseteq table[u]
    BY DEF RetentionInv, NothingLost, Filed, Aged
  <2>2. \A u \in AppendOnly : table'[u] \cup Filed(u)' = Recordings
    BY <1>1, <1>9, <2>1
  <2> QED BY <2>2 DEF NothingLost, Filed
<1> QED BY <1>6, <1>8, <1>11, <1>12 DEF RetentionInv

\* Only rows that are filed are deleted.
LEMMA DeleteStep ==
  ASSUME RetentionInv, DeleteChunk
  PROVE  RetentionInv'
<1> DEFINE t == sweep.of
<1>1. PICK S \in SUBSET Aged(t) :
        /\ table' = [table EXCEPT ![t] = @ \ S]
        /\ sweep' = IF S = {} THEN Next_table(t) ELSE sweep
  BY DEF DeleteChunk
<1>2. t \in AppendOnly /\ sweep.pc = "delete" /\ UNCHANGED <<cold, aged>> /\ S \subseteq Filed(t)
  BY <1>1 DEF DeleteChunk, RetentionInv, RetentionTypeOK, SweepFollows
<1>3. CASE S = {}
  <2>1. table' = table
    BY <1>1, <1>2, <1>3 DEF RetentionInv, RetentionTypeOK
  <2> QED BY <1>1, <1>2, <1>3, <2>1, NextTable
<1>4. CASE S # {}
  <2>1. sweep' = sweep
    BY <1>1, <1>4
  <2>2. /\ table' \in [AppendOnly -> SUBSET Recordings] /\ table'[t] = table[t] \ S
        /\ \A u \in AppendOnly \ {t} : table'[u] = table[u]
    BY <1>1, <1>2 DEF RetentionInv, RetentionTypeOK
  <2>3. RetentionTypeOK'
    BY <1>2, <2>1, <2>2 DEF RetentionInv, RetentionTypeOK
  <2>4. ~Unswept(t) /\ S \cap ((aged + 1) .. MaxRow) = {}
    <3>1. ~Unswept(t)
      BY <1>2 DEF Unswept
    <3>2. \A x \in S : ~(x \in (aged + 1) .. MaxRow)
      BY <1>1, RetentionAssumption DEF Aged, RetentionInv, RetentionTypeOK
    <3> QED BY <3>1, <3>2
  <2>5. SweepIsNew'
    BY <1>2, <2>1, <2>2, <2>4 DEF RetentionInv, SweepIsNew, Unswept
  <2>6. Aged(t)' \subseteq Aged(t)
    BY <1>2, <2>1, <2>2 DEF Aged
  <2>7. SweepFollows'
    BY <1>2, <2>1, <2>6 DEF RetentionInv, SweepFollows, Filed
  <2>8. NothingLost'
    <3>1. \A u \in AppendOnly : table[u] \cup Filed(u) = Recordings
      BY DEF RetentionInv, NothingLost, Filed
    <3>2. \A u \in AppendOnly : table'[u] \cup Filed(u) = Recordings
      BY <1>2, <2>2, <3>1
    <3> QED BY <1>2, <3>2 DEF NothingLost, Filed
  <2> QED BY <2>3, <2>5, <2>7, <2>8 DEF RetentionInv
<1> QED BY <1>3, <1>4

LEMMA RetentionInductive == ASSUME Steady PROVE RetentionSpec => []RetentionInv
<1>1. RetentionInv /\ [RetentionNext]_retentionVars => RetentionInv'
  <2> SUFFICES ASSUME RetentionInv, [RetentionNext]_retentionVars PROVE RetentionInv'
    OBVIOUS
  <2>1. CASE UNCHANGED <<table, cold, aged, sweep>>
    BY <2>1 DEF RetentionInv, RetentionTypeOK, SweepIsNew, Unswept, SweepFollows, Aged, Filed,
                NothingLost
  <2>2. CASE OffloadError
    BY <2>2, NextTable DEF OffloadError
  <2>3. CASE StopAndStart
    <3>1. UNCHANGED <<table, cold, aged>> /\ sweep'.pc = "idle" /\ sweep' = NoSweep
      BY <2>3 DEF StopAndStart, NoSweep
    <3>2. RetentionTypeOK'
      BY <3>1 DEF NoSweep, RetentionInv, RetentionTypeOK, AppendOnly, Name
    <3> QED
      BY <3>1, <3>2 DEF RetentionInv, SweepIsNew, Unswept, SweepFollows, NothingLost
  <2>4. CASE TheHour
    BY <2>1, <2>4 DEF TheHour
  <2> QED
    BY <2>1, <2>2, <2>3, <2>4, BeginStep, CountStep, ExportStep, DeleteStep
       DEF RetentionNext, retentionVars
<1> QED
  BY <1>1, RetentionInitially, PTL DEF RetentionSpec

\* Wherever a sweep fails or ends, every row is in its table or in a file, given
\* that a row has aged between any two sweeps (offload before delete, and the
\* stamps of the files).
THEOREM SweepLosesNothing == ASSUME Steady PROVE RetentionSpec => []NothingLost
<1>1. RetentionInv => NothingLost
  BY DEF RetentionInv
<1> QED BY <1>1, RetentionInductive, PTL

-----------------------------------------------------------------------------
(* The archive of the images *)

ArchiveSpec == ArchiveInit /\ [][ArchiveNext]_archiveVars

Save == [pc : {"idle", "blob", "rows"}, path : Path \cup {Nothing},
         sha : Sha \cup {Nothing}, raced : BOOLEAN]

ArchiveTypeOK ==
  /\ day \in Nat /\ blob \subseteq Sha
  /\ image \in [Sha -> [first : Nat, last : Nat]]
  /\ index \in [Path -> Sha \cup {Nothing}]
  /\ saver \in [Saver -> Save]
  /\ \A s \in Saver : saver[s].pc # "idle" => saver[s].path \in Path /\ saver[s].sha \in Sha
  /\ prune \in [pc : {"idle", "unlink", "rows"}, stale : SUBSET Sha, left : SUBSET Sha,
                indexed : SUBSET Path]
  /\ saved \in [Path -> [sha : Sha \cup {Nothing}, day : Nat, raced : BOOLEAN]]

\* Only what the sweep selected is unlinked, and only its entries are deleted,
\* which nobody rewrites meanwhile.
SweepKnows ==
  /\ prune.left \subseteq prune.stale
  /\ \A p \in prune.indexed : index[p] \in prune.stale
  /\ prune.pc = "idle" => prune.stale = {} /\ prune.indexed = {}

\* A save that no sweep has raced will leave rows that agree with the files.
SaveKnows ==
  \A s \in Saver : ~saver[s].raced =>
    /\ saver[s].pc \in {"blob", "rows"} => saver[s].sha \notin prune.stale
    /\ saver[s].pc = "rows" => saver[s].sha \in blob

\* The path p was saved within the retention, by such a save.
Recent(p) == saved[p].day > 0 /\ saved[p].day >= Cutoff /\ ~saved[p].raced

RecentIsKept ==
  \A p \in Path :
    /\ saved[p].day <= day
    /\ Recent(p) =>
         /\ index[p] = saved[p].sha /\ index[p] \in Sha
         /\ image[index[p]].last >= saved[p].day
         /\ index[p] \in blob /\ index[p] \notin prune.stale

ArchiveInv == ArchiveTypeOK /\ SweepKnows /\ SaveKnows /\ RecentIsKept

LEMMA ArchiveInitially == ArchiveInit => ArchiveInv
  BY ArchiveAssumption DEF ArchiveInit, ArchiveInv, ArchiveTypeOK, SweepKnows, SaveKnows,
     RecentIsKept, Recent, NoSave, NoPrune, Save

\* A save, up to its rows.
LEMMA SaveBeginsStep ==
  ASSUME ArchiveInv, NEW s \in Saver,
         \/ _write_blob(s) \/ SaveFails(s) \/ \E p \in Path, h \in Sha : SaveBegins(s, p, h)
  PROVE  ArchiveInv'
<1> USE DEF ArchiveInv
<1>1. /\ UNCHANGED <<day, image, index, prune, saved>>
      /\ blob \subseteq blob' /\ blob' \subseteq Sha
      /\ \A r \in Saver \ {s} : saver'[r] = saver[r]
      /\ saver' \in [Saver -> Save]
      /\ saver'[s].pc # "idle" => saver'[s].path \in Path /\ saver'[s].sha \in Sha
      /\ ~saver'[s].raced =>
           /\ saver'[s].pc \in {"blob", "rows"} => saver'[s].sha \notin prune.stale
           /\ saver'[s].pc = "rows" => saver'[s].sha \in blob'
  <2>1. CASE _write_blob(s)
    <3>1. saver[s] \in Save /\ saver[s].sha \in Sha /\ saver[s].path \in Path
      BY <2>1 DEF _write_blob, ArchiveTypeOK
    <3>2. saver' = [saver EXCEPT ![s] = [saver[s] EXCEPT !.pc = "rows"]]
      BY <2>1 DEF _write_blob, ArchiveTypeOK
    <3>3. [saver[s] EXCEPT !.pc = "rows"] \in Save
      BY <3>1 DEF Save
    <3>4. saver'[s] = [saver[s] EXCEPT !.pc = "rows"]
      BY <3>2 DEF ArchiveTypeOK
    <3> QED
      BY <2>1, <3>1, <3>2, <3>3, <3>4 DEF _write_blob, ArchiveTypeOK, SaveKnows, Save
  <2>2. CASE SaveFails(s)
    BY <2>2 DEF SaveFails, ArchiveTypeOK, NoSave, Save
  <2>3. CASE \E p \in Path, h \in Sha : SaveBegins(s, p, h)
    <3>1. PICK p \in Path, h \in Sha : SaveBegins(s, p, h)
      BY <2>3
    <3> DEFINE new == [pc |-> "blob", path |-> p, sha |-> h, raced |-> h \in prune.stale]
    <3>2. saver' = [saver EXCEPT ![s] = new] /\ UNCHANGED <<day, blob, image, index, prune, saved>>
      BY <3>1 DEF SaveBegins
    <3>3. (h \in prune.stale) \in BOOLEAN
      OBVIOUS
    <3>4. new \in Save
      BY <3>3 DEF Save
    <3>5. /\ saver' \in [Saver -> Save] /\ saver'[s] = new
          /\ \A r \in Saver \ {s} : saver'[r] = saver[r]
      BY <3>2, <3>4 DEF ArchiveTypeOK
    <3> QED
      BY <3>2, <3>5 DEF ArchiveTypeOK
  <2> QED BY <2>1, <2>2, <2>3
<1>2. ArchiveTypeOK'
  BY <1>1 DEF ArchiveTypeOK
<1>3. SweepKnows' /\ SaveKnows'
  BY <1>1 DEF SweepKnows, SaveKnows
<1>4. RecentIsKept'
  BY <1>1 DEF RecentIsKept, Recent, Cutoff
<1> QED BY <1>2, <1>3, <1>4

\* The rows of a save are committed.
LEMMA SaveRowsStep ==
  ASSUME ArchiveInv, NEW s \in Saver, SaveRows(s)
  PROVE  ArchiveInv'
<1> USE DEF ArchiveInv
<1>0. PICK h \in Sha, p \in Path : h = saver[s].sha /\ p = saver[s].path
  BY DEF SaveRows, ArchiveTypeOK
<1>1. /\ saver[s].pc = "rows" /\ p \notin prune.indexed
      /\ index' = [index EXCEPT ![p] = h]
      /\ saver' = [saver EXCEPT ![s] = NoSave]
      /\ UNCHANGED <<day, blob, prune>>
  BY <1>0 DEF SaveRows
<1>2. /\ image' \in [Sha -> [first : Nat, last : Nat]]
      /\ image'[h].last = day /\ \A g \in Sha \ {h} : image'[g] = image[g]
  <2>1. image' = [image EXCEPT ![h] =
          [first |-> IF image[h].first = 0 THEN day ELSE image[h].first, last |-> day]]
    BY <1>0 DEF SaveRows
  <2> DEFINE new == [first |-> IF image[h].first = 0 THEN day ELSE image[h].first, last |-> day]
  <2>2. new \in [first : Nat, last : Nat] /\ new.last = day
    BY DEF ArchiveTypeOK
  <2> QED BY <2>1, <2>2 DEF ArchiveTypeOK
<1>3. /\ saved' = [saved EXCEPT ![p] = [sha |-> h, day |-> day, raced |-> saver[s].raced]]
      /\ saver[s].raced \in BOOLEAN
  BY <1>0 DEF SaveRows, ArchiveTypeOK, Save
<1>4. saved' \in [Path -> [sha : Sha \cup {Nothing}, day : Nat, raced : BOOLEAN]]
  <2>1. [sha |-> h, day |-> day, raced |-> saver[s].raced]
          \in [sha : Sha \cup {Nothing}, day : Nat, raced : BOOLEAN]
    BY <1>3 DEF ArchiveTypeOK
  <2> QED BY <1>3, <2>1 DEF ArchiveTypeOK
<1>5. NoSave \in Save /\ NoSave.pc = "idle"
  BY DEF NoSave, Save
<1>6. ArchiveTypeOK'
  BY <1>1, <1>2, <1>4, <1>5 DEF ArchiveTypeOK
<1>7. SweepKnows' /\ SaveKnows'
  BY <1>1, <1>5 DEF SweepKnows, SaveKnows, ArchiveTypeOK
<1>8. RecentIsKept'
  <2> SUFFICES ASSUME NEW q \in Path
               PROVE  /\ saved'[q].day <= day'
                      /\ Recent(q)' =>
                           /\ index'[q] = saved'[q].sha /\ index'[q] \in Sha
                           /\ image'[index'[q]].last >= saved'[q].day
                           /\ index'[q] \in blob' /\ index'[q] \notin prune'.stale
    BY DEF RecentIsKept
  <2>1. CASE q = p
    <3>1. /\ saved'[q].sha = h /\ saved'[q].day = day /\ saved'[q].raced = saver[s].raced
          /\ index'[q] = h
      BY <1>1, <1>3, <2>1 DEF ArchiveTypeOK
    <3>2. ~saver[s].raced => h \in blob /\ h \notin prune.stale
      BY <1>0, <1>1 DEF SaveKnows
    <3> QED BY <1>1, <1>2, <3>1, <3>2 DEF Recent, ArchiveTypeOK
  <2>2. CASE q # p
    <3>1. saved'[q] = saved[q] /\ index'[q] = index[q]
      BY <1>1, <1>3, <2>2 DEF ArchiveTypeOK
    <3>2. \A g \in Sha : image'[g].last = image[g].last \/ (g = h /\ image'[g].last = day)
      BY <1>2
    <3> QED BY <1>1, <3>1, <3>2 DEF RecentIsKept, Recent, Cutoff, ArchiveTypeOK
  <2> QED BY <2>1, <2>2
<1> QED BY <1>6, <1>7, <1>8

\* The sweep selects: nothing that was saved within the retention by an unraced
\* save, and it races every save whose hash it selects.
LEMMA SelectStep ==
  ASSUME ArchiveInv, PruneSelects
  PROVE  ArchiveInv'
<1> USE DEF ArchiveInv
<1>1. UNCHANGED <<day, blob, image, index, saved>>
      /\ saver' = [s \in Saver |-> [saver[s] EXCEPT !.raced = @ \/ saver[s].sha \in Stale]]
      /\ prune.pc = "idle"
  BY DEF PruneSelects
<1>2. prune' = [pc |-> "unlink", stale |-> Stale, left |-> Stale, indexed |-> {}]
  BY DEF PruneSelects, NoPrune
<1>3. Stale \subseteq Sha
  BY DEF Stale
<1>4. \A s \in Saver :
        /\ saver'[s] \in Save /\ saver'[s].pc = saver[s].pc /\ saver'[s].path = saver[s].path
        /\ saver'[s].sha = saver[s].sha
        /\ ~saver'[s].raced => ~saver[s].raced /\ saver[s].sha \notin Stale
  <2> SUFFICES ASSUME NEW s \in Saver
               PROVE  /\ saver'[s] \in Save /\ saver'[s].pc = saver[s].pc
                      /\ saver'[s].path = saver[s].path /\ saver'[s].sha = saver[s].sha
                      /\ ~saver'[s].raced => ~saver[s].raced /\ saver[s].sha \notin Stale
    OBVIOUS
  <2>1. saver[s] \in Save
    BY DEF ArchiveTypeOK
  <2>2. (saver[s].raced \/ saver[s].sha \in Stale) \in BOOLEAN
    BY <2>1 DEF Save
  <2>3. saver'[s] = [saver[s] EXCEPT !.raced = saver[s].raced \/ saver[s].sha \in Stale]
    BY <1>1
  <2> QED BY <2>1, <2>2, <2>3 DEF Save
<1>5. ArchiveTypeOK'
  BY <1>1, <1>2, <1>3, <1>4 DEF ArchiveTypeOK
<1>6. SweepKnows' /\ SaveKnows'
  <2>1. prune'.stale = Stale /\ prune'.left = Stale /\ prune'.indexed = {} /\ prune'.pc = "unlink"
    BY <1>2
  <2> QED BY <1>1, <1>4, <2>1 DEF SweepKnows, SaveKnows
<1>7. \A p \in Path : Recent(p) => index[p] \notin Stale
  <2> SUFFICES ASSUME NEW p \in Path, Recent(p) PROVE ~(image[index[p]].last < Cutoff)
    BY DEF Stale
  <2> QED
    BY ArchiveAssumption DEF RecentIsKept, Recent, Cutoff, ArchiveTypeOK
<1>8. RecentIsKept'
  BY <1>1, <1>2, <1>7 DEF RecentIsKept, Recent, Cutoff
<1> QED BY <1>5, <1>6, <1>8

\* It unlinks, deletes and ends.
LEMMA SweepStep ==
  ASSUME ArchiveInv, DeleteIndexed \/ DeleteImages \/ PruneFails \/ \E h \in Sha : Unlink(h)
  PROVE  ArchiveInv'
<1> USE DEF ArchiveInv
<1>1. CASE \E h \in Sha : Unlink(h)
  <2>1. PICK h \in Sha : Unlink(h)
    BY <1>1
  <2>2. /\ UNCHANGED <<day, image, index, saver, saved>>
        /\ h \in prune.stale /\ blob \ {h} \subseteq blob' /\ blob' \subseteq blob
    BY <2>1 DEF Unlink, SweepKnows
  <2>3. /\ prune'.pc = prune.pc /\ prune'.stale = prune.stale /\ prune'.indexed = prune.indexed
        /\ prune'.left \subseteq prune.left
        /\ prune' \in [pc : {"idle", "unlink", "rows"}, stale : SUBSET Sha, left : SUBSET Sha,
                        indexed : SUBSET Path]
    BY <2>1 DEF Unlink, ArchiveTypeOK
  <2>4. ArchiveTypeOK'
    BY <2>2, <2>3 DEF ArchiveTypeOK
  <2>5. SweepKnows' /\ SaveKnows'
    BY <2>2, <2>3 DEF SweepKnows, SaveKnows
  <2>6. RecentIsKept'
    BY <2>2, <2>3 DEF RecentIsKept, Recent, Cutoff
  <2> QED BY <2>4, <2>5, <2>6
<1>2. CASE DeleteIndexed
  <2>1. /\ UNCHANGED <<day, blob, image, index, saver, saved>>
        /\ prune.pc = "unlink"
        /\ prune' = [prune EXCEPT !.pc = "rows",
                      !.indexed = {p \in Path : index[p] \in prune.stale}]
    BY <1>2 DEF DeleteIndexed
  <2>2. /\ prune'.pc = "rows" /\ prune'.stale = prune.stale /\ prune'.left = prune.left
        /\ prune'.indexed = {p \in Path : index[p] \in prune.stale}
        /\ prune' \in [pc : {"idle", "unlink", "rows"}, stale : SUBSET Sha, left : SUBSET Sha,
                        indexed : SUBSET Path]
    BY <2>1 DEF ArchiveTypeOK
  <2>3. ArchiveTypeOK'
    BY <2>1, <2>2 DEF ArchiveTypeOK
  <2>4. SweepKnows' /\ SaveKnows' /\ RecentIsKept'
    BY <2>1, <2>2 DEF SweepKnows, SaveKnows, RecentIsKept, Recent, Cutoff
  <2> QED BY <2>3, <2>4
<1>3. CASE DeleteImages
  <2>1. /\ UNCHANGED <<day, blob, saver, saved>> /\ prune' = NoPrune
        /\ index' = [p \in Path |-> IF p \in prune.indexed THEN Nothing ELSE index[p]]
        /\ image' = [h \in Sha |->
             IF h \in prune.stale THEN [first |-> 0, last |-> 0] ELSE image[h]]
    BY <1>3 DEF DeleteImages
  <2>2. ArchiveTypeOK'
    BY <2>1 DEF ArchiveTypeOK, NoPrune
  <2>3. SweepKnows' /\ SaveKnows'
    BY <2>1 DEF SweepKnows, SaveKnows, NoPrune
  <2>4. RecentIsKept'
    <3>1. \A p \in Path : Recent(p) => p \notin prune.indexed /\ index[p] \notin prune.stale
      BY DEF RecentIsKept, SweepKnows
    <3> QED BY <2>1, <3>1 DEF RecentIsKept, Recent, Cutoff, NoPrune
  <2> QED BY <2>2, <2>3, <2>4
<1>4. CASE PruneFails
  <2>1. UNCHANGED <<day, blob, image, index, saver, saved>> /\ prune' = NoPrune
    BY <1>4 DEF PruneFails
  <2>2. ArchiveTypeOK'
    BY <2>1 DEF ArchiveTypeOK, NoPrune
  <2> QED
    BY <2>1, <2>2 DEF SweepKnows, SaveKnows, RecentIsKept, Recent, Cutoff, NoPrune
<1> QED BY <1>1, <1>2, <1>3, <1>4

LEMMA ArchiveInductive == ArchiveSpec => []ArchiveInv
<1>1. ArchiveInv /\ [ArchiveNext]_archiveVars => ArchiveInv'
  <2> SUFFICES ASSUME ArchiveInv, [ArchiveNext]_archiveVars PROVE ArchiveInv'
    OBVIOUS
  <2>1. CASE UNCHANGED archiveVars
    BY <2>1 DEF archiveVars, ArchiveInv, ArchiveTypeOK, SweepKnows, SaveKnows, RecentIsKept,
                Recent, Cutoff
  <2>2. CASE NextDay
    <3>1. day' = day + 1 /\ UNCHANGED <<blob, image, index, saver, prune, saved>>
      BY <2>2 DEF NextDay
    <3>2. ArchiveTypeOK' /\ SweepKnows' /\ SaveKnows'
      BY <3>1 DEF ArchiveInv, ArchiveTypeOK, SweepKnows, SaveKnows
    <3>3. \A p \in Path : Recent(p)' => Recent(p)
      BY <3>1, ArchiveAssumption DEF Recent, Cutoff, ArchiveInv, ArchiveTypeOK
    <3>4. RecentIsKept'
      BY <3>1, <3>3 DEF ArchiveInv, RecentIsKept, ArchiveTypeOK
    <3> QED BY <3>2, <3>4 DEF ArchiveInv
  <2> QED
    BY <2>1, <2>2, SaveBeginsStep, SaveRowsStep, SelectStep, SweepStep DEF ArchiveNext
<1> QED
  BY <1>1, ArchiveInitially, PTL DEF ArchiveSpec

\* What was saved within the retention can be looked up, unless the save overlapped
\* the very sweep that had selected its hash (save_image against prune_archive).
THEOREM WhatRecursStays == ArchiveSpec => []RecurringFrameStays
<1>1. ArchiveInv => RecurringFrameStays
  BY ArchiveAssumption DEF ArchiveInv, ArchiveTypeOK, RecentIsKept, Recent,
     RecurringFrameStays, lookup_by_source
<1> QED BY <1>1, ArchiveInductive, PTL
-----------------------------------------------------------------------------
(* The requests for frames, and the fetches they share *)

ProxySpec == ProxyInit /\ [][ProxyNext]_proxyVars

Request ==
  [pc : {"idle", "list", "memory", "archive", "wait"}, key : Nat, frame : Position,
   archive_only : BOOLEAN, found : Nat]

\* The memory is left out: its order and its limit play no part here.
ProxyTypeOK ==
  /\ loop \in {"tilt", "product", "xband"}
  /\ listing \in [has : SUBSET Key, fresh : BOOLEAN, refreshing : BOOLEAN]
  /\ newest \in _TILT_FRAMES..MaxCapture
  /\ steps \in [of : [Position -> Nat], fresh : BOOLEAN]
  /\ viewer \in [Viewer -> Request]
  /\ archived \in [Key -> Nat]
  /\ negative \in SUBSET Key
  /\ inflight \in [Key -> Position \cup {-1}]
  /\ saving \in SUBSET [key : Key, holds : Key]

\* Whatever is asked for has a name: the list that is used holds captures.
Listed == steps.fresh => \A f \in Position : steps.of[f] \in Key

Named == \A r \in Viewer : viewer[r].pc \in {"memory", "archive", "wait"} => viewer[r].key \in Key

ProxyInv == ProxyTypeOK /\ Listed /\ Named /\ WaitersHaveAFetch

\* A set of captures has a last one.
LEMMA LastCapture ==
  ASSUME NEW m \in Nat, NEW S \in SUBSET (1..m), S # {}
  PROVE  Max(S) \in S
<1> DEFINE T == {m - s : s \in S}
<1>1. T \subseteq Nat /\ T # {}
  <2>1. PICK s \in S : TRUE
    OBVIOUS
  <2>2. m - s \in T
    OBVIOUS
  <2>3. \A z \in S : m - z \in Nat
    OBVIOUS
  <2> QED BY <2>2, <2>3
<1> DEFINE R == OpToRel(<, Nat)
<1>2. IsWellFoundedOn(R, Nat)
  BY NatLessThanWellFounded
<1>3. PICK x \in T : \A y \in T : ~(<<y, x>> \in R)
  <2> HIDE DEF T, R
  <2> QED BY <1>1, <1>2, WFMin
<1>4. \A y \in T : ~(y < x)
  BY <1>1, <1>3 DEF OpToRel
<1>5. PICK s \in S : x = m - s
  BY <1>3
<1>6. ASSUME NEW y \in S PROVE s >= y
  <2>1. m - y \in T
    OBVIOUS
  <2>2. ~(m - y < m - s)
    BY <1>4, <1>5, <2>1
  <2> QED BY <2>2
<1>7. \E z \in S : \A y \in S : z >= y
  BY <1>6
<1> HIDE DEF T, R
<1> QED BY <1>7 DEF Max

LEMMA Captures ==
  ASSUME ProxyTypeOK
  PROVE  /\ 0 \in Position /\ -1 \notin Position /\ Position \subseteq Nat /\ Key \subseteq Nat
         /\ Window # {} /\ Window \subseteq Key
         /\ \A f \in Position : newest - f \in Key
<1>1. /\ _TILT_FRAMES \in Nat \ {0} /\ MaxCapture \in Nat
      /\ newest \in Nat /\ _TILT_FRAMES <= newest /\ newest <= MaxCapture
  BY ProxyAssumption DEF ProxyTypeOK
<1>2. newest \in Window /\ Window \subseteq Key
  BY <1>1 DEF Window, Key
<1>3. 0 \in Position /\ -1 \notin Position /\ Position \subseteq Nat
  BY <1>1 DEF Position
<1>4. Key \subseteq Nat
  BY <1>1 DEF Key
<1>5. \A f \in Position : newest - f \in Key
  BY <1>1 DEF Position, Key
<1> QED BY <1>2, <1>3, <1>4, <1>5

\* A request that asks, goes on or goes away takes nothing from those who wait.
LEMMA RequestStep ==
  ASSUME ProxyInv, NEW r \in Viewer, NEW q \in Request,
         q.pc # "wait", q.pc \in {"memory", "archive"} => q.key \in Key,
         viewer' = [viewer EXCEPT ![r] = q],
         listing' \in [has : SUBSET Key, fresh : BOOLEAN, refreshing : BOOLEAN],
         steps' \in [of : [Position -> Nat], fresh : BOOLEAN], Listed',
         UNCHANGED <<loop, newest, archived, negative, inflight, saving>>
  PROVE  ProxyInv'
<1>1. viewer' \in [Viewer -> Request]
  BY DEF ProxyInv, ProxyTypeOK
<1>2. \A v \in Viewer : viewer'[v] = IF v = r THEN q ELSE viewer[v]
  BY DEF ProxyInv, ProxyTypeOK
<1>3. ProxyTypeOK'
  BY <1>1, Zenon DEF ProxyInv, ProxyTypeOK, Window
<1>4. Named' /\ WaitersHaveAFetch'
  BY <1>2 DEF ProxyInv, Named, WaitersHaveAFetch
<1> QED BY <1>3, <1>4 DEF ProxyInv

\* The same of a step that leaves the lists alone.
LEMMA QuietStep ==
  ASSUME ProxyInv, NEW r \in Viewer, NEW q \in Request,
         q.pc # "wait", q.pc \in {"memory", "archive"} => q.key \in Key,
         viewer' = [viewer EXCEPT ![r] = q],
         UNCHANGED <<listing, steps, loop, newest, archived, negative, inflight, saving>>
  PROVE  ProxyInv'
<1>1. /\ listing' \in [has : SUBSET Key, fresh : BOOLEAN, refreshing : BOOLEAN]
      /\ steps' \in [of : [Position -> Nat], fresh : BOOLEAN]
      /\ Listed'
  BY DEF ProxyInv, ProxyTypeOK, Listed
<1> QED BY <1>1, RequestStep

LEMMA AskedIsRequest ==
  ASSUME NEW k \in Key, Key \subseteq Nat, NEW f \in Position, NEW only \in BOOLEAN
  PROVE  [pc |-> "memory", key |-> k, frame |-> f, archive_only |-> only, found |-> 0] \in Request
BY DEF Request

LEMMA NoRequestIsRequest ==
  ASSUME ProxyTypeOK
  PROVE  NoRequest \in Request /\ NoRequest.pc = "idle"
BY Captures DEF Request, NoRequest

\* A key is asked for, be it of the list that is used or of a frame's name.
LEMMA AskStep ==
  ASSUME ProxyInv, NEW r \in Viewer, NEW k \in Key, NEW f \in Position, NEW only \in BOOLEAN,
         Asked(r, k, f, only),
         listing' \in [has : SUBSET Key, fresh : BOOLEAN, refreshing : BOOLEAN],
         steps' \in [of : [Position -> Nat], fresh : BOOLEAN], Listed',
         UNCHANGED <<loop, newest, archived, negative, inflight, saving>>
  PROVE  ProxyInv'
<1> DEFINE q == [pc |-> "memory", key |-> k, frame |-> f, archive_only |-> only, found |-> 0]
<1>1. q \in Request /\ q.pc = "memory" /\ q.key = k
  BY Captures, AskedIsRequest DEF ProxyInv
<1>2. viewer' = [viewer EXCEPT ![r] = q]
  BY DEF Asked
<1> HIDE DEF q
<1> QED BY <1>1, <1>2, RequestStep

LEMMA TiltStep ==
  ASSUME ProxyInv, NEW r \in Viewer,
         \/ \E f \in Position : AskFrame(r, f)
         \/ \E c \in Key : AskMoment(r, c)
  PROVE  ProxyInv'
<1>a. /\ ProxyTypeOK /\ steps \in [of : [Position -> Nat], fresh : BOOLEAN]
      /\ Position \subseteq Nat /\ Key \subseteq Nat /\ 0 \in Position
      /\ \A f \in Position : newest - f \in Key
  BY Captures DEF ProxyInv, ProxyTypeOK
<1> DEFINE raw == _tilt_steps_raw
<1>b. raw \in [Position -> Nat] /\ \A f \in Position : raw[f] \in Key
  <2>1. CASE steps.fresh
    BY <1>a, <2>1 DEF _tilt_steps_raw, ProxyInv, Listed
  <2>2. CASE ~steps.fresh
    BY <1>a, <2>2 DEF _tilt_steps_raw
  <2> QED BY <2>1, <2>2
<1> HIDE DEF raw
<1>c. ASSUME steps' = [of |-> raw, fresh |-> TRUE], UNCHANGED listing
      PROVE  /\ steps' \in [of : [Position -> Nat], fresh : BOOLEAN] /\ Listed'
             /\ listing' \in [has : SUBSET Key, fresh : BOOLEAN, refreshing : BOOLEAN]
  BY <1>b, <1>c DEF Listed, ProxyInv, ProxyTypeOK, Key, Position
<1>1. ASSUME NEW f \in Position, AskFrame(r, f) PROVE ProxyInv'
  <2>1. /\ steps' = [of |-> raw, fresh |-> TRUE] /\ Asked(r, raw[f], f, FALSE)
        /\ UNCHANGED <<loop, listing, newest, archived, negative, inflight, saving>>
    BY <1>1 DEF AskFrame, listVars, raw
  <2> QED BY <1>b, <1>c, <2>1, AskStep
<1>2. ASSUME NEW c \in Key, AskMoment(r, c) PROVE ProxyInv'
  <2>1. /\ steps' = [of |-> raw, fresh |-> TRUE]
        /\ UNCHANGED <<loop, listing, newest, archived, negative, inflight, saving>>
    BY <1>2 DEF AskMoment, listVars, raw
  <2>2. CASE UNCHANGED viewer
    BY <1>c, <2>1, <2>2, Captures
    DEF ProxyInv, ProxyTypeOK, Named, WaitersHaveAFetch
  <2>3. ASSUME NEW k \in _nearest_archived_tilt(c), Asked(r, k, 0, TRUE) PROVE ProxyInv'
    <3>1. k \in Key
      BY <2>3 DEF _nearest_archived_tilt
    <3> QED BY <1>a, <1>c, <2>1, <2>3, <3>1, AskStep
  <2> QED BY <1>2, <2>2, <2>3 DEF AskMoment
<1> QED BY <1>1, <1>2

LEMMA NamedFrameStep ==
  ASSUME ProxyInv, NEW r \in Viewer,
         \/ product_image_by_step(r) \/ latest_product_image(r) \/ latest_xband_scan(r)
         \/ _xband_listing_local(r) \/ _pd_fetch(r) \/ AskCold(r)
         \/ \E k \in Key : image_by_source(r, k)
  PROVE  ProxyInv'
<1>a. /\ ProxyTypeOK /\ 0 \in Position /\ Window \in SUBSET Key /\ Key \subseteq Nat
      /\ listing \in [has : SUBSET Key, fresh : BOOLEAN, refreshing : BOOLEAN]
      /\ viewer \in [Viewer -> Request] /\ viewer[r] \in Request
      /\ NoRequest \in Request /\ NoRequest.pc = "idle"
  BY Captures, NoRequestIsRequest DEF ProxyInv, ProxyTypeOK
<1>b. ASSUME UNCHANGED steps
      PROVE  steps' \in [of : [Position -> Nat], fresh : BOOLEAN] /\ Listed'
  BY <1>b DEF ProxyInv, ProxyTypeOK, Listed
<1>1. ASSUME NEW names \in SUBSET Key, _product_steps_cached(r, names) PROVE ProxyInv'
  <2>1. PICK k \in names : Asked(r, k, 0, FALSE)
    BY <1>1 DEF _product_steps_cached
  <2>2. /\ UNCHANGED <<loop, newest, steps, archived, negative, inflight, saving>>
        /\ listing' = [listing EXCEPT !.refreshing = listing.refreshing \/ ~listing.fresh]
    BY <1>1 DEF _product_steps_cached
  <2>3. listing' \in [has : SUBSET Key, fresh : BOOLEAN, refreshing : BOOLEAN]
    BY <1>a, <2>2
  <2> QED BY <1>a, <1>b, <2>1, <2>2, <2>3, AskStep
<1>2. CASE product_image_by_step(r) \/ latest_xband_scan(r)
  BY <1>1, <1>2, <1>a DEF product_image_by_step, latest_xband_scan
<1>3. CASE latest_product_image(r)
  <2>1. listing.has \in SUBSET (1..MaxCapture) /\ listing.has # {} /\ MaxCapture \in Nat
    BY <1>3, <1>a, ProxyAssumption DEF latest_product_image, Key
  <2>2. {Max(listing.has)} \in SUBSET Key
    BY <2>1, LastCapture DEF Key
  <2> QED BY <1>1, <1>3, <2>2 DEF latest_product_image
<1>4. CASE _xband_listing_local(r)
  <2>1. /\ \E k \in Key : Asked(r, k, 0, FALSE)
        /\ UNCHANGED <<loop, newest, steps, archived, negative, inflight, saving>>
        /\ listing' = [has |-> {k \in Key : archived[k] # 0}, fresh |-> FALSE, refreshing |-> TRUE]
    BY <1>4 DEF _xband_listing_local
  <2>2. listing' \in [has : SUBSET Key, fresh : BOOLEAN, refreshing : BOOLEAN]
    BY <2>1
  <2> QED BY <1>a, <1>b, <2>1, <2>2, AskStep
<1>5. CASE _pd_fetch(r)
  <2>1. UNCHANGED <<loop, newest, steps, archived, negative, inflight, saving>>
    BY <1>5 DEF _pd_fetch
  <2>2. CASE /\ \E k \in Window : Asked(r, k, 0, FALSE)
             /\ listing' = [listing EXCEPT !.has = Window, !.fresh = TRUE]
    <3>1. listing' \in [has : SUBSET Key, fresh : BOOLEAN, refreshing : BOOLEAN]
      BY <1>a, <2>2
    <3>2. PICK k \in Key : Asked(r, k, 0, FALSE)
      BY <1>a, <2>2
    <3> QED BY <1>a, <1>b, <2>1, <3>1, <3>2, AskStep
  <2>3. CASE viewer' = [viewer EXCEPT ![r] = NoRequest] /\ UNCHANGED listing
    BY <1>a, <2>1, <2>3, QuietStep
  <2> QED BY <1>5, <2>2, <2>3 DEF _pd_fetch
<1>6. CASE AskCold(r)
  <2> DEFINE q == [viewer[r] EXCEPT !.pc = "list"]
  <2>1. q \in Request /\ q.pc = "list"
    BY <1>a DEF Request
  <2>2. viewer' = [viewer EXCEPT ![r] = q]
    BY <1>6, <1>a DEF AskCold
  <2>3. UNCHANGED <<listing, steps, loop, newest, archived, negative, inflight, saving>>
    BY <1>6 DEF AskCold, listVars
  <2> HIDE DEF q
  <2> QED BY <2>1, <2>2, <2>3, QuietStep
<1>7. ASSUME NEW k \in Key, image_by_source(r, k) PROVE ProxyInv'
  <2>1. /\ Asked(r, k, 0, FALSE)
        /\ UNCHANGED <<listing, loop, newest, steps, archived, negative, inflight, saving>>
    BY <1>7 DEF image_by_source, listVars
  <2>2. listing' \in [has : SUBSET Key, fresh : BOOLEAN, refreshing : BOOLEAN]
    BY <1>a, <2>1
  <2> QED BY <1>a, <1>b, <2>1, <2>2, AskStep
<1> QED BY <1>2, <1>3, <1>4, <1>5, <1>6, <1>7

LEMMA ServeStep ==
  ASSUME ProxyInv, NEW r \in Viewer,
         FromMemory(r) \/ FromArchive(r) \/ NotServed(r) \/ Leave(r)
  PROVE  ProxyInv'
<1>a. /\ viewer \in [Viewer -> Request] /\ viewer[r] \in Request /\ archived \in [Key -> Nat]
      /\ NoRequest \in Request /\ NoRequest.pc = "idle"
  BY NoRequestIsRequest DEF ProxyInv, ProxyTypeOK
<1>b. UNCHANGED <<listing, steps, loop, newest, archived, negative, inflight, saving>>
  BY DEF FromMemory, FromArchive, NotServed, Leave, listVars
<1>1. CASE viewer' = [viewer EXCEPT ![r] = NoRequest]
  BY <1>a, <1>b, <1>1, QuietStep
<1>2. CASE FromMemory(r) /\ viewer' # [viewer EXCEPT ![r] = NoRequest]
  <2> DEFINE k == viewer[r].key
             q == [viewer[r] EXCEPT !.pc = "archive", !.found = archived[k]]
  <2>1. k \in Key /\ viewer[r].pc = "memory"
    BY <1>2 DEF FromMemory, ProxyInv, Named
  <2>2. q \in Request /\ q.pc = "archive" /\ q.key = k
    BY <1>a, <2>1 DEF Request
  <2>3. viewer' = [viewer EXCEPT ![r].pc = "archive", ![r].found = archived[k]]
    BY <1>2 DEF FromMemory
  <2>4. viewer' = [viewer EXCEPT ![r] = q]
    BY <1>a, <2>3
  <2> HIDE DEF q
  <2> QED BY <1>b, <2>1, <2>2, <2>4, QuietStep
<1> QED BY <1>1, <1>2 DEF FromArchive, NotServed, Leave

\* Who joins a fetch, or starts it, waits for one that runs.
LEMMA JoinStep ==
  ASSUME ProxyInv, NEW r \in Viewer, FromOrigin(r)
  PROVE  ProxyInv'
<1> DEFINE k == viewer[r].key
           q == [viewer[r] EXCEPT !.pc = "wait", !.frame = 0]
<1>a. /\ ProxyTypeOK /\ viewer \in [Viewer -> Request] /\ viewer[r] \in Request
      /\ inflight \in [Key -> Position \cup {-1}]
      /\ 0 \in Position /\ -1 \notin Position
  BY Captures DEF ProxyInv, ProxyTypeOK
<1>b. k \in Key /\ viewer[r].frame \in Position
  BY <1>a DEF FromOrigin, ProxyInv, Named, Request
<1>1. q \in Request /\ q.pc = "wait" /\ q.key = k
  BY <1>a DEF Request
<1>2. viewer' = [viewer EXCEPT ![r] = q]
  <2>1. viewer' = [viewer EXCEPT ![r].pc = "wait", ![r].frame = 0]
    BY DEF FromOrigin
  <2> QED BY <1>a, <2>1
<1> HIDE DEF q
<1>3. /\ viewer' \in [Viewer -> Request]
      /\ \A v \in Viewer : viewer'[v] = IF v = r THEN q ELSE viewer[v]
  BY <1>a, <1>1, <1>2
<1>4. inflight' = [inflight EXCEPT ![k] = IF inflight[k] = -1 THEN viewer[r].frame ELSE inflight[k]]
  BY DEF FromOrigin
<1>5. /\ inflight' \in [Key -> Position \cup {-1}]
      /\ inflight'[k] # -1
      /\ \A j \in Key : inflight[j] # -1 => inflight'[j] # -1
  BY <1>a, <1>b, <1>4
<1>6. UNCHANGED <<loop, listing, newest, steps, archived, negative, saving>>
  BY DEF FromOrigin, listVars
<1>7. ProxyTypeOK' /\ Listed'
  BY <1>3, <1>5, <1>6 DEF ProxyInv, ProxyTypeOK, Listed, Window, Key, Position
<1>8. Named' /\ WaitersHaveAFetch'
  BY <1>b, <1>1, <1>3, <1>5 DEF ProxyInv, Named, WaitersHaveAFetch
<1> QED BY <1>7, <1>8 DEF ProxyInv

\* A fetch that ends answers everybody who waits for its key.
LEMMA FetchStep ==
  ASSUME ProxyInv, NEW k \in Key, Fetched(k) \/ FetchFails(k)
  PROVE  ProxyInv'
<1>a. /\ ProxyTypeOK /\ viewer \in [Viewer -> Request]
      /\ inflight \in [Key -> Position \cup {-1}] /\ Window \subseteq Key
      /\ NoRequest \in Request /\ NoRequest.pc = "idle"
  BY Captures, NoRequestIsRequest DEF ProxyInv, ProxyTypeOK
<1>1. /\ inflight' = [inflight EXCEPT ![k] = -1]
      /\ viewer' = [v \in Viewer |->
           IF viewer[v].pc = "wait" /\ viewer[v].key = k THEN NoRequest ELSE viewer[v]]
      /\ UNCHANGED <<loop, listing, newest, steps, archived>>
  BY DEF Fetched, FetchFails, Served, listVars
<1>2. negative' \in SUBSET Key /\ saving' \in SUBSET [key : Key, holds : Key]
  <2>1. CASE Fetched(k)
    <3>1. PICK c \in Window : saving' = saving \cup {[key |-> k, holds |-> c]}
      BY <2>1 DEF Fetched
    <3> QED BY <1>a, <2>1, <3>1 DEF Fetched, ProxyTypeOK
  <2>2. CASE FetchFails(k)
    BY <1>a, <2>2 DEF FetchFails, ProxyTypeOK
  <2> QED BY <2>1, <2>2
<1>3. viewer' \in [Viewer -> Request] /\ inflight' \in [Key -> Position \cup {-1}]
  BY <1>a, <1>1
<1>4. ProxyTypeOK' /\ Listed'
  BY <1>1, <1>2, <1>3 DEF ProxyInv, ProxyTypeOK, Listed, Key, Position
<1>5. ASSUME NEW v \in Viewer
      PROVE  /\ viewer'[v].pc \in {"memory", "archive", "wait"} => viewer'[v].key \in Key
             /\ viewer'[v].pc = "wait" => inflight'[viewer'[v].key] # -1
  <2>1. CASE viewer'[v] = NoRequest
    BY <1>a, <2>1
  <2>2. CASE viewer'[v] = viewer[v] /\ ~(viewer[v].pc = "wait" /\ viewer[v].key = k)
    BY <1>a, <1>1, <2>2 DEF ProxyInv, Named, WaitersHaveAFetch
  <2> QED BY <1>1, <2>1, <2>2
<1> QED BY <1>4, <1>5 DEF ProxyInv, Named, WaitersHaveAFetch

LEMMA AroundStep ==
  ASSUME ProxyInv,
         \/ Shift \/ ListExpires \/ BackOffEnds \/ _pd_refresh_bg
         \/ \E s \in saving : Saved(s)
  PROVE  ProxyInv'
<1>a. /\ ProxyTypeOK /\ Window \in SUBSET Key /\ Key \subseteq Nat
  BY Captures DEF ProxyInv
<1>b. ASSUME ProxyTypeOK', Listed', UNCHANGED <<viewer, inflight>> PROVE ProxyInv'
  BY <1>b DEF ProxyInv, Named, WaitersHaveAFetch, Key
<1>1. CASE Shift
  <2>1. newest' \in _TILT_FRAMES..MaxCapture
    BY <1>1, ProxyAssumption DEF ProxyInv, ProxyTypeOK, Shift
  <2> QED BY <1>1, <1>b, <2>1 DEF Shift, ProxyInv, ProxyTypeOK, Listed, listVars, Key, Position
<1>2. CASE ListExpires
  <2>1. /\ steps' \in [of : [Position -> Nat], fresh : BOOLEAN] /\ steps'.fresh = FALSE
        /\ listing' \in [has : SUBSET Key, fresh : BOOLEAN, refreshing : BOOLEAN]
    BY <1>2 DEF ListExpires, ProxyInv, ProxyTypeOK
  <2> QED BY <1>2, <1>b, <2>1 DEF ListExpires, ProxyInv, ProxyTypeOK, Listed, Key, Position
<1>3. CASE BackOffEnds
  BY <1>3, <1>b DEF BackOffEnds, ProxyInv, ProxyTypeOK, Listed, listVars, Key, Position
<1>4. CASE _pd_refresh_bg
  <2>1. listing' \in [has : SUBSET Key, fresh : BOOLEAN, refreshing : BOOLEAN]
    <3>1. CASE listing' = [listing EXCEPT !.refreshing = FALSE]
      BY <1>a, <3>1 DEF ProxyTypeOK
    <3>2. CASE listing' = [has |-> Window, fresh |-> TRUE, refreshing |-> FALSE]
      BY <1>a, <3>2
    <3> QED BY <1>4, <3>1, <3>2 DEF _pd_refresh_bg
  <2> QED BY <1>4, <1>b, <2>1 DEF _pd_refresh_bg, ProxyInv, ProxyTypeOK, Listed, Key, Position
<1>5. ASSUME NEW s \in saving, Saved(s) PROVE ProxyInv'
  <2>1. s \in [key : Key, holds : Key] /\ s.key \in Key /\ s.holds \in Nat
    BY <1>a, <1>5 DEF ProxyTypeOK
  <2>2. archived' \in [Key -> Nat] /\ saving' \in SUBSET [key : Key, holds : Key]
    BY <1>a, <1>5, <2>1 DEF Saved, ProxyTypeOK
  <2> QED BY <1>5, <1>b, <2>2 DEF Saved, ProxyInv, ProxyTypeOK, Listed, listVars, Key, Position
<1> QED BY <1>1, <1>2, <1>3, <1>4, <1>5

LEMMA ProxyInductive == ProxySpec => []ProxyInv
<1>1. ProxyInit => ProxyInv
  <2> SUFFICES ASSUME ProxyInit PROVE ProxyInv
    OBVIOUS
  <2>1. 0 \in Position /\ -1 \notin Position /\ _TILT_FRAMES \in _TILT_FRAMES..MaxCapture
    BY ProxyAssumption DEF Position
  <2>2. NoRequest \in Request /\ NoRequest.pc = "idle"
    BY <2>1 DEF Request, NoRequest
  <2>3. viewer \in [Viewer -> Request] /\ \A v \in Viewer : viewer[v].pc = "idle"
    BY <2>2 DEF ProxyInit
  <2>4. ProxyTypeOK
    BY <2>1, <2>3 DEF ProxyInit, ProxyTypeOK
  <2>5. Listed
    BY DEF ProxyInit, Listed
  <2> QED BY <2>3, <2>4, <2>5 DEF ProxyInv, Named, WaitersHaveAFetch
<1>2. ProxyInv /\ [ProxyNext]_proxyVars => ProxyInv'
  <2> SUFFICES ASSUME ProxyInv, [ProxyNext]_proxyVars PROVE ProxyInv'
    OBVIOUS
  <2>1. CASE UNCHANGED proxyVars
    BY <2>1 DEF ProxyInv, ProxyTypeOK, Listed, Named, WaitersHaveAFetch, proxyVars, listVars,
      Key, Position
  <2>2. CASE ProxyNext
    BY <2>2, AroundStep, TiltStep, NamedFrameStep, ServeStep, JoinStep, FetchStep DEF ProxyNext
  <2> QED BY <2>1, <2>2
<1> QED BY <1>1, <1>2, PTL DEF ProxySpec

\* Nobody waits for a fetch that does not run: joined, left, ended and failed in
\* any order, _INFLIGHT holds a fetch of every key that is waited for
\* (_serve_source, _fetch_image_upstream).
THEOREM FetchesAreShared == ProxySpec => []WaitersHaveAFetch
<1>1. ProxyInv => WaitersHaveAFetch
  BY DEF ProxyInv
<1> QED BY <1>1, ProxyInductive, PTL
=============================================================================

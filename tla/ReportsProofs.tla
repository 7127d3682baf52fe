---------------------------- MODULE ReportsProofs ----------------------------
(***************************************************************************)
(* Proofs about Reports: what a run has in memory is what the database has,     *)
(* whatever the order in which it was read and whatever the run has changed     *)
(* since; and what the report says of missing backups follows from it. And the  *)
(* table of prunings, which CompressTable.h merges row by row, pass after pass.  *)
(* And about ReportTables: the cells of a summary cover the table, their texts     *)
(* fit, and both renderings have them all.                                     *)
(***************************************************************************)
EXTENDS Reports, ReportTables, FiniteSetTheorems, SequenceTheorems, WellFoundedInduction,
        TLAPS

(* No two backups of a volume share time and device: their ids would be one.    *)
Distinct ==
  \A r, s \in rows : SamePlace(r, s) /\ VolumeOf(r) = VolumeOf(s) => r = s

(* What readState() is to make of some rows.                                  *)
Loaded(R, v) == {r \in R : r.status # "PRUNED" /\ VolumeOf(r) = v /\ r.device \in KnownDevices}

Strays(R) ==
  {r \in R : r.status # "PRUNED" /\ (r.device \notin KnownDevices \/ VolumeOf(r) \notin KnownVolumes)}
StrayDevices(S) == {r.device : r \in S} \ KnownDevices
StrayHosts(S) ==
  {<<r.host, r.device>> : r \in {s \in S : s.device \in KnownDevices /\ s.host \notin KnownHosts}}
StrayVolumes(S) ==
  {<<r.host, r.volume, r.device>> :
     r \in {s \in S : s.device \in KnownDevices /\ s.host \in KnownHosts}}

Noted ==
  /\ unknownDevices = StrayDevices(Strays(rows \ unread))
  /\ unknownHosts = StrayHosts(Strays(rows \ unread))
  /\ unknownVolumes = StrayVolumes(Strays(rows \ unread))

(* The statistics are those of the backups that the volume has.               *)
Current(v) == statistics[v] = Calculate(statistics[v], backups[v])

Typed ==
  /\ rows \subseteq RecordType /\ IsFiniteSet(rows)
  /\ clock \in 1 .. LastSecond
  /\ loading \in {"no", "reading", "done"}
  /\ backups = [v \in KnownVolumes |-> backups[v]]
  /\ statistics = [v \in KnownVolumes |-> statistics[v]]

(* The record being made is in the table, of what is configured, and no volume    *)
(* has it yet.                                                              *)
UnderwayKnown ==
  underway # {} =>
    /\ loading = "done"
    /\ \E r \in rows :
         /\ underway = {r}
         /\ r.status # "PRUNED"
         /\ VolumeOf(r) \in KnownVolumes /\ r.device \in KnownDevices

Agreement ==
  /\ unread \subseteq rows
  /\ loading # "reading" => unread = {}
  /\ loading = "no" =>
       /\ unknownDevices = {} /\ unknownHosts = {} /\ unknownVolumes = {}
       /\ \A v \in KnownVolumes : backups[v] = {}
  /\ loading # "no" =>
       /\ Noted
       /\ \A v \in KnownVolumes : backups[v] = Loaded(rows \ (unread \cup underway), v)

Consistent ==
  /\ Typed /\ Distinct /\ UnderwayKnown /\ Agreement
  /\ \A v \in KnownVolumes : Current(v)

-----------------------------------------------------------------------------
(* What is calculated is calculated again as it is.                            *)
LEMMA CalculateTwice ==
  ASSUME NEW old, NEW B
  PROVE  Calculate(old, B) = Calculate(Calculate(old, B), B)
BY DEF Calculate

LEMMA NothingToCalculate == NoStatistics = Calculate(NoStatistics, {})
<1>1. Done({}) = {} BY DEF Done
<1>2. {b.device : b \in {}} = {} OBVIOUS
<1>3. Cardinality({}) = 0 BY FS_EmptySet
<1> QED BY <1>1, <1>2, <1>3 DEF NoStatistics, Calculate

LEMMA ConsistentAtFirst == RecordsInit => Consistent
<1> SUFFICES ASSUME RecordsInit PROVE Consistent OBVIOUS
<1>1. Typed BY ReportAssumption, FS_Subset DEF RecordsInit, Typed
<1>2. Distinct BY DEF RecordsInit, Distinct
<1>3. UnderwayKnown /\ Agreement BY DEF RecordsInit, UnderwayKnown, Agreement
<1>4. \A v \in KnownVolumes : Current(v)
  BY NothingToCalculate DEF RecordsInit, Current
<1> QED BY <1>1, <1>2, <1>3, <1>4 DEF Consistent

-----------------------------------------------------------------------------
(* Records of the table that are replaced, each by one of its place.            *)
SameRecord(r, s) ==
  /\ s \in RecordType
  /\ s.host = r.host /\ s.volume = r.volume /\ s.device = r.device /\ s.time = r.time

LEMMA ToPruneSame ==
  ASSUME Typed, NEW b \in RecordType
  PROVE  SameRecord(b, ToPrune(b)) /\ ToPrune(b).status = "PRUNING"
<1>1. clock \in 0 .. LastSecond BY ReportAssumption DEF Typed
<1>2. b = [host |-> b.host, device |-> b.device, volume |-> b.volume, time |-> b.time,
           pruned |-> b.pruned, status |-> b.status, contents |-> b.contents]
  BY DEF RecordType
<1>3. CASE b.status = "COMPLETE"
  <2>1. ToPrune(b) = [b EXCEPT !.status = "PRUNING", !.pruned = clock,
                               !.contents = <<"policy">>]
    BY <1>3 DEF ToPrune
  <2> QED BY <1>1, <1>2, <2>1 DEF SameRecord, RecordType
<1>4. CASE b.status # "COMPLETE"
  <2>1. ToPrune(b) = [b EXCEPT !.status = "PRUNING", !.pruned = clock,
                               !.contents = <<"status">>]
    BY <1>4 DEF ToPrune
  <2> QED BY <1>1, <1>2, <2>1 DEF SameRecord, RecordType
<1> QED BY <1>3, <1>4

(* What a function makes of a finite set is finite.                          *)
LEMMA OfFinite ==
  ASSUME NEW S, IsFiniteSet(S), NEW f, f = [r \in S |-> f[r]]
  PROVE  IsFiniteSet({f[r] : r \in S})
<1> DEFINE T == {f[r] : r \in S}
<1>1. f \in Surjection(S, T)
  <2>1. f \in [S -> T] OBVIOUS
  <2> QED BY <2>1 DEF Surjection
<1> QED BY <1>1, FS_Surjection

LEMMA ReplacedDistinct ==
  ASSUME Distinct, rows \subseteq RecordType, IsFiniteSet(rows), NEW B \in SUBSET rows, NEW f,
         f = [b \in B |-> f[b]],
         \A b \in B : SameRecord(b, f[b]),
         rows' = (rows \ B) \cup {f[b] : b \in B}
  PROVE  Distinct' /\ rows' \subseteq RecordType /\ IsFiniteSet(rows')
<1>1. rows' \subseteq RecordType BY DEF SameRecord
<1>2. ASSUME NEW r \in rows', NEW s \in rows', SamePlace(r, s), VolumeOf(r) = VolumeOf(s)
      PROVE  r = s
  <2>1. PICK a \in rows : /\ a \in B => r = f[a]
                          /\ a \notin B => r = a
    OBVIOUS
  <2>2. PICK b \in rows : /\ b \in B => s = f[b]
                          /\ b \notin B => s = b
    OBVIOUS
  <2>3. SamePlace(a, b) /\ VolumeOf(a) = VolumeOf(b)
    <3>1. a.time = r.time /\ a.device = r.device /\ a.host = r.host /\ a.volume = r.volume
      BY <2>1 DEF SameRecord
    <3>2. b.time = s.time /\ b.device = s.device /\ b.host = s.host /\ b.volume = s.volume
      BY <2>2 DEF SameRecord
    <3> QED BY <1>2, <3>1, <3>2 DEF SamePlace, VolumeOf
  <2> QED BY <2>1, <2>2, <2>3 DEF Distinct
<1>3. IsFiniteSet(rows')
  <2>1. IsFiniteSet(rows \ B) /\ IsFiniteSet(B) BY FS_Subset
  <2>2. IsFiniteSet({f[b] : b \in B}) BY <2>1, OfFinite
  <2> QED BY <2>1, <2>2, FS_Union
<1> QED BY <1>1, <1>2, <1>3 DEF Distinct

(* What has been loaded has no backup of the place of a record that has not.     *)
LEMMA NoneInPlace ==
  ASSUME Distinct, NEW R \in SUBSET rows, NEW r \in rows \ R, NEW s, NEW v,
         SameRecord(r, s), VolumeOf(r) = v
  PROVE  \A c \in Loaded(R, v) : ~SamePlace(s, c)
<1> SUFFICES ASSUME NEW c \in Loaded(R, v), SamePlace(s, c) PROVE FALSE OBVIOUS
<1>1. c \in rows /\ c # r /\ VolumeOf(c) = v BY DEF Loaded
<1>2. SamePlace(r, c) BY DEF SamePlace, SameRecord
<1> QED BY <1>1, <1>2 DEF Distinct

LEMMA KeepCurrent ==
  ASSUME Typed, \A v \in KnownVolumes : Current(v), NEW w \in KnownVolumes, NEW B,
         Keep(w, B)
  PROVE  /\ backups' = [v \in KnownVolumes |-> backups'[v]]
         /\ statistics' = [v \in KnownVolumes |-> statistics'[v]]
         /\ backups'[w] = B /\ \A v \in KnownVolumes \ {w} : backups'[v] = backups[v]
         /\ \A v \in KnownVolumes : Current(v)'
<1>1. /\ backups' = [v \in KnownVolumes |-> backups'[v]]
      /\ backups'[w] = B /\ \A v \in KnownVolumes \ {w} : backups'[v] = backups[v]
  BY DEF Keep, Typed
<1>2. /\ statistics' = [v \in KnownVolumes |-> statistics'[v]]
      /\ statistics'[w] = Calculate(statistics[w], B)
      /\ \A v \in KnownVolumes \ {w} : statistics'[v] = statistics[v]
  BY DEF Keep, Typed
<1>3. Current(w)' BY <1>1, <1>2, CalculateTwice DEF Current
<1>4. \A v \in KnownVolumes \ {w} : Current(v)' BY <1>1, <1>2 DEF Current
<1> QED BY <1>1, <1>2, <1>3, <1>4

-----------------------------------------------------------------------------
(* Reading.                                                                  *)
LEMMA StartReadingKeeps == ASSUME Consistent, StartReading PROVE Consistent'
<1> USE DEF Consistent, StartReading, mem
<1>1. Typed' /\ Distinct' BY DEF Typed, Distinct
<1>2. underway = {} BY DEF UnderwayKnown
<1>3. UnderwayKnown' BY <1>2 DEF UnderwayKnown
<1>4. Agreement'
  <2>1. unread' = rows' /\ loading' = "reading" OBVIOUS
  <2>2. Strays(rows' \ unread') = {} BY <2>1 DEF Strays
  <2>4. Noted' BY <2>2 DEF Agreement, Noted, StrayDevices, StrayHosts, StrayVolumes
  <2>3. \A v \in KnownVolumes : backups'[v] = Loaded(rows' \ (unread' \cup underway'), v)
    BY <2>1 DEF Agreement, Loaded
  <2> QED BY <2>1, <2>3, <2>4 DEF Agreement
<1>5. \A v \in KnownVolumes : Current(v)' BY DEF Current
<1> QED BY <1>1, <1>3, <1>4, <1>5

LEMMA ReadRowKeeps ==
  ASSUME Consistent, NEW r \in unread, ReadRow(r)
  PROVE  Consistent'
<1> USE DEF Consistent
<1>1. /\ loading = "reading" /\ AddBackup(r)
      /\ unread' = unread \ {r}
      /\ UNCHANGED <<clock, rows, loading, underway>>
  BY DEF ReadRow
<1>2. underway = {} /\ r \in rows /\ r \in RecordType
  BY <1>1 DEF UnderwayKnown, Agreement, Typed
<1>3. rows' \ unread' = (rows \ unread) \cup {r}
  BY <1>1, <1>2
<1> DEFINE S == Strays(rows \ unread)
<1>4. /\ unknownDevices = StrayDevices(S)
      /\ unknownHosts = StrayHosts(S)
      /\ unknownVolumes = StrayVolumes(S)
      /\ \A v \in KnownVolumes : backups[v] = Loaded(rows \ unread, v)
  BY <1>1, <1>2 DEF Agreement, Noted
<1>5. r.host \notin KnownHosts => VolumeOf(r) \notin KnownVolumes
  BY ReportAssumption DEF VolumeOf
<1>6. CASE r.status # "PRUNED" /\ r.device \in KnownDevices
           /\ VolumeOf(r) \in KnownVolumes
  <2> DEFINE w == VolumeOf(r)
  <2>1. Insert(w, r) /\ UNCHANGED <<unknownDevices, unknownHosts, unknownVolumes>>
    BY <1>1, <1>5, <1>6 DEF AddBackup, mem
  <2>2. Strays(rows' \ unread') = S BY <1>3, <1>6 DEF Strays
  <2>3. \A c \in backups[w] : ~SamePlace(r, c)
    <3>1. SameRecord(r, r) BY <1>2 DEF SameRecord
    <3>2. r \in rows \ (rows \ unread) BY <1>2
    <3> QED BY <1>4, <1>6, <3>1, <3>2, NoneInPlace
  <2>4. Keep(w, backups[w] \cup {r}) BY <2>1, <2>3 DEF Insert
  <2>5. \A v \in KnownVolumes :
          Loaded(rows' \ unread', v) = IF v = w THEN backups[w] \cup {r} ELSE backups[v]
    BY <1>3, <1>4, <1>6 DEF Loaded
  <2> HIDE DEF w, S
  <2>6. w \in KnownVolumes BY <1>6 DEF w
  <2>7. Noted' BY <1>4, <2>1, <2>2 DEF Noted
  <2>8. /\ \A v \in KnownVolumes : backups'[v] = Loaded(rows' \ unread', v) /\ Current(v)'
        /\ backups' = [v \in KnownVolumes |-> backups'[v]]
        /\ statistics' = [v \in KnownVolumes |-> statistics'[v]]
    BY <2>4, <2>5, <2>6, KeepCurrent
  <2> QED BY <1>1, <1>2, <2>7, <2>8 DEF Typed, Distinct, UnderwayKnown, Agreement
<1>7. CASE ~(r.status # "PRUNED" /\ r.device \in KnownDevices
             /\ VolumeOf(r) \in KnownVolumes)
  <2>1. UNCHANGED <<backups, statistics>> BY <1>1, <1>7 DEF AddBackup, mem
  <2>2. \A v \in KnownVolumes : Loaded(rows' \ unread', v) = Loaded(rows \ unread, v)
    BY <1>3, <1>7 DEF Loaded
  <2>3. Noted'
    <3>1. CASE r.status = "PRUNED"
      <4>1. Strays(rows' \ unread') = S BY <1>3, <3>1 DEF Strays
      <4>2. UNCHANGED <<unknownDevices, unknownHosts, unknownVolumes>>
        BY <1>1, <3>1 DEF AddBackup, mem
      <4> QED BY <1>4, <4>1, <4>2 DEF Noted
    <3>2. CASE r.status # "PRUNED"
      <4>1. Strays(rows' \ unread') = S \cup {r} BY <1>3, <1>7, <3>2 DEF Strays
      <4> HIDE DEF S
      <4>2. CASE r.device \notin KnownDevices
        <5>1. /\ unknownDevices' = unknownDevices \cup {r.device}
              /\ UNCHANGED <<unknownHosts, unknownVolumes>>
          BY <1>1, <3>2, <4>2 DEF AddBackup
        <5>2. /\ StrayDevices(S \cup {r}) = StrayDevices(S) \cup {r.device}
              /\ StrayHosts(S \cup {r}) = StrayHosts(S)
              /\ StrayVolumes(S \cup {r}) = StrayVolumes(S)
          BY <4>2 DEF StrayDevices, StrayHosts, StrayVolumes
        <5> QED BY <1>4, <4>1, <5>1, <5>2 DEF Noted
      <4>3. CASE r.device \in KnownDevices /\ r.host \notin KnownHosts
        <5>1. /\ unknownHosts' = unknownHosts \cup {<<r.host, r.device>>}
              /\ UNCHANGED <<unknownDevices, unknownVolumes>>
          BY <1>1, <1>5, <3>2, <4>3 DEF AddBackup
        <5>2. /\ StrayDevices(S \cup {r}) = StrayDevices(S)
              /\ StrayHosts(S \cup {r}) = StrayHosts(S) \cup {<<r.host, r.device>>}
              /\ StrayVolumes(S \cup {r}) = StrayVolumes(S)
          BY <4>3 DEF StrayDevices, StrayHosts, StrayVolumes
        <5> QED BY <1>4, <4>1, <5>1, <5>2 DEF Noted
      <4>4. CASE r.device \in KnownDevices /\ r.host \in KnownHosts
        <5>1. /\ unknownVolumes' = unknownVolumes \cup {<<r.host, r.volume, r.device>>}
              /\ UNCHANGED <<unknownDevices, unknownHosts>>
          BY <1>1, <1>7, <3>2, <4>4 DEF AddBackup
        <5>2. /\ StrayDevices(S \cup {r}) = StrayDevices(S)
              /\ StrayHosts(S \cup {r}) = StrayHosts(S)
              /\ StrayVolumes(S \cup {r}) =
                   StrayVolumes(S) \cup {<<r.host, r.volume, r.device>>}
          BY <4>4 DEF StrayDevices, StrayHosts, StrayVolumes
        <5> QED BY <1>4, <4>1, <5>1, <5>2 DEF Noted
      <4> QED BY <4>2, <4>3, <4>4
    <3> QED BY <3>1, <3>2
  <2> HIDE DEF S
  <2> QED BY <1>1, <1>2, <1>4, <2>1, <2>2, <2>3
       DEF Typed, Distinct, UnderwayKnown, Agreement, Current
<1> QED BY <1>6, <1>7

LEMMA ReadingEndsKeeps == ASSUME Consistent, ReadingEnds PROVE Consistent'
<1> USE DEF Consistent, ReadingEnds, mem
<1>1. Typed' /\ Distinct' BY DEF Typed, Distinct
<1>2. underway = {} BY DEF UnderwayKnown
<1>3. UnderwayKnown' BY <1>2 DEF UnderwayKnown
<1>4. Agreement' BY DEF Agreement, Noted
<1>5. \A v \in KnownVolumes : Current(v)' BY DEF Current
<1> QED BY <1>1, <1>3, <1>4, <1>5

LEMMA NextRunKeeps == ASSUME Consistent, NextRun PROVE Consistent'
<1> USE DEF Consistent, NextRun
<1>1. Typed' /\ Distinct' BY DEF Typed, Distinct
<1>2. UnderwayKnown' /\ Agreement' BY DEF UnderwayKnown, Agreement
<1>3. \A v \in KnownVolumes : Current(v)' BY NothingToCalculate DEF Current
<1> QED BY <1>1, <1>2, <1>3

LEMMA ElapseKeeps == ASSUME Consistent, Elapse \/ UNCHANGED records PROVE Consistent'
<1> USE DEF Consistent, Elapse, records, mem
<1>1. Typed' /\ Distinct' BY ReportAssumption DEF Typed, Distinct
<1>2. UnderwayKnown' /\ Agreement' BY DEF UnderwayKnown, Agreement, Noted
<1>3. \A v \in KnownVolumes : Current(v)' BY DEF Current
<1> QED BY <1>1, <1>2, <1>3

-----------------------------------------------------------------------------
(* Backups and prunings.                                                     *)
LEMMA BackupBeginsKeeps ==
  ASSUME Consistent, NEW v \in KnownVolumes, NEW d \in KnownDevices, BackupBegins(v, d)
  PROVE  Consistent'
<1> USE DEF Consistent
<1> DEFINE r == [host |-> v[1], volume |-> v[2], device |-> d, time |-> clock,
                 status |-> "UNDERWAY", contents |-> <<>>, pruned |-> 0]
<1>1. /\ loading = "done" /\ underway = {} /\ unread = {}
      /\ \A s \in rows : VolumeOf(s) = v => ~SamePlace(r, s)
      /\ rows' = rows \cup {r} /\ underway' = {r}
      /\ UNCHANGED <<clock, unread, loading, backups, statistics, unknownDevices,
                     unknownHosts, unknownVolumes>>
  BY DEF BackupBegins, Agreement, mem
<1>2. VolumeOf(r) = v /\ r.device = d /\ r.status = "UNDERWAY"
  BY ReportAssumption DEF VolumeOf
<1>3. r \in RecordType
  <2>1. v[1] \in KnownHosts /\ clock \in 1 .. LastSecond /\ 0 \in 0 .. LastSecond
    BY ReportAssumption DEF Typed
  <2> QED BY <2>1 DEF RecordType, Incomplete
<1> HIDE DEF r
<1>4. SamePlace(r, r) BY DEF SamePlace
<1>5. r \notin rows BY <1>1, <1>2, <1>4
<1>6. Typed' BY <1>1, <1>3, FS_AddElement DEF Typed
<1>7. Distinct'
  <2>1. \A s \in rows : SamePlace(s, r) => SamePlace(r, s) BY DEF SamePlace
  <2> QED BY <1>1, <1>2, <2>1 DEF Distinct
<1>8. UnderwayKnown' BY <1>1, <1>2 DEF UnderwayKnown
<1>9. Strays(rows') = Strays(rows) BY <1>1, <1>2 DEF Strays
<1>10. Agreement'
  <2>1. rows' \ (unread' \cup underway') = rows BY <1>1, <1>5
  <2>2. rows \ unread = rows /\ rows' \ unread' = rows' /\ rows \ (unread \cup underway) = rows
    BY <1>1
  <2>3. Noted' BY <1>1, <1>9, <2>2 DEF Agreement, Noted
  <2> QED BY <1>1, <2>1, <2>2, <2>3 DEF Agreement
<1>11. \A w \in KnownVolumes : Current(w)' BY <1>1 DEF Current
<1> QED BY <1>6, <1>7, <1>8, <1>10, <1>11

LEMMA BackupEndsKeeps ==
  ASSUME Consistent, NEW status \in {"COMPLETE", "FAILED"},
         NEW log \in {<<>>, <<"1M">>, <<"text", "2M">>, <<"text">>},
         BackupEnds(status, log)
  PROVE  Consistent'
<1> USE DEF Consistent
<1>1. PICK r \in rows : /\ underway = {r} /\ r.status # "PRUNED" /\ loading = "done"
                        /\ VolumeOf(r) \in KnownVolumes /\ r.device \in KnownDevices
  BY DEF BackupEnds, UnderwayKnown
<1> DEFINE outcome == [r EXCEPT !.status = status, !.contents = log]
           w == VolumeOf(r)
<1>2. (CHOOSE s \in underway : TRUE) = r BY <1>1
<1>3. /\ Insert(w, outcome)
      /\ rows' = (rows \ {r}) \cup {outcome}
      /\ underway' = {}
      /\ UNCHANGED <<clock, unread, loading, unknownDevices, unknownHosts, unknownVolumes>>
  BY <1>2 DEF BackupEnds
<1>4. r \in RecordType BY DEF Typed
<1>5. SameRecord(r, outcome) /\ outcome.status # "PRUNED"
  BY <1>4 DEF SameRecord, RecordType, Incomplete
<1> HIDE DEF outcome
<1>6. unread = {} /\ \A v \in KnownVolumes : backups[v] = Loaded(rows \ {r}, v)
  BY <1>1 DEF Agreement
<1>7. \A c \in backups[w] : ~SamePlace(outcome, c)
  <2>1. r \in rows \ (rows \ {r}) OBVIOUS
  <2> QED BY <1>1, <1>5, <1>6, <2>1, NoneInPlace
<1>8. Keep(w, backups[w] \cup {outcome}) BY <1>3, <1>7 DEF Insert
<1>9. VolumeOf(outcome) = w /\ outcome.device = r.device
  BY <1>5 DEF SameRecord, VolumeOf
<1>10. Distinct' /\ rows' \subseteq RecordType /\ IsFiniteSet(rows')
  <2> DEFINE f == [b \in {r} |-> outcome]
  <2>1. {r} \in SUBSET rows /\ rows \subseteq RecordType /\ IsFiniteSet(rows) BY DEF Typed
  <2>2. f = [b \in {r} |-> f[b]] /\ \A b \in {r} : SameRecord(b, f[b]) BY <1>5
  <2>3. rows' = (rows \ {r}) \cup {f[b] : b \in {r}} BY <1>3
  <2> HIDE DEF f
  <2> QED BY <2>1, <2>2, <2>3, ReplacedDistinct
<1>11. \A v \in KnownVolumes :
         Loaded(rows', v) = IF v = w THEN backups[w] \cup {outcome} ELSE backups[v]
  BY <1>1, <1>3, <1>5, <1>6, <1>9 DEF Loaded
<1>12. Strays(rows') = Strays(rows) BY <1>1, <1>3, <1>5, <1>9 DEF Strays
<1> HIDE DEF w
<1>13. w \in KnownVolumes BY <1>1 DEF w
<1>14. /\ backups' = [v \in KnownVolumes |-> backups'[v]]
       /\ statistics' = [v \in KnownVolumes |-> statistics'[v]]
       /\ backups'[w] = backups[w] \cup {outcome}
       /\ \A v \in KnownVolumes \ {w} : backups'[v] = backups[v]
       /\ \A v \in KnownVolumes : Current(v)'
  BY <1>8, <1>13, KeepCurrent
<1>15. Typed' BY <1>3, <1>10, <1>14 DEF Typed
<1>16. UnderwayKnown' BY <1>3 DEF UnderwayKnown
<1>17. Agreement'
  <2>1. rows' \ (unread' \cup underway') = rows' /\ rows' \ unread' = rows' /\ rows \ unread = rows
    BY <1>3, <1>6
  <2>2. Noted' BY <1>1, <1>3, <1>12, <2>1 DEF Agreement, Noted
  <2>3. \A v \in KnownVolumes : backups'[v] = Loaded(rows', v) BY <1>11, <1>14
  <2> QED BY <1>1, <1>3, <1>6, <2>1, <2>2, <2>3 DEF Agreement
<1> QED BY <1>10, <1>14, <1>15, <1>16, <1>17

LEMMA MarkObsoleteKeeps ==
  ASSUME Consistent, NEW B \in SUBSET UNION {backups[v] : v \in KnownVolumes},
         MarkObsolete(B)
  PROVE  Consistent'
<1> USE DEF Consistent
<1> DEFINE f == [b \in B |-> ToPrune(b)]
           after(v) == (backups[v] \ B) \cup {ToPrune(b) : b \in backups[v] \cap B}
<1>1. /\ loading = "done" /\ underway = {} /\ unread = {}
      /\ rows' = (rows \ B) \cup {ToPrune(b) : b \in B}
      /\ backups' = [v \in KnownVolumes |-> after(v)]
      /\ statistics' = [v \in KnownVolumes |->
                          IF backups[v] \cap B = {} THEN statistics[v]
                          ELSE Calculate(statistics[v], after(v))]
      /\ UNCHANGED <<clock, unread, loading, unknownDevices, unknownHosts, unknownVolumes,
                     underway>>
  BY DEF MarkObsolete, Agreement
<1>2. \A v \in KnownVolumes : backups[v] = Loaded(rows, v)
  BY <1>1 DEF Agreement
<1>3. \A b \in B : b \in rows /\ b.status # "PRUNED" /\ b.device \in KnownDevices
  BY <1>2 DEF Loaded
<1>4. \A b \in B : SameRecord(b, ToPrune(b)) /\ ToPrune(b).status = "PRUNING"
  BY <1>3, ToPruneSame DEF Typed
<1>5. Distinct' /\ rows' \subseteq RecordType /\ IsFiniteSet(rows')
  <2>1. B \in SUBSET rows /\ rows \subseteq RecordType /\ IsFiniteSet(rows) BY <1>3 DEF Typed
  <2>2. f = [b \in B |-> f[b]] /\ \A b \in B : SameRecord(b, f[b]) BY <1>4
  <2>3. rows' = (rows \ B) \cup {f[b] : b \in B} BY <1>1
  <2> HIDE DEF f
  <2> QED BY <2>1, <2>2, <2>3, ReplacedDistinct
<1>6. \A b \in B : VolumeOf(ToPrune(b)) = VolumeOf(b) /\ ToPrune(b).device = b.device
  BY <1>4 DEF SameRecord, VolumeOf
<1>7. \A v \in KnownVolumes : Loaded(rows', v) = after(v)
  <2> SUFFICES ASSUME NEW v \in KnownVolumes PROVE Loaded(rows', v) = after(v) OBVIOUS
  <2>1. Loaded(rows \ B, v) = backups[v] \ B BY <1>2 DEF Loaded
  <2>2. Loaded({ToPrune(b) : b \in B}, v) = {ToPrune(b) : b \in backups[v] \cap B}
    <3>1. \A b \in B : b \in backups[v] <=> VolumeOf(b) = v
      BY <1>2, <1>3 DEF Loaded
    <3>2. \A b \in B : ToPrune(b).status # "PRUNED" /\ ToPrune(b).device \in KnownDevices
      BY <1>3, <1>4, <1>6
    <3> QED BY <1>6, <3>1, <3>2 DEF Loaded
  <2>3. Loaded(rows', v) = Loaded(rows \ B, v) \cup Loaded({ToPrune(b) : b \in B}, v)
    BY <1>1 DEF Loaded
  <2> QED BY <2>1, <2>2, <2>3
<1>8. Strays(rows') = Strays(rows)
  <2>1. \A b \in B :
          /\ ToPrune(b).device \in KnownDevices /\ b.device \in KnownDevices
          /\ VolumeOf(ToPrune(b)) \in KnownVolumes /\ VolumeOf(b) \in KnownVolumes
    BY <1>2, <1>3, <1>6 DEF Loaded
  <2> QED BY <1>1, <2>1 DEF Strays
<1>9. \A v \in KnownVolumes : Current(v)'
  <2> SUFFICES ASSUME NEW v \in KnownVolumes PROVE Current(v)' OBVIOUS
  <2>1. CASE backups[v] \cap B = {}
    <3>1. backups'[v] = backups[v] /\ statistics'[v] = statistics[v] BY <1>1, <2>1
    <3> QED BY <3>1 DEF Current
  <2>2. CASE backups[v] \cap B # {}
    <3>1. backups'[v] = after(v) /\ statistics'[v] = Calculate(statistics[v], after(v))
      BY <1>1, <2>2
    <3> HIDE DEF after
    <3> QED BY <3>1, CalculateTwice DEF Current
  <2> QED BY <2>1, <2>2
<1> HIDE DEF after
<1>10. Typed' BY <1>1, <1>5 DEF Typed
<1>11. UnderwayKnown' BY <1>1 DEF UnderwayKnown
<1>12. Agreement'
  <2>1. rows' \ (unread' \cup underway') = rows' /\ rows' \ unread' = rows' /\ rows \ unread = rows
    BY <1>1
  <2>2. Noted' BY <1>1, <1>8, <2>1 DEF Agreement, Noted
  <2> QED BY <1>1, <1>7, <2>1, <2>2 DEF Agreement
<1> QED BY <1>5, <1>9, <1>10, <1>11, <1>12

LEMMA RemovedKeeps ==
  ASSUME Consistent, NEW v \in KnownVolumes, NEW b \in backups[v], Removed(b)
  PROVE  Consistent'
<1> USE DEF Consistent
<1> DEFINE gone == [b EXCEPT !.status = "PRUNED", !.pruned = clock]
<1>1. /\ loading = "done" /\ underway = {} /\ unread = {}
      /\ rows' = (rows \ {b}) \cup {gone}
      /\ Keep(VolumeOf(b), backups[VolumeOf(b)] \ {b})
      /\ UNCHANGED <<clock, unread, loading, unknownDevices, unknownHosts, unknownVolumes,
                     underway>>
  BY DEF Removed, Agreement
<1>2. \A w \in KnownVolumes : backups[w] = Loaded(rows, w)
  BY <1>1 DEF Agreement
<1>3. b \in rows /\ b.device \in KnownDevices /\ VolumeOf(b) = v
  BY <1>2 DEF Loaded
<1>4. b \in RecordType /\ clock \in 0 .. LastSecond BY <1>3, ReportAssumption DEF Typed
<1>5. SameRecord(b, gone) /\ gone.status = "PRUNED"
  BY <1>4 DEF SameRecord, RecordType
<1> HIDE DEF gone
<1>6. Distinct' /\ rows' \subseteq RecordType /\ IsFiniteSet(rows')
  <2> DEFINE f == [c \in {b} |-> gone]
  <2>1. {b} \in SUBSET rows /\ rows \subseteq RecordType /\ IsFiniteSet(rows) BY <1>3 DEF Typed
  <2>2. f = [c \in {b} |-> f[c]] /\ \A c \in {b} : SameRecord(c, f[c]) BY <1>5
  <2>3. rows' = (rows \ {b}) \cup {f[c] : c \in {b}} BY <1>1
  <2> HIDE DEF f
  <2> QED BY <2>1, <2>2, <2>3, ReplacedDistinct
<1>7. \A w \in KnownVolumes :
        Loaded(rows', w) = IF w = v THEN backups[v] \ {b} ELSE backups[w]
  BY <1>1, <1>2, <1>3, <1>5 DEF Loaded
<1>8. Strays(rows') = Strays(rows)
  BY <1>1, <1>3, <1>5 DEF Strays
<1>9. /\ backups' = [w \in KnownVolumes |-> backups'[w]]
      /\ statistics' = [w \in KnownVolumes |-> statistics'[w]]
      /\ backups'[v] = backups[v] \ {b}
      /\ \A w \in KnownVolumes \ {v} : backups'[w] = backups[w]
      /\ \A w \in KnownVolumes : Current(w)'
  BY <1>1, <1>3, KeepCurrent
<1>10. Typed' BY <1>1, <1>6, <1>9 DEF Typed
<1>11. UnderwayKnown' BY <1>1 DEF UnderwayKnown
<1>12. Agreement'
  <2>1. rows' \ (unread' \cup underway') = rows' /\ rows' \ unread' = rows' /\ rows \ unread = rows
    BY <1>1
  <2>2. \A w \in KnownVolumes : backups'[w] = Loaded(rows', w) BY <1>7, <1>9
  <2>3. Noted' BY <1>1, <1>8, <2>1 DEF Agreement, Noted
  <2> QED BY <1>1, <2>1, <2>2, <2>3 DEF Agreement
<1> QED BY <1>6, <1>9, <1>10, <1>11, <1>12

LEMMA ConsistentNext == Consistent /\ [RecordsNext]_records => Consistent'
<1> SUFFICES ASSUME Consistent, [RecordsNext]_records PROVE Consistent' OBVIOUS
<1>1. CASE StartReading BY <1>1, StartReadingKeeps
<1>2. CASE ReadingEnds BY <1>2, ReadingEndsKeeps
<1>3. CASE NextRun BY <1>3, NextRunKeeps
<1>4. CASE Elapse \/ UNCHANGED records BY <1>4, ElapseKeeps
<1>5. CASE \E r \in unread : ReadRow(r) BY <1>5, ReadRowKeeps
<1>6. CASE \E v \in KnownVolumes, d \in KnownDevices : BackupBegins(v, d)
  BY <1>6, BackupBeginsKeeps
<1>7. CASE \/ \E log \in {<<>>, <<"1M">>, <<"text", "2M">>} : BackupEnds("COMPLETE", log)
           \/ BackupEnds("FAILED", <<"text">>)
  BY <1>7, BackupEndsKeeps
<1>8. CASE \E B \in SUBSET UNION {backups[v] : v \in KnownVolumes} : MarkObsolete(B)
  BY <1>8, MarkObsoleteKeeps
<1>9. CASE \E v \in KnownVolumes : \E b \in backups[v] : Removed(b)
  BY <1>9, RemovedKeeps
<1> QED BY <1>1, <1>2, <1>3, <1>4, <1>5, <1>6, <1>7, <1>8, <1>9 DEF RecordsNext

LEMMA AlwaysConsistent == RecordsSpec => []Consistent
BY ConsistentAtFirst, ConsistentNext, PTL DEF RecordsSpec

-----------------------------------------------------------------------------
(* Sets of numbers and of records have a least and a greatest.                 *)
LEMMA LeastNumber ==
  ASSUME NEW T \in SUBSET Nat, T # {}
  PROVE  \E x \in T : \A y \in T : x <= y
<1>1. PICK x \in T : \A y \in T : ~ (<<y, x>> \in OpToRel(<, Nat))
  BY WFMin, NatLessThanWellFounded, Zenon
<1>2. \A y \in T : ~ (y < x) BY <1>1 DEF OpToRel
<1> QED BY <1>2

LEMMA GreatestNumber ==
  ASSUME NEW n \in Nat, NEW T \in SUBSET (0 .. n), T # {}
  PROVE  \E x \in T : \A y \in T : y <= x
<1> DEFINE U == {n - x : x \in T}
<1>1. U \in SUBSET Nat /\ U # {}
  <2>1. \A x \in T : n - x \in Nat OBVIOUS
  <2> QED BY <2>1
<1>2. PICK u \in U : \A y \in U : u <= y BY <1>1, LeastNumber
<1>3. PICK x \in T : u = n - x OBVIOUS
<1>4. \A y \in T : n - x <= n - y BY <1>2, <1>3
<1> QED BY <1>4

LEMMA FirstIsFirst ==
  ASSUME NEW B \in SUBSET RecordType, B # {}
  PROVE  First(B) \in B /\ \A c \in B : First(B).time <= c.time
<1> DEFINE T == {b.time : b \in B}
<1>1. T \in SUBSET Nat /\ T # {} BY DEF RecordType
<1>2. PICK t \in T : \A y \in T : t <= y BY <1>1, LeastNumber
<1>3. \E b \in B : \A c \in B : b.time <= c.time BY <1>2
<1> QED BY <1>3 DEF First

LEMMA NewestIsNewest ==
  ASSUME NEW B \in SUBSET RecordType, B # {}
  PROVE  Newest(B) \in B /\ \A c \in B : c.time <= Newest(B).time
<1> DEFINE T == {b.time : b \in B}
<1>1. T \in SUBSET (0 .. LastSecond) /\ T # {} BY DEF RecordType
<1>2. PICK t \in T : \A y \in T : y <= t BY <1>1, GreatestNumber, ReportAssumption
<1>3. \E b \in B : \A c \in B : c.time <= b.time BY <1>2
<1> QED BY <1>3 DEF Newest

(* Later seconds are of later days.                                          *)
LEMMA DaysGrow ==
  ASSUME NEW t \in Nat, NEW u \in Nat, t <= u
  PROVE  DayOf(t) \in Nat /\ DayOf(u) \in Nat /\ DayOf(t) <= DayOf(u)
<1> DEFINE s == DaySeconds
           a == t \div s
           b == u \div s
<1>1. s \in Nat \ {0} BY ReportAssumption
<1> HIDE DEF s
<1>2. a \in Nat /\ s * a <= t BY <1>1
<1>3. b \in Nat /\ u < s * (b + 1) BY <1>1
<1> HIDE DEF a, b
<1>4. a < b + 1
  <2> SUFFICES ASSUME b + 1 <= a PROVE FALSE BY <1>2, <1>3
  <2>1. s * (b + 1) <= s * a BY <1>1, <1>2, <1>3
  <2>2. s * (b + 1) \in Nat /\ s * a \in Nat BY <1>1, <1>2, <1>3
  <2> QED BY <1>2, <1>3, <2>1, <2>2
<1>5. a <= b BY <1>2, <1>3, <1>4
<1> QED BY <1>2, <1>3, <1>5 DEF DayOf, a, b, s

-----------------------------------------------------------------------------
(* What a report looks at, when it can be made.                               *)
LEMMA InMemory ==
  ASSUME Consistent, Reporting, NEW v \in KnownVolumes
  PROVE  /\ backups[v] = Of(v)
         /\ statistics[v] = Calculate(statistics[v], Of(v))
         /\ Of(v) \in SUBSET RecordType /\ IsFiniteSet(Of(v))
         /\ \A b \in Of(v) : b.device \in KnownDevices
         /\ \A b, c \in Of(v) : SamePlace(b, c) => b = c
         /\ clock \in Nat
<1>1. Of(v) = Loaded(rows, v) BY DEF Of, Kept, Loaded
<1>2. rows \ (unread \cup underway) = rows
  BY DEF Consistent, Agreement, Reporting
<1>3. backups[v] = Of(v) BY <1>1, <1>2 DEF Consistent, Agreement, Reporting
<1>4. Of(v) \in SUBSET rows BY DEF Of, Kept
<1>5. Of(v) \in SUBSET RecordType /\ IsFiniteSet(Of(v)) /\ clock \in Nat
  BY <1>4, FS_Subset, ReportAssumption DEF Consistent, Typed
<1>6. statistics[v] = Calculate(statistics[v], Of(v)) BY <1>3 DEF Consistent, Current
<1>7. \A b, c \in Of(v) : SamePlace(b, c) => b = c BY <1>4 DEF Consistent, Distinct, Of
<1> QED BY <1>3, <1>5, <1>6, <1>7 DEF Of

LEMMA FiguresOf ==
  ASSUME Consistent, Reporting, NEW v \in KnownVolumes
  PROVE  /\ DevicesUsed(v) = {b.device : b \in Done(Of(v))}
         /\ DOMAIN PerDevice(v) = DevicesUsed(v)
         /\ statistics[v].completed = Cardinality(Done(Of(v)))
         /\ Done(Of(v)) # {} => statistics[v].oldest = First(Done(Of(v))).time
         /\ \A d \in DevicesUsed(v) :
              /\ PerDevice(v)[d].count = Cardinality(On(Done(Of(v)), d))
              /\ PerDevice(v)[d].newest = Newest(On(Done(Of(v)), d)).time
              /\ PerDevice(v)[d].size = GetSize(Newest(On(Done(Of(v)), d)).contents)
<1> DEFINE done == Done(Of(v))
           figures(S) == [count |-> Cardinality(S), oldest |-> First(S).time,
                          newest |-> Newest(S).time, size |-> GetSize(Newest(S).contents)]
<1>1. /\ statistics[v].completed = Cardinality(done)
      /\ done # {} => statistics[v].oldest = First(done).time
      /\ PerDevice(v) = [d \in {b.device : b \in done} |-> figures(On(done, d))]
  <2>1. statistics[v] = Calculate(statistics[v], Of(v)) BY InMemory
  <2> DEFINE st == statistics[v]
             C == Calculate(st, Of(v))
  <2>2. /\ C.completed = Cardinality(done)
        /\ done # {} => C.oldest = First(done).time
        /\ C.perDevice = [d \in {b.device : b \in done} |-> figures(On(done, d))]
    BY DEF Calculate
  <2>3. st = C BY <2>1
  <2> HIDE DEF C
  <2> QED BY <2>2, <2>3 DEF PerDevice
<1>2. {b.device : b \in done} \subseteq KnownDevices BY InMemory DEF Done
<1>3. DevicesUsed(v) = {b.device : b \in done} /\ DOMAIN PerDevice(v) = DevicesUsed(v)
  BY <1>1, <1>2 DEF DevicesUsed
<1>4. ASSUME NEW d \in DevicesUsed(v)
      PROVE  /\ PerDevice(v)[d].count = Cardinality(On(done, d))
             /\ PerDevice(v)[d].newest = Newest(On(done, d)).time
             /\ PerDevice(v)[d].size = GetSize(Newest(On(done, d)).contents)
  BY <1>1, <1>3
<1> QED BY <1>1, <1>3, <1>4

(* The newest backup of a device decides whether one is recent.                *)
LEMMA FreshIsRecent ==
  ASSUME Consistent, Reporting, NEW v \in KnownVolumes, NEW d \in DevicesUsed(v)
  PROVE  /\ On(Done(Of(v)), d) \in SUBSET RecordType /\ On(Done(Of(v)), d) # {}
         /\ Fresh(v, d) <=> Recent(On(Done(Of(v)), d)) # {}
<1> DEFINE S == On(Done(Of(v)), d)
           n == Newest(S)
<1>1. S \in SUBSET RecordType /\ S # {}
  <2>1. Of(v) \in SUBSET RecordType BY InMemory
  <2>2. PICK b \in Done(Of(v)) : b.device = d BY FiguresOf
  <2> QED BY <2>1, <2>2 DEF On, Done
<1>2. n \in S /\ \A c \in S : c.time <= n.time BY <1>1, NewestIsNewest
<1>3. PerDevice(v)[d].newest = n.time BY FiguresOf
<1>4. clock \in Nat /\ \A c \in S : c.time \in Nat
  BY <1>1, InMemory DEF RecordType
<1>5. \A c \in S : DayOf(c.time) \in Nat /\ DayOf(c.time) <= DayOf(n.time)
  BY <1>2, <1>4, DaysGrow
<1>6. DayOf(clock) \in Nat BY <1>4, DaysGrow
<1>7. Fresh(v, d) <=> DayOf(clock) - DayOf(n.time) <= MaxAge BY <1>3 DEF Fresh
<1>8. Recent(S) # {} <=> \E c \in S : DayOf(clock) - DayOf(c.time) <= MaxAge BY DEF Recent
<1>9. ASSUME NEW c \in S, DayOf(clock) - DayOf(c.time) <= MaxAge
      PROVE  DayOf(clock) - DayOf(n.time) <= MaxAge
  <2> DEFINE cd == DayOf(c.time)
             nd == DayOf(n.time)
             kd == DayOf(clock)
  <2>1. cd \in Nat /\ nd \in Nat /\ kd \in Nat /\ cd <= nd /\ MaxAge \in Nat /\ kd - cd <= MaxAge
    BY <1>2, <1>5, <1>6, <1>9, ReportAssumption
  <2> HIDE DEF cd, nd, kd
  <2>2. kd - nd <= MaxAge BY <2>1
  <2> QED BY <2>2 DEF kd, nd
<1> QED BY <1>1, <1>2, <1>7, <1>8, <1>9

LEMMA VolumeIsReported ==
  ASSUME Consistent, Reporting, NEW v \in KnownVolumes
  PROVE  VolumeReported(v)
<1> DEFINE done == Done(Of(v))
           lacking == {d \in KnownDevices : On(done, d) = {}}
<1>1. /\ DevicesUsed(v) = {b.device : b \in done}
      /\ DevicesUsed(v) \subseteq KnownDevices
      /\ lacking = KnownDevices \ DevicesUsed(v)
      /\ done \in SUBSET RecordType
  BY FiguresOf, InMemory DEF On, Done, DevicesUsed
<1>2. done = {} <=> DevicesUsed(v) = {} BY <1>1
<1>3. lacking = {} <=> DevicesUsed(v) = KnownDevices BY <1>1
<1>4. v \in BackupsMissing <=> done = {} BY <1>2 DEF BackupsMissing
<1>5. v \in BackupsPartial <=> done # {} /\ lacking # {}
  <2> HIDE DEF done, lacking
  <2> QED BY <1>2, <1>3 DEF BackupsPartial
<1>6. v \in BackupsOutOfDate <=> lacking = {} /\ Recent(done) = {}
  <2>1. Recent(done) = {} <=> \A d \in DevicesUsed(v) : Recent(On(done, d)) = {}
    BY <1>1 DEF Recent, On
  <2>2. OutOfDate(v) <=> \A d \in DevicesUsed(v) : Recent(On(done, d)) = {}
    BY FreshIsRecent DEF OutOfDate
  <2> QED BY <1>3, <2>1, <2>2 DEF BackupsOutOfDate
<1>7. Summary(v).total = Cardinality(done) BY FiguresOf DEF Summary
<1>8. done # {} =>
        \E b \in done : Summary(v).oldest = DayOf(b.time) /\ \A c \in done : b.time <= c.time
  <2> SUFFICES ASSUME done # {}
               PROVE  \E b \in done : /\ Summary(v).oldest = DayOf(b.time)
                                      /\ \A c \in done : b.time <= c.time
    OBVIOUS
  <2>1. First(done) \in done /\ \A c \in done : First(done).time <= c.time
    BY <1>1, FirstIsFirst
  <2>2. statistics[v].oldest = First(done).time BY FiguresOf
  <2>3. First(done).time \in 1 .. LastSecond BY <1>1, <2>1 DEF RecordType
  <2>4. First(done).time # 0 BY <2>3
  <2>5. Summary(v).oldest = DayOf(First(done).time) BY <2>2, <2>4 DEF Summary
  <2> QED BY <2>1, <2>5
<1>9. Summary(v).bad <=> lacking # {} BY <1>1, FiguresOf DEF Summary
<1>10. ASSUME NEW d \in KnownDevices
      PROVE  /\ Summary(v).on[d].count = Cardinality(On(done, d))
             /\ Summary(v).on[d].bad <=> Recent(On(done, d)) = {}
             /\ d \notin lacking =>
                  \E b \in On(done, d) :
                    /\ \A c \in On(done, d) : c.time <= b.time
                    /\ Summary(v).on[d].newest = DayOf(b.time)
                    /\ Summary(v).on[d].size = GetSize(b.contents)
  <2>1. Summary(v).on[d] = SummaryOf(v, d) BY DEF Summary
  <2>2. CASE d \in DevicesUsed(v)
    <3> DEFINE S == On(done, d)
    <3>1. SummaryOf(v, d) =
            [newest |-> DayOf(PerDevice(v)[d].newest), bad |-> ~Fresh(v, d),
             count |-> PerDevice(v)[d].count, size |-> PerDevice(v)[d].size]
      BY <2>2 DEF SummaryOf
    <3>2. /\ PerDevice(v)[d].count = Cardinality(S)
          /\ PerDevice(v)[d].newest = Newest(S).time
          /\ PerDevice(v)[d].size = GetSize(Newest(S).contents)
      BY <2>2, FiguresOf
    <3>3. /\ S \in SUBSET RecordType /\ S # {}
          /\ Fresh(v, d) <=> Recent(S) # {}
      BY <2>2, FreshIsRecent
    <3>4. Newest(S) \in S /\ \A c \in S : c.time <= Newest(S).time
      BY <3>3, NewestIsNewest
    <3> HIDE DEF S
    <3>5. \E b \in S : /\ \A c \in S : c.time <= b.time
                       /\ Summary(v).on[d].newest = DayOf(b.time)
                       /\ Summary(v).on[d].size = GetSize(b.contents)
      BY <2>1, <3>1, <3>2, <3>4
    <3>6. Summary(v).on[d].count = Cardinality(S) BY <2>1, <3>1, <3>2
    <3>7. Summary(v).on[d].bad <=> Recent(S) = {}
      <4> DEFINE old == ~Fresh(v, d)
      <4>1. SummaryOf(v, d) =
              [newest |-> DayOf(PerDevice(v)[d].newest), bad |-> old,
               count |-> PerDevice(v)[d].count, size |-> PerDevice(v)[d].size]
        BY <3>1, Zenon
      <4> HIDE DEF old
      <4>2. SummaryOf(v, d).bad = old BY <4>1
      <4>3. Summary(v).on[d].bad = old BY <2>1, <4>2
      <4>4. old <=> Recent(S) = {} BY <3>3 DEF old
      <4> QED BY <4>3, <4>4
    <3> QED BY <3>5, <3>6, <3>7 DEF S
  <2>3. CASE d \notin DevicesUsed(v)
    <3>1. On(done, d) = {} BY <1>1, <2>3
    <3>2. Recent(On(done, d)) = {} BY <3>1 DEF Recent
    <3>3. Summary(v).on[d].count = 0 /\ Summary(v).on[d].bad BY <2>1, <2>3 DEF SummaryOf
    <3>4. d \in lacking BY <3>1
    <3> QED BY <3>1, <3>2, <3>3, <3>4, FS_EmptySet
  <2> QED BY <2>2, <2>3
<1> QED BY <1>4, <1>5, <1>6, <1>7, <1>8, <1>9, <1>10 DEF VolumeReported

-----------------------------------------------------------------------------
(* Of backups that are told apart by time and device, the newest of a device is   *)
(* the one that none follows.                                               *)
LEMMA NewestIsLast ==
  ASSUME NEW B \in SUBSET RecordType, \A b, c \in B : SamePlace(b, c) => b = c, NEW b \in B
  PROVE  b = Newest(On(B, b.device)) <=> \A c \in On(B, b.device) : ~ (c.time > b.time)
<1> DEFINE S == On(B, b.device)
           n == Newest(S)
<1>1. S \in SUBSET RecordType /\ b \in S BY DEF On
<1>2. n \in S /\ \A c \in S : c.time <= n.time BY <1>1, NewestIsNewest
<1>3. \A c \in S : c.time \in Nat BY <1>1 DEF RecordType
<1>4. ASSUME b = n PROVE \A c \in S : ~ (c.time > b.time)
  BY <1>1, <1>2, <1>3, <1>4
<1>5. ASSUME \A c \in S : ~ (c.time > b.time) PROVE b = n
  <2> HIDE DEF n
  <2>1. ~ (n.time > b.time) /\ b.time <= n.time /\ n.time \in Nat /\ b.time \in Nat
    BY <1>1, <1>2, <1>3, <1>5
  <2>2. n.time = b.time BY <2>1
  <2>3. n.device = b.device /\ n \in B BY <1>2 DEF On
  <2> QED BY <2>2, <2>3 DEF SamePlace
<1> QED BY <1>4, <1>5

LEMMA LogsAreReported ==
  ASSUME Consistent, Reporting, NEW v \in KnownVolumes
  PROVE  LogsReported(v)
<1> SUFFICES ASSUME NEW b \in Of(v), NEW verbosity \in Verbosities
             PROVE  LET after == {c \in On(Of(v), b.device) : c.time > b.time}
                        failed == b.status \in Incomplete
                    IN  b \in Logs(v, verbosity) <=>
                          /\ b.contents # <<>>
                          /\ verbosity = "errors" => b.status # "COMPLETE"
                          /\ verbosity = "recent" =>
                               failed /\ \A c \in after : c.status \notin Incomplete
                          /\ verbosity \in {"latest", "failed"} => after = {}
                          /\ verbosity = "failed" => failed
  BY DEF LogsReported
<1> DEFINE after == {c \in On(Of(v), b.device) : c.time > b.time}
           failed == b.status \in Incomplete
<1>1. /\ backups[v] = Of(v) /\ Of(v) \in SUBSET RecordType
      /\ \A c, d \in Of(v) : SamePlace(c, d) => c = d
  BY InMemory
<1>2. MostRecent(backups[v], b) <=> after = {}
  BY <1>1, NewestIsLast DEF MostRecent
<1>3. MostRecent(Failures(v), b) <=> failed /\ \A c \in after : c.status \notin Incomplete
  <2>1. Failures(v) = {c \in Of(v) : c.status \in Incomplete} BY <1>1 DEF Failures
  <2>2. b \in Failures(v) =>
          (b = Newest(On(Failures(v), b.device))
             <=> \A c \in On(Failures(v), b.device) : ~ (c.time > b.time))
    BY <1>1, <2>1, NewestIsLast
  <2>3. b \in Failures(v) <=> failed BY <2>1
  <2>4. (\A c \in On(Failures(v), b.device) : ~ (c.time > b.time))
          <=> \A c \in after : c.status \notin Incomplete
    BY <2>1 DEF On
  <2> QED BY <2>2, <2>3, <2>4 DEF MostRecent
<1>4. b \in Logs(v, verbosity) <=> SuitableLog(v, b, verbosity) BY <1>1 DEF Logs
<1> HIDE DEF after
<1>5. b \in Logs(v, verbosity) <=>
        /\ b.contents # <<>>
        /\ verbosity = "errors" => b.status # "COMPLETE"
        /\ verbosity = "recent" => failed /\ \A c \in after : c.status \notin Incomplete
        /\ verbosity \in {"latest", "failed"} => after = {}
        /\ verbosity = "failed" => failed
  BY <1>2, <1>3, <1>4 DEF SuitableLog, Verbosities
<1> QED BY <1>5 DEF after

-----------------------------------------------------------------------------
(* Devices are in the order of their names.                                   *)
LEMMA NoTwoPlaces ==
  ASSUME NEW i \in DOMAIN DeviceNames, NEW j \in DOMAIN DeviceNames,
         DeviceNames[i] = DeviceNames[j]
  PROVE  i = j
BY ReportAssumption DEF IsInjective

LEMMA HasPlace ==
  ASSUME NEW d \in KnownDevices
  PROVE  \E i \in DOMAIN DeviceNames : DeviceNames[i] = d
BY DEF KnownDevices, ToSet

LEMMA Places == DOMAIN DeviceNames = 1 .. Len(DeviceNames) /\ Len(DeviceNames) \in Nat
BY ReportAssumption

LEMMA EarlierOrder ==
  ASSUME NEW b \in RecordType, NEW c \in RecordType,
         b.device \in KnownDevices, c.device \in KnownDevices
  PROVE  /\ ~ (Earlier(b, c) /\ Earlier(c, b))
         /\ Earlier(b, c) \/ Earlier(c, b) \/ SamePlace(b, c)
         /\ Earlier(b, c) => b.time <= c.time
<1>1. b.time \in Nat /\ c.time \in Nat BY DEF RecordType
<1>2. PICK i \in DOMAIN DeviceNames : DeviceNames[i] = b.device BY HasPlace
<1>3. PICK j \in DOMAIN DeviceNames : DeviceNames[j] = c.device BY HasPlace
<1>4. i \in Nat /\ j \in Nat BY Places
<1>5. Earlier(b, c) <=> (b.time < c.time \/ (b.time = c.time /\ i < j))
  BY <1>2, <1>3, NoTwoPlaces DEF Earlier
<1>6. Earlier(c, b) <=> (c.time < b.time \/ (c.time = b.time /\ j < i))
  BY <1>2, <1>3, NoTwoPlaces DEF Earlier
<1>7. i = j => b.device = c.device BY <1>2, <1>3
<1> QED BY <1>1, <1>4, <1>5, <1>6, <1>7 DEF SamePlace

LEMMA LastOfAll ==
  ASSUME NEW B \in SUBSET RecordType, B # {}, \A b \in B : b.device \in KnownDevices
  PROVE  \E b \in B : \A c \in B : SamePlace(b, c) \/ Earlier(c, b)
<1> DEFINE t == Newest(B).time
           S == {b \in B : b.time = t}
           I == {i \in DOMAIN DeviceNames : \E b \in S : DeviceNames[i] = b.device}
<1>1. Newest(B) \in B /\ \A c \in B : c.time <= t BY NewestIsNewest
<1>2. I \in SUBSET (0 .. Len(DeviceNames)) BY Places
<1>3. I # {} BY <1>1, HasPlace
<1>4. PICK i \in I : \A j \in I : j <= i BY <1>2, <1>3, Places, GreatestNumber
<1>5. PICK b \in S : DeviceNames[i] = b.device OBVIOUS
<1>6. ASSUME NEW c \in B PROVE SamePlace(b, c) \/ Earlier(c, b)
  <2>1. b.time \in Nat /\ c.time \in Nat /\ c.time <= b.time BY <1>1, <1>5 DEF RecordType
  <2>2. CASE c.time < b.time BY <2>2 DEF Earlier
  <2>3. CASE c.time = b.time
    <3>1. PICK j \in DOMAIN DeviceNames : DeviceNames[j] = c.device BY HasPlace
    <3>2. c \in S BY <2>3, <1>5
    <3>3. j \in I BY <3>1, <3>2
    <3>4. j <= i /\ i \in Nat /\ j \in Nat /\ i \in DOMAIN DeviceNames
      BY <1>4, <3>3, Places
    <3>5. j < i \/ j = i BY <3>4
    <3>6. CASE j = i BY <3>6, <3>1, <1>5, <2>3 DEF SamePlace
    <3>7. CASE j < i BY <3>7, <3>1, <3>4, <1>5, <2>3 DEF Earlier
    <3> QED BY <3>5, <3>6, <3>7
  <2> QED BY <2>1, <2>2, <2>3
<1> QED BY <1>5, <1>6

LEMMA PathsAreReported ==
  ASSUME Consistent, Reporting, NEW v \in KnownVolumes
  PROVE  PathsReported(v)
<1>1. /\ backups[v] = Of(v) /\ Of(v) \in SUBSET RecordType
      /\ \A b \in Of(v) : b.device \in KnownDevices
      /\ \A c, d \in Of(v) : SamePlace(c, d) => c = d
  BY InMemory
<1>2. ASSUME NEW present \in SUBSET KnownDevices
      PROVE  LET found == {b \in Done(Of(v)) : b.device \in present}
             IN  /\ Latest(v, present) \subseteq found
                 /\ found # {} => Cardinality(Latest(v, present)) = 1
                 /\ \A b \in found, c \in Latest(v, present) : b.time <= c.time
  <2> DEFINE found == {b \in Done(Of(v)) : b.device \in present}
             L == Latest(v, present)
  <2>1. found \in SUBSET Of(v) BY DEF Done
  <2>2. L = {b \in found : \A c \in found : b = c \/ Earlier(c, b)} BY <1>1 DEF Latest
  <2>3. found \in SUBSET RecordType /\ \A b \in found : b.device \in KnownDevices
    BY <1>1, <2>1
  <2> HIDE DEF found, L
  <2>4. ASSUME found # {} PROVE Cardinality(L) = 1
    <3>1. PICK b \in found : \A c \in found : SamePlace(b, c) \/ Earlier(c, b)
      BY <2>3, <2>4, LastOfAll
    <3>2. \A c \in found : b = c \/ Earlier(c, b) BY <1>1, <2>1, <3>1
    <3>3. \A c \in L : c = b
      <4> SUFFICES ASSUME NEW c \in L, c # b PROVE FALSE OBVIOUS
      <4>1. c \in found /\ Earlier(b, c) BY <2>2
      <4>2. Earlier(c, b) BY <3>2, <4>1
      <4> QED BY <2>3, <4>1, <4>2, EarlierOrder
    <3>4. L = {b} BY <2>2, <3>2, <3>3
    <3> QED BY <3>4, FS_Singleton
  <2>5. ASSUME NEW b \in found, NEW c \in L PROVE b.time <= c.time
    <3>1. c \in found /\ (c = b \/ Earlier(b, c)) BY <2>2
    <3>2. b.time \in Nat BY <2>3 DEF RecordType
    <3> QED BY <2>3, <3>1, <3>2, EarlierOrder
  <2> QED BY <2>2, <2>4, <2>5 DEF found, L
<1>3. ASSUME NEW d \in KnownDevices
      PROVE  /\ ExpectedTrees(v, d) = {r.time : r \in On(Of(v), d)}
             /\ ExpectedMarkers(v, d)
                  = {r.time : r \in {s \in On(Of(v), d) : s.status # "COMPLETE"}}
  <2>1. On(Of(v), d) \ Done(Of(v)) = {s \in On(Of(v), d) : s.status # "COMPLETE"}
    BY DEF On, Done
  <2> QED BY <1>1, <2>1 DEF ExpectedTrees, ExpectedMarkers
<1> QED BY <1>2, <1>3 DEF PathsReported

-----------------------------------------------------------------------------
(* What is counted is finite.                                              *)
LEMMA StraysFinite ==
  ASSUME Consistent, Reporting
  PROVE  /\ unknownDevices = StrayDevices(Strays(rows))
         /\ unknownHosts = StrayHosts(Strays(rows))
         /\ unknownVolumes = StrayVolumes(Strays(rows))
         /\ IsFiniteSet(unknownDevices) /\ IsFiniteSet(unknownHosts)
         /\ IsFiniteSet(unknownVolumes)
<1> DEFINE S == Strays(rows)
           H == {s \in S : s.device \in KnownDevices /\ s.host \notin KnownHosts}
           V == {s \in S : s.device \in KnownDevices /\ s.host \in KnownHosts}
           fd == [r \in S |-> r.device]
           fh == [r \in H |-> <<r.host, r.device>>]
           fv == [r \in V |-> <<r.host, r.volume, r.device>>]
<1>1. rows \ unread = rows BY DEF Consistent, Agreement, Reporting
<1>2. /\ unknownDevices = StrayDevices(S) /\ unknownHosts = StrayHosts(S)
      /\ unknownVolumes = StrayVolumes(S)
  BY <1>1 DEF Consistent, Agreement, Reporting, Noted
<1>3. S \in SUBSET rows /\ H \in SUBSET rows /\ V \in SUBSET rows BY DEF Strays
<1>4. IsFiniteSet(S) /\ IsFiniteSet(H) /\ IsFiniteSet(V)
  BY <1>3, FS_Subset DEF Consistent, Typed
<1> HIDE DEF S, H, V
<1>5. IsFiniteSet({fd[r] : r \in S}) BY <1>4, OfFinite
<1>6. IsFiniteSet({fh[r] : r \in H}) BY <1>4, OfFinite
<1>7. IsFiniteSet({fv[r] : r \in V}) BY <1>4, OfFinite
<1>8. /\ StrayDevices(S) \in SUBSET {fd[r] : r \in S}
      /\ StrayHosts(S) = {fh[r] : r \in H}
      /\ StrayVolumes(S) = {fv[r] : r \in V}
  BY DEF StrayDevices, StrayHosts, StrayVolumes, H, V
<1>9. IsFiniteSet(StrayDevices(S)) BY <1>5, <1>8, FS_Subset
<1> QED BY <1>2, <1>6, <1>7, <1>8, <1>9 DEF S

LEMMA NoneUnknown ==
  ASSUME Consistent, Reporting
  PROVE  /\ unknownDevices = {} /\ unknownHosts = {} /\ unknownVolumes = {} <=> NothingUnknown
         /\ unknownDevices = {r.device : r \in Kept} \ KnownDevices
<1> DEFINE S == Strays(rows)
<1>1. S = {r \in Kept : r.device \notin KnownDevices \/ VolumeOf(r) \notin KnownVolumes}
  BY DEF Strays, Kept
<1>2. S = {} <=> NothingUnknown BY <1>1 DEF NothingUnknown
<1>3. ASSUME NEW r \in S
      PROVE  ~ (unknownDevices = {} /\ unknownHosts = {} /\ unknownVolumes = {})
  <2>1. CASE r.device \notin KnownDevices BY <2>1, StraysFinite DEF StrayDevices
  <2>2. CASE r.device \in KnownDevices /\ r.host \notin KnownHosts
    BY <2>2, StraysFinite DEF StrayHosts
  <2>3. CASE r.device \in KnownDevices /\ r.host \in KnownHosts
    BY <2>3, StraysFinite DEF StrayVolumes
  <2> QED BY <2>1, <2>2, <2>3
<1>4. S = {} => unknownDevices = {} /\ unknownHosts = {} /\ unknownVolumes = {}
  BY StraysFinite DEF StrayDevices, StrayHosts, StrayVolumes
<1>5. unknownDevices = {r.device : r \in Kept} \ KnownDevices
  BY <1>1, StraysFinite DEF StrayDevices
<1> HIDE DEF S
<1> QED BY <1>2, <1>3, <1>4, <1>5

(* No pair of a set is left if each has the value that is left out.            *)
LEMMA NoneLeft ==
  ASSUME NEW S, NEW z
  PROVE  {c \in S : c[2] # z} = {} <=> \A c \in S : c[2] = z
OBVIOUS

(* The warnings and the subject look at the same six sets.                     *)
LEMMA SubjectOfWarnings ==
  ASSUME Consistent, Reporting
  PROVE  LET well == /\ unknownDevices = {} /\ unknownHosts = {} /\ unknownVolumes = {}
                     /\ BackupsMissing = {} /\ BackupsPartial = {} /\ BackupsOutOfDate = {}
         IN  /\ Subject = {} <=> well
             /\ Shown("warnings") <=> ~well
<1> DEFINE nd == Cardinality(unknownDevices)
           nh == Cardinality(unknownHosts)
           nv == Cardinality(unknownVolumes)
           M == Cardinality(BackupsMissing)
           P == Cardinality(BackupsPartial)
           O == Cardinality(BackupsOutOfDate)
           all == {<<"missing", BackupsMissing>>, <<"partial", BackupsPartial>>,
                   <<"stale", BackupsOutOfDate>>}
           W == {S \in all : S[2] # {}}
           w == Cardinality(W)
<1>1. /\ nd \in Nat /\ (nd = 0 <=> unknownDevices = {})
      /\ nh \in Nat /\ (nh = 0 <=> unknownHosts = {})
      /\ nv \in Nat /\ (nv = 0 <=> unknownVolumes = {})
  BY StraysFinite, FS_CardinalityType, FS_EmptySet
<1>2. /\ BackupsMissing \in SUBSET KnownVolumes /\ BackupsPartial \in SUBSET KnownVolumes
      /\ BackupsOutOfDate \in SUBSET KnownVolumes
  BY DEF BackupsMissing, BackupsPartial, BackupsOutOfDate
<1>3. /\ IsFiniteSet(BackupsMissing) /\ IsFiniteSet(BackupsPartial)
      /\ IsFiniteSet(BackupsOutOfDate)
  BY <1>2, FS_Subset, ReportAssumption
<1>4. /\ M = 0 <=> BackupsMissing = {}
      /\ P = 0 <=> BackupsPartial = {}
      /\ O = 0 <=> BackupsOutOfDate = {}
  BY <1>3, FS_EmptySet
<1>5. w \in Nat /\ (w = 0 <=> W = {})
  <2>1. IsFiniteSet({<<"missing", BackupsMissing>>}) BY FS_Singleton
  <2>2. IsFiniteSet({<<"missing", BackupsMissing>>} \cup {<<"partial", BackupsPartial>>})
    BY <2>1, FS_AddElement
  <2>3. IsFiniteSet(({<<"missing", BackupsMissing>>} \cup {<<"partial", BackupsPartial>>})
                    \cup {<<"stale", BackupsOutOfDate>>})
    BY <2>2, FS_AddElement
  <2>4. all = ({<<"missing", BackupsMissing>>} \cup {<<"partial", BackupsPartial>>})
              \cup {<<"stale", BackupsOutOfDate>>}
    OBVIOUS
  <2>5. IsFiniteSet(all) BY <2>3, <2>4
  <2> HIDE DEF all
  <2>6. IsFiniteSet(W) BY <2>5, FS_Subset
  <2> QED BY <2>6, FS_CardinalityType, FS_EmptySet
<1>6. W = {} <=> BackupsMissing = {} /\ BackupsPartial = {} /\ BackupsOutOfDate = {}
  <2>1. /\ <<"missing", BackupsMissing>>[2] = BackupsMissing
        /\ <<"partial", BackupsPartial>>[2] = BackupsPartial
        /\ <<"stale", BackupsOutOfDate>>[2] = BackupsOutOfDate
    OBVIOUS
  <2>2. W = {} <=> \A c \in all : c[2] = {} BY NoneLeft
  <2> QED BY <2>1, <2>2
<1>7. Shown("warnings") <=> nd + nh + nv + w > 0
  BY DEF Shown, WarningCount
<1>8. Subject = {} <=> M = 0 /\ P = 0 /\ O = 0 /\ nd + nh + nv = 0
  <2> DEFINE u == nd + nh + nv
  <2>1. Subject = {c \in {<<"missing", M>>, <<"partial", P>>, <<"stale", O>>, <<"unknown", u>>} :
                     c[2] # 0}
    BY DEF Subject
  <2> HIDE DEF M, P, O, u
  <2>2. /\ <<"missing", M>>[2] = M /\ <<"partial", P>>[2] = P
        /\ <<"stale", O>>[2] = O /\ <<"unknown", u>>[2] = u
    OBVIOUS
  <2>3. Subject = {} <=>
          \A c \in {<<"missing", M>>, <<"partial", P>>, <<"stale", O>>, <<"unknown", u>>} :
            c[2] = 0
    BY <2>1, NoneLeft
  <2>4. Subject = {} <=> M = 0 /\ P = 0 /\ O = 0 /\ u = 0 BY <2>2, <2>3
  <2> QED BY <2>4 DEF u
<1> HIDE DEF nd, nh, nv, M, P, O, w, W
<1>9. nd + nh + nv = 0 <=> nd = 0 /\ nh = 0 /\ nv = 0 BY <1>1
<1>10. nd + nh + nv + w > 0 <=> ~ (nd = 0 /\ nh = 0 /\ nv = 0 /\ w = 0) BY <1>1, <1>5
<1> QED BY <1>1, <1>4, <1>5, <1>6, <1>7, <1>8, <1>9, <1>10

-----------------------------------------------------------------------------
LEMMA ConsistentIsRight == Consistent => ReportRight
<1> SUFFICES ASSUME Consistent, Reporting
             PROVE  /\ rows \subseteq RecordType
                    /\ \A v \in KnownVolumes :
                         VolumeReported(v) /\ LogsReported(v) /\ PathsReported(v)
                    /\ unknownDevices = {r.device : r \in Kept} \ KnownDevices
                    /\ Shown("warnings") <=> Subject # {}
                    /\ Subject = {} <=>
                         /\ NothingUnknown
                         /\ \A v \in KnownVolumes :
                              /\ \A d \in KnownDevices : On(Done(Of(v)), d) # {}
                              /\ Recent(Done(Of(v))) # {}
  BY DEF ReportRight
<1> DEFINE well == /\ unknownDevices = {} /\ unknownHosts = {} /\ unknownVolumes = {}
                   /\ BackupsMissing = {} /\ BackupsPartial = {} /\ BackupsOutOfDate = {}
           full(v) == \A d \in KnownDevices : On(Done(Of(v)), d) # {}
<1>1. rows \subseteq RecordType BY DEF Consistent, Typed
<1>2. \A v \in KnownVolumes : VolumeReported(v) /\ LogsReported(v) /\ PathsReported(v)
  BY VolumeIsReported, LogsAreReported, PathsAreReported
<1>3. (Subject = {} <=> well) /\ (Shown("warnings") <=> ~well) BY SubjectOfWarnings
<1>4. ASSUME NEW v \in KnownVolumes
      PROVE  v \notin BackupsMissing \cup BackupsPartial \cup BackupsOutOfDate
               <=> full(v) /\ Recent(Done(Of(v))) # {}
  <2> DEFINE done == Done(Of(v))
             lacking == {d \in KnownDevices : On(done, d) = {}}
  <2>1. /\ v \in BackupsMissing <=> done = {}
        /\ v \in BackupsPartial <=> done # {} /\ lacking # {}
        /\ v \in BackupsOutOfDate <=> lacking = {} /\ Recent(done) = {}
    BY VolumeIsReported DEF VolumeReported
  <2>2. lacking = {} <=> full(v) OBVIOUS
  <2>3. Recent(done) # {} => done # {} BY DEF Recent
  <2> QED BY <2>1, <2>2, <2>3
<1>5. BackupsMissing \cup BackupsPartial \cup BackupsOutOfDate \subseteq KnownVolumes
  BY DEF BackupsMissing, BackupsPartial, BackupsOutOfDate
<1>6. BackupsMissing = {} /\ BackupsPartial = {} /\ BackupsOutOfDate = {}
        <=> \A v \in KnownVolumes : full(v) /\ Recent(Done(Of(v))) # {}
  BY <1>4, <1>5
<1>7. well <=> NothingUnknown /\ \A v \in KnownVolumes : full(v) /\ Recent(Done(Of(v))) # {}
  BY <1>6, NoneUnknown
<1> HIDE DEF well
<1>8. Shown("warnings") <=> Subject # {} BY <1>3
<1>9. Subject = {} <=>
        /\ NothingUnknown
        /\ \A v \in KnownVolumes :
             /\ \A d \in KnownDevices : On(Done(Of(v)), d) # {}
             /\ Recent(Done(Of(v))) # {}
  BY <1>3, <1>7
<1> QED BY <1>1, <1>2, <1>8, <1>9, NoneUnknown

(* A report made at the end of any run of backups and prunings, after any number   *)
(* of others and whatever the order in which the database has returned its       *)
(* records, says what the records say: of each volume, of its logs, of the paths   *)
(* that --latest prints and --check-unexpected knows, and of all that is wrong.   *)
THEOREM ReportsAreRight == RecordsSpec => []ReportRight
<1>1. Consistent => ReportRight BY ConsistentIsRight
<1> QED BY <1>1, AlwaysConsistent, PTL


-----------------------------------------------------------------------------
(* A fold over a sequence goes from its first element to its last: there is a     *)
(* function that does as FoldLeft() says, built up from the first indices on.    *)
Foldable(n, T, base, step) ==
  \E g \in [SUBSET (1 .. n) -> T] :
    \A s \in SUBSET (1 .. n) :
      g[s] = IF s = {} THEN base ELSE step[<<g[s \ {Max(s)}], Max(s)>>]

LEMMA FoldExists ==
  ASSUME NEW n \in Nat, NEW T, NEW base \in T, NEW step \in [T \X (1 .. n) -> T]
  PROVE  Foldable(n, T, base, step)
<1> DEFINE Folds(m, g) ==
             /\ g \in [SUBSET (1 .. m) -> T]
             /\ \A s \in SUBSET (1 .. m) :
                  g[s] = IF s = {} THEN base ELSE step[<<g[s \ {Max(s)}], Max(s)>>]
           Fails == {m \in Nat : m <= n /\ ~ \E g : Folds(m, g)}
<1>0. Fails = {} => \E g : Folds(n, g)
  <2> HIDE DEF Folds
  <2> QED
    OBVIOUS
<1> SUFFICES ASSUME Fails # {} PROVE FALSE
  BY <1>0 DEF Foldable
<1>1. PICK m \in Fails : \A k \in Fails : m <= k
  <2>1. Fails \in SUBSET Nat
    OBVIOUS
  <2> HIDE DEF Fails
  <2> QED
    BY <2>1, LeastNumber
<1>2. m \in Nat /\ m <= n /\ ~ \E g : Folds(m, g)
  BY <1>1
<1>3. m # 0
  <2> SUFFICES ASSUME m = 0 PROVE FALSE
    OBVIOUS
  <2> DEFINE g == [s \in SUBSET (1 .. m) |-> base]
  <2>1. SUBSET (1 .. m) = {{}}
    OBVIOUS
  <2>2. Folds(m, g)
    BY <2>1
  <2> HIDE DEF Folds
  <2> QED
    BY <1>2, <2>2
<1>4. PICK l \in Nat : m = l + 1
  <2>1. m - 1 \in Nat /\ m = (m - 1) + 1
    BY <1>2, <1>3
  <2> QED
    BY <2>1
<1>5. PICK g : Folds(l, g)
  <2>1. l \notin Fails /\ l <= n
    <3> HIDE DEF Fails
    <3> QED
      BY <1>1, <1>2, <1>4
  <2> HIDE DEF Folds
  <2> QED
    BY <2>1
<1> DEFINE h == [s \in SUBSET (1 .. m) |->
                   IF m \in s THEN step[<<g[s \ {m}], m>>] ELSE g[s]]
<1>6. ASSUME NEW s \in SUBSET (1 .. m)
      PROVE  /\ m \in s => s \ {m} \in SUBSET (1 .. l) /\ Max(s) = m
             /\ m \notin s => s \in SUBSET (1 .. l)
  <2>1. \A i \in 1 .. m : i # m => i \in 1 .. l
    BY <1>4
  <2>2. ASSUME m \in s PROVE Max(s) = m
    <3>1. \A y \in s : y \in Nat /\ m >= y
      BY <1>2
    <3>2. \A x \in s : (\A y \in s : x >= y) => x = m
      BY <1>2, <2>2, <3>1
    <3> QED
      BY <2>2, <3>1, <3>2 DEF Max
  <2> QED
    BY <2>1, <2>2
<1>7. h \in [SUBSET (1 .. m) -> T]
  <2>1. ASSUME NEW s \in SUBSET (1 .. m)
        PROVE  (IF m \in s THEN step[<<g[s \ {m}], m>>] ELSE g[s]) \in T
    <3>1. m \in 1 .. n
      BY <1>2, <1>3
    <3> QED
      BY <1>5, <1>6, <3>1
  <2> QED
    BY <2>1
<1>8. ASSUME NEW s \in SUBSET (1 .. m)
      PROVE  h[s] = IF s = {} THEN base ELSE step[<<h[s \ {Max(s)}], Max(s)>>]
  <2>1. CASE m \in s
    <3>1. s \ {m} \in SUBSET (1 .. m) /\ m \notin s \ {m} /\ s # {} /\ Max(s) = m
      BY <1>6, <2>1
    <3>2. h[s \ {m}] = g[s \ {m}] /\ h[s] = step[<<g[s \ {m}], m>>]
      BY <2>1, <3>1
    <3> HIDE DEF h
    <3> QED
      BY <3>1, <3>2
  <2>2. CASE m \notin s
    <3>1. s \in SUBSET (1 .. l) /\ h[s] = g[s]
      BY <1>6, <2>2
    <3>2. CASE s = {}
      BY <1>5, <3>1, <3>2
    <3>3. CASE s # {}
      <4>1. g[s] = step[<<g[s \ {Max(s)}], Max(s)>>]
        BY <1>5, <3>1, <3>3
      <4>2. s \ {Max(s)} \in SUBSET (1 .. m) /\ m \notin s \ {Max(s)}
        BY <2>2
      <4>3. h[s \ {Max(s)}] = g[s \ {Max(s)}]
        BY <4>2
      <4> HIDE DEF h
      <4> QED
        BY <3>1, <3>3, <4>1, <4>3
    <3> QED
      BY <3>2, <3>3
  <2> QED
    BY <2>1, <2>2
<1>9. Folds(m, h)
  <2> HIDE DEF h
  <2> QED
    BY <1>7, <1>8
<1> HIDE DEF Folds
<1> QED
  BY <1>2, <1>9


LEMMA MaxIsIn ==
  ASSUME NEW n \in Nat, NEW s \in SUBSET (1 .. n), s # {}
  PROVE  Max(s) \in s
<1>1. \E x \in s : \A y \in s : y <= x
  <2>1. s \in SUBSET (0 .. n)
    OBVIOUS
  <2> QED
    BY <2>1, GreatestNumber
<1> QED
  BY <1>1 DEF Max

(* Rows, of sets of values of V; what a pass makes of a row; and what a row says.    *)
RowType(V) == [1 .. 6 -> SUBSET V]

Take(done, r) ==
  IF done # <<>> /\ Mergeable(Last(done), r)
  THEN Append(Front(done), Merge(Last(done), r))
  ELSE Append(done, r)

SaidBy(row) ==
  {<<a, b, c, d, e, f>> : a \in row[1], b \in row[2], c \in row[3],
                          d \in row[4], e \in row[5], f \in row[6]}

LEMMA TakeType ==
  ASSUME NEW V, NEW done \in Seq(RowType(V)), NEW r \in RowType(V)
  PROVE  Take(done, r) \in Seq(RowType(V))
<1> DEFINE R == RowType(V)
<1>1. done \in Seq(R) /\ r \in R
  OBVIOUS
<1>2. ASSUME done # <<>> PROVE Last(done) \in R /\ Front(done) \in Seq(R)
  <2>0. Len(done) \in Nat \ {0}
    <3> HIDE DEF R
    <3> QED
      BY <1>1, <1>2
  <2>1. Len(done) \in 1 .. Len(done) /\ \A i \in 1 .. Len(done) - 1 : done[i] \in R
    <3> HIDE DEF R
    <3> QED
      BY <1>1, <2>0
  <2> HIDE DEF R
  <2> QED
    BY <1>1, <2>0, <2>1 DEF Last, Front
<1>3. done # <<>> => Merge(Last(done), r) \in R
  <2>1. \A a, b \in R : Merge(a, b) \in R
    BY DEF RowType, Merge
  <2> QED
    BY <1>1, <1>2, <2>1
<1> HIDE DEF R
<1> QED
  BY <1>1, <1>2, <1>3 DEF Take, R

LEMMA PassSteps ==
  ASSUME NEW V, NEW list \in Seq(RowType(V))
  PROVE  \E h \in [0 .. Len(list) -> Seq(RowType(V))] :
           /\ h[0] = <<>>
           /\ \A k \in 1 .. Len(list) : h[k] = Take(h[k - 1], list[k])
           /\ CompressOnce(list) = h[Len(list)]
<1> DEFINE R == RowType(V)
           n == Len(list)
           T == Seq(R)
           step == [p \in T \X (1 .. n) |-> Take(p[1], list[p[2]])]
           Rule(g) == g = [s \in SUBSET (1 .. n) |->
                             IF s = {} THEN <<>> ELSE Take(g[s \ {Max(s)}], list[Max(s)])]
<1>1. n \in Nat /\ DOMAIN list = 1 .. n /\ \A i \in 1 .. n : list[i] \in R
  <2> HIDE DEF R
  <2>1. list \in Seq(R)
    BY DEF R
  <2> QED
    BY <2>1
<1>2. step \in [T \X (1 .. n) -> T]
  <2>1. ASSUME NEW p \in T \X (1 .. n) PROVE Take(p[1], list[p[2]]) \in T
    BY <1>1, TakeType
  <2> QED
    BY <2>1
<1>3. \A t \in T, i \in 1 .. n : step[<<t, i>>] = Take(t, list[i])
  OBVIOUS
<1>4. <<>> \in T
  OBVIOUS
<1> HIDE DEF T, step, n
<1>5. PICK g \in [SUBSET (1 .. n) -> T] :
        \A s \in SUBSET (1 .. n) :
          g[s] = IF s = {} THEN <<>> ELSE step[<<g[s \ {Max(s)}], Max(s)>>]
  <2>1. Foldable(n, T, <<>>, step)
    BY <1>1, <1>2, <1>4, FoldExists
  <2> QED
    BY <2>1 DEF Foldable
<1>6. \A s \in SUBSET (1 .. n) : s # {} => Max(s) \in 1 .. n
  BY <1>1, MaxIsIn
<1>7. Rule(g)
  <2>1. ASSUME NEW s \in SUBSET (1 .. n)
        PROVE  g[s] = IF s = {} THEN <<>> ELSE Take(g[s \ {Max(s)}], list[Max(s)])
    <3>1. s # {} => g[s \ {Max(s)}] \in T /\ Max(s) \in 1 .. n
      BY <1>5, <1>6
    <3> QED
      BY <1>3, <1>5, <3>1
  <2> QED
    BY <1>5, <2>1
<1>8. CompressOnce(list) = (CHOOSE f : Rule(f))[1 .. n]
  BY <1>1 DEF CompressOnce, FoldLeft, MapThenFoldSet, Take
<1> DEFINE iter == CHOOSE f : Rule(f)
<1>9. \A s \in SUBSET (1 .. n) :
        iter[s] = IF s = {} THEN <<>> ELSE Take(iter[s \ {Max(s)}], list[Max(s)])
  <2>1. Rule(iter)
    <3> HIDE DEF Rule
    <3> QED
      BY <1>7
  <2> HIDE DEF iter
  <2> QED
    BY <2>1
<1> HIDE DEF iter, Rule
<1> DEFINE h == [k \in 0 .. n |-> iter[1 .. k]]
<1>10. h[0] = <<>>
  <2>1. 1 .. 0 = {} /\ {} \in SUBSET (1 .. n) /\ 0 \in 0 .. n
    BY <1>1
  <2> QED
    BY <1>9, <2>1
<1>11. ASSUME NEW k \in 1 .. n
       PROVE  h[k] = Take(h[k - 1], list[k])
  <2>1. 1 .. k \in SUBSET (1 .. n) /\ 1 .. k # {} /\ (1 .. k) \ {k} = 1 .. k - 1
    BY <1>1
  <2>2. Max(1 .. k) = k
    BY <1>1 DEF Max
  <2>3. k \in 0 .. n /\ k - 1 \in 0 .. n
    BY <1>1
  <2> QED
    BY <1>9, <2>1, <2>2, <2>3
<1>12. CompressOnce(list) = h[n]
  BY <1>1, <1>8 DEF iter
<1> HIDE DEF h
<1>13. \A k \in 0 .. n : h[k] \in T
  <2> DEFINE Fails == {k \in 0 .. n : h[k] \notin T}
  <2> SUFFICES ASSUME Fails # {} PROVE FALSE
    OBVIOUS
  <2>1. PICK k \in Fails : \A j \in Fails : k <= j
    <3>1. Fails \in SUBSET Nat
      BY <1>1
    <3> HIDE DEF Fails
    <3> QED
      BY <3>1, LeastNumber
  <2>2. k \in 0 .. n /\ h[k] \notin T /\ k # 0
    BY <1>4, <1>10, <2>1
  <2>3. k \in 1 .. n /\ k - 1 \in 0 .. n /\ ~ (k <= k - 1)
    BY <1>1, <2>2
  <2>4. h[k - 1] \in T /\ list[k] \in R
    BY <1>1, <2>1, <2>3
  <2>5. Take(h[k - 1], list[k]) \in T
    BY <2>4, TakeType DEF T
  <2> QED
    BY <1>11, <2>2, <2>3, <2>5
<1>14. h \in [0 .. n -> T]
  <2>1. h = [k \in 0 .. n |-> h[k]]
    BY DEF h
  <2> QED
    BY <1>13, <2>1
<1> QED
  BY <1>10, <1>11, <1>12, <1>14 DEF n, T, R


LEMMA InSaidBy ==
  ASSUME NEW row
  PROVE  /\ \A a, b, c, d, e, f :
              <<a, b, c, d, e, f>> \in SaidBy(row) <=>
                /\ a \in row[1] /\ b \in row[2] /\ c \in row[3]
                /\ d \in row[4] /\ e \in row[5] /\ f \in row[6]
         /\ \A x \in SaidBy(row) : \E a, b, c, d, e, f : x = <<a, b, c, d, e, f>>
BY DEF SaidBy

(* Rows that differ in one cell say together what the merged row says.            *)
LEMMA MergeSays ==
  ASSUME NEW V, NEW p \in RowType(V), NEW q \in RowType(V), Mergeable(p, q)
  PROVE  /\ Merge(p, q) \in RowType(V)
         /\ SaidBy(Merge(p, q)) = SaidBy(p) \cup SaidBy(q)
<1> DEFINE D == {i \in 1 .. 6 : p[i] # q[i]}
           m == Merge(p, q)
<1>1. m \in RowType(V) /\ \A i \in 1 .. 6 : m[i] = p[i] \cup q[i]
  BY DEF RowType, Merge
<1>2. IsFiniteSet(D) /\ Cardinality(D) <= 1
  <2>1. IsFiniteSet(1 .. 6)
    <3>1. 1 \in Int /\ 6 \in Int
      OBVIOUS
    <3> QED
      BY <3>1, FS_Interval, Zenon
  <2>2. D = {i \in DOMAIN p : p[i] # q[i]}
    BY DEF RowType
  <2> QED
    BY <2>1, <2>2, FS_Subset DEF Mergeable
<1>3. \A i, j \in D : i = j
  <2> HIDE DEF D
  <2>1. Cardinality(D) \in Nat
    BY <1>2, FS_CardinalityType
  <2>2. CASE Cardinality(D) = 0
    BY <1>2, <2>2, FS_EmptySet
  <2>3. CASE Cardinality(D) = 1
    <3>1. \E x : D = {x}
      BY <1>2, <2>3, FS_Singleton
    <3> QED
      BY <3>1
  <2> QED
    BY <1>2, <2>1, <2>2, <2>3
<1>4. PICK k \in 1 .. 6 : \A i \in 1 .. 6 : i # k => p[i] = q[i]
  BY <1>3
<1> HIDE DEF m
<1>5. ASSUME NEW a, NEW b, NEW c, NEW d, NEW e, NEW f
      PROVE  <<a, b, c, d, e, f>> \in SaidBy(m) <=>
               <<a, b, c, d, e, f>> \in SaidBy(p) \cup SaidBy(q)
  <2> DEFINE x == <<a, b, c, d, e, f>>
             in(r) == /\ a \in r[1] /\ b \in r[2] /\ c \in r[3]
                      /\ d \in r[4] /\ e \in r[5] /\ f \in r[6]
  <2>1. \A r : x \in SaidBy(r) <=> in(r)
    BY InSaidBy
  <2>2. in(m) <=> in(p) \/ in(q)
    <3>1. CASE k = 1
      BY <1>1, <1>4, <3>1
    <3>2. CASE k = 2
      BY <1>1, <1>4, <3>2
    <3>3. CASE k = 3
      BY <1>1, <1>4, <3>3
    <3>4. CASE k = 4
      BY <1>1, <1>4, <3>4
    <3>5. CASE k = 5
      BY <1>1, <1>4, <3>5
    <3>6. CASE k = 6
      BY <1>1, <1>4, <3>6
    <3> QED
      BY <3>1, <3>2, <3>3, <3>4, <3>5, <3>6
  <2> HIDE DEF x, in
  <2>3. x \in SaidBy(m) <=> x \in SaidBy(p) \cup SaidBy(q)
    BY <2>1, <2>2
  <2> QED
    BY <2>3 DEF x
<1>6. SaidBy(m) = SaidBy(p) \cup SaidBy(q)
  <2>1. ASSUME NEW x \in SaidBy(m) PROVE x \in SaidBy(p) \cup SaidBy(q)
    <3>1. PICK a, b, c, d, e, f : x = <<a, b, c, d, e, f>>
      BY <2>1, InSaidBy
    <3> QED
      BY <1>5, <2>1, <3>1
  <2>2. ASSUME NEW x \in SaidBy(p) \cup SaidBy(q) PROVE x \in SaidBy(m)
    <3>1. PICK a, b, c, d, e, f : x = <<a, b, c, d, e, f>>
      BY <2>2, InSaidBy
    <3> QED
      BY <1>5, <2>2, <3>1
  <2> QED
    BY <2>1, <2>2
<1> QED
  BY <1>1, <1>6 DEF m

LEMMA SaidIs == \A list : Said(list) = UNION {SaidBy(list[i]) : i \in DOMAIN list}
BY DEF Said, SaidBy

(* What is taken is said, and nothing else.                                   *)
LEMMA TakeSays ==
  ASSUME NEW V, NEW done \in Seq(RowType(V)), NEW r \in RowType(V)
  PROVE  /\ Said(Take(done, r)) = Said(done) \cup SaidBy(r)
         /\ \/ Len(Take(done, r)) = Len(done)
            \/ /\ Take(done, r) = Append(done, r)
               /\ done # <<>> => ~ Mergeable(Last(done), r)
<1> DEFINE R == RowType(V)
           l == Len(done)
<1>1. done \in Seq(R) /\ r \in R
  OBVIOUS
<1>2. CASE ~ (done # <<>> /\ Mergeable(Last(done), r))
  <2>1. Take(done, r) = Append(done, r)
    BY <1>2 DEF Take
  <2>2. /\ DOMAIN done = 1 .. l /\ l \in Nat
        /\ DOMAIN Append(done, r) = 1 .. l + 1
        /\ \A i \in 1 .. l : Append(done, r)[i] = done[i]
        /\ Append(done, r)[l + 1] = r
    <3> HIDE DEF R
    <3> QED
      BY <1>1
  <2>3. Said(Append(done, r)) = Said(done) \cup SaidBy(r)
    <3>1. 1 .. l + 1 = (1 .. l) \cup {l + 1}
      BY <2>2
    <3> HIDE DEF l
    <3> QED
      BY <2>2, <3>1, SaidIs
  <2> QED
    BY <1>2, <2>1, <2>3
<1>3. CASE done # <<>> /\ Mergeable(Last(done), r)
  <2> DEFINE m == Merge(done[l], r)
             t == Append(Front(done), m)
  <2>1. Take(done, r) = t
    BY <1>3 DEF Take, Last
  <2>2. l \in Nat \ {0} /\ DOMAIN done = 1 .. l /\ \A i \in 1 .. l : done[i] \in R
    <3> HIDE DEF R
    <3> QED
      BY <1>1, <1>3
  <2>3. m \in R /\ SaidBy(m) = SaidBy(done[l]) \cup SaidBy(r)
    BY <1>3, <2>2, MergeSays DEF Last
  <2> HIDE DEF m, R
  <2>4. /\ Front(done) \in Seq(R) /\ Len(Front(done)) = l - 1
        /\ \A i \in 1 .. l - 1 : Front(done)[i] = done[i]
    BY <1>1, <2>2 DEF Front
  <2>5. /\ DOMAIN t = 1 .. l /\ Len(t) = l
        /\ \A i \in 1 .. l - 1 : t[i] = done[i]
        /\ t[l] = m
    <3> HIDE DEF l
    <3>1. Len(t) = (l - 1) + 1 /\ DOMAIN t = 1 .. (l - 1) + 1
      BY <2>2, <2>3, <2>4
    <3>2. (l - 1) + 1 = l
      BY <2>2
    <3> QED
      BY <2>2, <2>3, <2>4, <3>1, <3>2
  <2>6. 1 .. l = (1 .. l - 1) \cup {l}
    BY <2>2
  <2> HIDE DEF t, l
  <2>7. Said(t) = Said(done) \cup SaidBy(r)
    BY <2>2, <2>3, <2>5, <2>6, SaidIs
  <2> QED
    BY <2>1, <2>5, <2>7 DEF l
<1> QED
  BY <1>2, <1>3

NoneMergeable(list) ==
  \A i \in 1 .. Len(list) - 1 : ~ Mergeable(list[i], list[i + 1])

(* A pass keeps what the table says; and it has fewer rows, or it is the same and    *)
(* nothing in it could be merged.                                            *)
LEMMA PassIs ==
  ASSUME NEW V, NEW list \in Seq(RowType(V))
  PROVE  /\ CompressOnce(list) \in Seq(RowType(V))
         /\ Said(CompressOnce(list)) = Said(list)
         /\ \/ Len(CompressOnce(list)) < Len(list)
            \/ CompressOnce(list) = list /\ NoneMergeable(list)
<1> DEFINE R == RowType(V)
           n == Len(list)
<1>1. n \in Nat /\ DOMAIN list = 1 .. n /\ \A i \in 1 .. n : list[i] \in R
  <2> HIDE DEF R
  <2>1. list \in Seq(R)
    BY DEF R
  <2> QED
    BY <2>1
<1>2. PICK h \in [0 .. n -> Seq(R)] :
        /\ h[0] = <<>>
        /\ \A k \in 1 .. n : h[k] = Take(h[k - 1], list[k])
        /\ CompressOnce(list) = h[n]
  BY PassSteps
<1> DEFINE Holds(k) ==
             /\ Said(h[k]) = UNION {SaidBy(list[i]) : i \in 1 .. k}
             /\ \/ Len(h[k]) < k
                \/ /\ Len(h[k]) = k
                   /\ \A i \in 1 .. k : h[k][i] = list[i]
                   /\ \A i \in 1 .. k - 1 : ~ Mergeable(list[i], list[i + 1])
           Fails == {k \in 0 .. n : ~ Holds(k)}
<1> HIDE DEF n
<1>3. \A k \in 0 .. n : h[k] \in Seq(R) /\ Len(h[k]) \in Nat /\ DOMAIN h[k] = 1 .. Len(h[k])
  <2> HIDE DEF R
  <2> QED
    BY <1>2
<1>4. Holds(0)
  <2>1. h[0] = <<>> /\ Len(<<>>) = 0 /\ DOMAIN <<>> = {} /\ 1 .. 0 = {}
    BY <1>2
  <2> QED
    BY <2>1, SaidIs
<1>5. ASSUME NEW k \in 1 .. n, Holds(k - 1)
      PROVE  Holds(k)
  <2> DEFINE j == k - 1
             done == h[j]
             r == list[k]
  <2>1. /\ j \in 0 .. n /\ k \in 0 .. n /\ k = j + 1 /\ j \in Nat
        /\ h[k] = Take(done, r) /\ done \in Seq(R) /\ r \in R
    <3>1. j \in 0 .. n /\ k \in 0 .. n /\ k = j + 1 /\ j \in Nat
      BY <1>1
    <3>2. h[k] = Take(done, r)
      BY <1>2
    <3>3. done \in Seq(R)
      BY <1>3, <3>1
    <3>4. r \in R
      BY <1>1
    <3> HIDE DEF j, done, r
    <3> QED
      BY <3>1, <3>2, <3>3, <3>4
  <2>2. /\ Said(h[k]) = Said(done) \cup SaidBy(r)
        /\ \/ Len(h[k]) = Len(done)
           \/ /\ h[k] = Append(done, r)
              /\ done # <<>> => ~ Mergeable(Last(done), r)
    BY <2>1, TakeSays
  <2>3. Said(h[k]) = UNION {SaidBy(list[i]) : i \in 1 .. k}
    <3>1. 1 .. k = (1 .. j) \cup {k}
      BY <2>1
    <3>2. Said(done) = UNION {SaidBy(list[i]) : i \in 1 .. j}
      BY <1>5
    <3> HIDE DEF j, done
    <3> QED
      BY <2>2, <3>1, <3>2
  <2>4. Len(done) \in Nat /\ Len(done) <= j
    BY <1>3, <1>5, <2>1
  <2>5. CASE Len(h[k]) = Len(done)
    BY <2>1, <2>3, <2>4, <2>5
  <2>6. CASE /\ h[k] = Append(done, r)
             /\ done # <<>> => ~ Mergeable(Last(done), r)
    <3>1. /\ Len(h[k]) = Len(done) + 1
          /\ \A i \in 1 .. Len(done) : h[k][i] = done[i]
          /\ h[k][Len(done) + 1] = r
      <4> HIDE DEF R, done, r
      <4> QED
        BY <2>1, <2>4, <2>6
    <3>2. CASE Len(done) < j
      BY <2>1, <2>3, <2>4, <3>1, <3>2
    <3>3. CASE Len(done) = j
      <4>1. /\ \A i \in 1 .. j : done[i] = list[i]
            /\ \A i \in 1 .. j - 1 : ~ Mergeable(list[i], list[i + 1])
        BY <1>5, <2>1, <3>3
      <4>2. \A i \in 1 .. k : h[k][i] = list[i]
        BY <2>1, <3>1, <3>3, <4>1
      <4>3. ASSUME NEW i \in 1 .. k - 1 PROVE ~ Mergeable(list[i], list[i + 1])
        <5>1. CASE i = j
          <6>1. i + 1 = k /\ j \in 1 .. j
            BY <2>1, <5>1
          <6>2. Last(done) = list[j]
            <7>1. done[j] = list[j]
              BY <4>1, <6>1
            <7> QED
              BY <3>3, <7>1 DEF Last
          <6>3. done # <<>>
            <7>1. Len(<<>>) = 0 /\ j # 0
              BY <2>1, <6>1
            <7> QED
              BY <3>3, <7>1
          <6>4. ~ Mergeable(list[j], list[k])
            BY <2>6, <6>2, <6>3, Zenon
          <6> QED
            BY <5>1, <6>1, <6>4, Zenon
        <5>2. CASE i # j
          BY <2>1, <4>1, <5>2
        <5> QED
          BY <5>1, <5>2
      <4> QED
        BY <2>1, <2>3, <3>1, <3>3, <4>2, <4>3
    <3> QED
      BY <2>1, <2>4, <3>2, <3>3
  <2> QED
    BY <2>2, <2>5, <2>6
<1>6. Fails = {}
  <2> SUFFICES ASSUME Fails # {} PROVE FALSE
    OBVIOUS
  <2>1. PICK k \in Fails : \A j \in Fails : k <= j
    <3>1. Fails \in SUBSET Nat
      BY <1>1
    <3> HIDE DEF Fails
    <3> QED
      BY <3>1, LeastNumber
  <2> HIDE DEF Holds
  <2>2. k \in 0 .. n /\ ~ Holds(k) /\ k # 0
    BY <1>4, <2>1
  <2>3. k \in 1 .. n /\ k - 1 \in 0 .. n /\ ~ (k <= k - 1)
    BY <1>1, <2>2
  <2>4. Holds(k - 1)
    BY <2>1, <2>3
  <2> QED
    BY <1>5, <2>2, <2>3, <2>4
<1>7. n \in 0 .. n /\ Holds(n)
  <2>1. n \in 0 .. n
    BY <1>1
  <2> HIDE DEF Holds
  <2>2. n \notin Fails => Holds(n)
    BY <2>1
  <2> QED
    BY <1>6, <2>1, <2>2
<1>8. Said(h[n]) = Said(list)
  BY <1>1, <1>7, SaidIs
<1>9. ASSUME ~ (Len(h[n]) < n)
      PROVE  h[n] = list /\ NoneMergeable(list)
  <2>1. /\ Len(h[n]) = n /\ \A i \in 1 .. n : h[n][i] = list[i]
        /\ \A i \in 1 .. n - 1 : ~ Mergeable(list[i], list[i + 1])
    BY <1>7, <1>9
  <2>2. h[n] = list
    <3> HIDE DEF R
    <3>1. h[n] \in Seq(R) /\ list \in Seq(R) /\ Len(list) = n
      BY <1>3, <1>7 DEF R, n
    <3> QED
      BY <2>1, <3>1
  <2> QED
    BY <2>1, <2>2 DEF NoneMergeable, n
<1> QED
  BY <1>2, <1>3, <1>7, <1>8, <1>9 DEF n


(* The passes, as many as there are rows.                                      *)
LEMMA CompressSteps ==
  ASSUME NEW V, NEW list \in Seq(RowType(V))
  PROVE  \E h \in [0 .. Len(list) -> Seq(RowType(V))] :
           /\ h[0] = list
           /\ \A k \in 1 .. Len(list) : h[k] = CompressOnce(h[k - 1])
           /\ Compress(list) = h[Len(list)]
<1> DEFINE R == RowType(V)
           n == Len(list)
           T == Seq(R)
           step == [p \in T \X (1 .. n) |-> CompressOnce(p[1])]
           Rule(g) == g = [s \in SUBSET (1 .. n) |->
                             IF s = {} THEN list ELSE CompressOnce(g[s \ {Max(s)}])]
<1>1. n \in Nat /\ DOMAIN list = 1 .. n
  <2> HIDE DEF R
  <2>1. list \in Seq(R)
    BY DEF R
  <2> QED
    BY <2>1
<1>2. \A t \in T : CompressOnce(t) \in T
  BY PassIs
<1>3. step \in [T \X (1 .. n) -> T] /\ \A t \in T, i \in 1 .. n : step[<<t, i>>] = CompressOnce(t)
  BY <1>2
<1>4. list \in T
  OBVIOUS
<1> HIDE DEF T, step, n
<1>5. PICK g \in [SUBSET (1 .. n) -> T] :
        \A s \in SUBSET (1 .. n) :
          g[s] = IF s = {} THEN list ELSE step[<<g[s \ {Max(s)}], Max(s)>>]
  <2>1. Foldable(n, T, list, step)
    BY <1>1, <1>3, <1>4, FoldExists
  <2> QED
    BY <2>1 DEF Foldable
<1>6. \A s \in SUBSET (1 .. n) : s # {} => Max(s) \in 1 .. n
  BY <1>1, MaxIsIn
<1>7. Rule(g)
  <2>1. ASSUME NEW s \in SUBSET (1 .. n)
        PROVE  g[s] = IF s = {} THEN list ELSE CompressOnce(g[s \ {Max(s)}])
    <3>1. s # {} => g[s \ {Max(s)}] \in T /\ Max(s) \in 1 .. n
      BY <1>5, <1>6
    <3> QED
      BY <1>3, <1>5, <3>1
  <2> QED
    BY <1>5, <2>1
<1>8. Compress(list) = (CHOOSE f : Rule(f))[1 .. n]
  BY <1>1 DEF Compress, FoldLeft, MapThenFoldSet
<1> DEFINE iter == CHOOSE f : Rule(f)
<1>9. \A s \in SUBSET (1 .. n) :
        iter[s] = IF s = {} THEN list ELSE CompressOnce(iter[s \ {Max(s)}])
  <2>1. Rule(iter)
    <3> HIDE DEF Rule
    <3> QED
      BY <1>7
  <2> HIDE DEF iter
  <2> QED
    BY <2>1
<1> HIDE DEF iter, Rule
<1> DEFINE h == [k \in 0 .. n |-> iter[1 .. k]]
<1>10. h[0] = list
  <2>1. 1 .. 0 = {} /\ {} \in SUBSET (1 .. n) /\ 0 \in 0 .. n
    BY <1>1
  <2> QED
    BY <1>9, <2>1
<1>11. ASSUME NEW k \in 1 .. n
       PROVE  h[k] = CompressOnce(h[k - 1])
  <2>1. 1 .. k \in SUBSET (1 .. n) /\ 1 .. k # {} /\ (1 .. k) \ {k} = 1 .. k - 1
    <3>1. (1 .. k) \ {k} = 1 .. k - 1
      BY <1>1
    <3>2. k \in 1 .. k /\ \A i \in 1 .. k : i \in 1 .. n
      BY <1>1
    <3> QED
      BY <3>1, <3>2
  <2>2. Max(1 .. k) = k
    BY <1>1 DEF Max
  <2>3. k \in 0 .. n /\ k - 1 \in 0 .. n
    BY <1>1
  <2> QED
    BY <1>9, <2>1, <2>2, <2>3
<1>12. Compress(list) = h[n]
  BY <1>1, <1>8 DEF iter
<1> HIDE DEF h
<1>13. \A k \in 0 .. n : h[k] \in T
  <2> DEFINE Fails == {k \in 0 .. n : h[k] \notin T}
  <2> SUFFICES ASSUME Fails # {} PROVE FALSE
    OBVIOUS
  <2>1. PICK k \in Fails : \A j \in Fails : k <= j
    <3>1. Fails \in SUBSET Nat
      BY <1>1
    <3> HIDE DEF Fails
    <3> QED
      BY <3>1, LeastNumber
  <2>2. k \in 0 .. n /\ h[k] \notin T /\ k # 0
    BY <1>4, <1>10, <2>1
  <2>3. k \in 1 .. n /\ k - 1 \in 0 .. n /\ ~ (k <= k - 1)
    BY <1>1, <2>2
  <2>4. h[k - 1] \in T
    BY <1>1, <2>1, <2>3
  <2> QED
    BY <1>2, <1>11, <2>2, <2>3, <2>4
<1>14. h \in [0 .. n -> T]
  <2>1. h = [k \in 0 .. n |-> h[k]]
    BY DEF h
  <2> QED
    BY <1>13, <2>1
<1> QED
  BY <1>10, <1>11, <1>12, <1>14 DEF n, T, R

(* As many passes as there are rows are enough: each that changes anything leaves   *)
(* fewer, and one that changes nothing is the last that is needed.              *)
LEMMA CompressIs ==
  ASSUME NEW V, NEW list \in Seq(RowType(V))
  PROVE  Said(Compress(list)) = Said(list) /\ NoneMergeable(Compress(list))
<1> DEFINE T == Seq(RowType(V))
           n == Len(list)
<1>1. n \in Nat /\ \A t \in T : Len(t) \in Nat
  <2> DEFINE R == RowType(V)
  <2> HIDE DEF R
  <2>1. \A t \in Seq(R) : Len(t) \in Nat
    OBVIOUS
  <2> QED
    BY <2>1 DEF R
<1>2. PICK h \in [0 .. n -> T] :
        /\ h[0] = list
        /\ \A k \in 1 .. n : h[k] = CompressOnce(h[k - 1])
        /\ Compress(list) = h[n]
  BY CompressSteps
<1>3. \A t \in T : /\ CompressOnce(t) \in T /\ Said(CompressOnce(t)) = Said(t)
                   /\ \/ Len(CompressOnce(t)) < Len(t)
                      \/ CompressOnce(t) = t /\ NoneMergeable(t)
  BY PassIs
<1> DEFINE Holds(k) == /\ Said(h[k]) = Said(list)
                       /\ \/ Len(h[k]) <= n - k
                          \/ CompressOnce(h[k]) = h[k] /\ NoneMergeable(h[k])
           Fails == {k \in 0 .. n : ~ Holds(k)}
<1>4. Holds(0)
  BY <1>1, <1>2
<1> HIDE DEF n, T
<1>5. ASSUME NEW k \in 1 .. n, Holds(k - 1)
      PROVE  Holds(k)
  <2> DEFINE t == h[k - 1]
  <2>1. t \in T /\ h[k] = CompressOnce(t) /\ k \in Int /\ Len(t) \in Nat
    BY <1>1, <1>2
  <2>2. /\ Said(t) = Said(list)
        /\ \/ Len(t) <= n - (k - 1)
           \/ CompressOnce(t) = t /\ NoneMergeable(t)
    BY <1>5, Zenon
  <2> HIDE DEF t
  <2>3. CASE Len(CompressOnce(t)) < Len(t)
    <3>1. Len(CompressOnce(t)) \in Nat /\ CompressOnce(t) # t
      BY <1>1, <1>3, <2>1, <2>3
    <3> QED
      BY <1>1, <1>3, <2>1, <2>2, <2>3, <3>1
  <2>4. CASE CompressOnce(t) = t /\ NoneMergeable(t)
    BY <2>1, <2>2, <2>4
  <2> QED
    BY <1>3, <2>1, <2>3, <2>4
<1>6. n \in 0 .. n /\ Holds(n)
  <2>1. Fails = {}
    <3> SUFFICES ASSUME Fails # {} PROVE FALSE
      OBVIOUS
    <3>1. PICK k \in Fails : \A j \in Fails : k <= j
      <4>1. Fails \in SUBSET Nat
        BY <1>1
      <4> HIDE DEF Fails
      <4> QED
        BY <4>1, LeastNumber
    <3> HIDE DEF Holds
    <3>2. k \in 0 .. n /\ ~ Holds(k) /\ k # 0
      BY <1>4, <3>1
    <3>3. k \in 1 .. n /\ k - 1 \in 0 .. n /\ ~ (k <= k - 1)
      BY <1>1, <3>2
    <3> QED
      BY <1>5, <3>1, <3>2, <3>3
  <2> HIDE DEF Holds
  <2> QED
    BY <1>1, <2>1
<1>7. NoneMergeable(h[n])
  <2>1. h[n] \in T /\ Len(h[n]) \in Nat
    BY <1>1, <1>6
  <2>2. Len(h[n]) <= 0 => NoneMergeable(h[n])
    BY <2>1 DEF NoneMergeable
  <2> QED
    BY <1>1, <1>6, <2>1, <2>2
<1> QED
  BY <1>2, <1>6, <1>7

(* The rows of the table of prunings are rows.                                  *)
LEMMA PruneTables ==
  ASSUME IsFiniteSet(rows), NEW list \in PruneOrders
  PROVE  \E V : list \in Seq(RowType(V))
<1> DEFINE V == UNION {UNION {PruneRow(r)[i] : i \in 1 .. 6} : r \in rows}
           R == RowType(V)
           n == Cardinality(PrunedLately)
<1>1. PrunedLately \subseteq rows
  BY DEF PrunedLately
<1>2. n \in Nat
  <2>1. IsFiniteSet(PrunedLately)
    BY <1>1, FS_Subset
  <2> QED
    BY <2>1, FS_CardinalityType
<1>3. PICK s \in [1 .. n -> PrunedLately] : list = [i \in DOMAIN s |-> PruneRow(s[i])]
  BY DEF PruneOrders, SetToSeqs
<1>4. ASSUME NEW r \in rows PROVE PruneRow(r) \in R
  <2>1. PruneRow(r) = [i \in 1 .. 6 |-> PruneRow(r)[i]]
    BY DEF PruneRow
  <2>2. \A i \in 1 .. 6 : PruneRow(r)[i] \in SUBSET V
    OBVIOUS
  <2> HIDE DEF V
  <2> QED
    BY <2>1, <2>2 DEF RowType
<1> HIDE DEF R, n
<1>5. list \in [1 .. n -> R]
  BY <1>1, <1>3, <1>4
<1>6. list \in Seq(R)
  BY <1>2, <1>5
<1> QED
  BY <1>6 DEF R

(* The table of prunings says what its rows said and no two neighbours in it could   *)
(* be merged, however many there are (CompressTable.h).                       *)
THEOREM PruneTablesExact == RecordsSpec => []PruneTableExact
<1>1. Consistent => PruneTableExact
  <2> SUFFICES ASSUME Consistent, NEW list \in PruneOrders
               PROVE  /\ Said(Compress(list)) = Said(list)
                      /\ NoneMergeable(Compress(list))
    BY DEF PruneTableExact, NoneMergeable
  <2>1. \E V : list \in Seq(RowType(V))
    BY PruneTables DEF Consistent, Typed
  <2> QED
    BY <2>1, CompressIs
<1> QED
  BY <1>1, AlwaysConsistent, PTL

-----------------------------------------------------------------------------
(* The summary table. Its cells are added one by one, and where the next      *)
(* one goes is where those before left a place. So the proof follows the      *)
(* table row by row: what is left of its cells, where the cursor is, and      *)
(* how far down each column is covered without gaps, which grows by a         *)
(* cell's height where the columns under it are level. Sums over columns,     *)
(* cells and hosts come first: they are folds over sets, in an order that     *)
(* nobody knows.                                                              *)

(* Of some subsets of a finite set there is one without a smaller one.           *)
LEMMA LeastSet ==
  ASSUME NEW S, IsFiniteSet(S), NEW F \in SUBSET (SUBSET S), F # {}
  PROVE  \E s \in F : \A x \in s : s \ {x} \notin F
<1> DEFINE K == {Cardinality(s) : s \in F}
<1>1. \A s \in F : IsFiniteSet(s) /\ Cardinality(s) \in Nat
  BY FS_Subset, FS_CardinalityType
<1>2. K \in SUBSET Nat /\ K # {}
  BY <1>1
<1>3. PICK k \in K : \A l \in K : k <= l
  BY <1>2, LeastNumber
<1>4. PICK s \in F : k = Cardinality(s)
  BY <1>3
<1>5. ASSUME NEW x \in s, s \ {x} \in F PROVE FALSE
  <2>1. Cardinality(s \ {x}) = Cardinality(s) - 1
    BY <1>1, <1>4, FS_RemoveElement
  <2>2. Cardinality(s \ {x}) \in K
    BY <1>5
  <2>3. Cardinality(s) \in Nat /\ Cardinality(s) <= Cardinality(s) - 1
    BY <1>1, <1>3, <1>4, <2>1, <2>2
  <2> QED
    BY <2>3
<1> QED
  BY <1>5

(* Sums, as the library takes them: element by element, in some order.           *)
Chosen(s) == CHOOSE x \in s : TRUE

(* The member that a fold takes first is one.                                 *)
LEMMA ChosenIsIn == \A s : s # {} => Chosen(s) \in s
BY DEF Chosen

Sums(g, f, S) ==
  \A s \in SUBSET S : g[s] = IF s = {} THEN 0 ELSE f[Chosen(s)] + g[s \ {Chosen(s)}]

(* What is the same on a set has the same sums over its subsets.              *)
LEMMA SumsUnique ==
  ASSUME NEW S, IsFiniteSet(S), NEW f, NEW e, NEW g, NEW h, Sums(g, f, S), Sums(h, e, S),
         \A x \in S : f[x] = e[x]
  PROVE  \A s \in SUBSET S : g[s] = h[s]
<1> DEFINE F == {s \in SUBSET S : g[s] # h[s]}
<1> SUFFICES ASSUME F # {} PROVE FALSE
  OBVIOUS
<1>1. PICK s \in F : \A x \in s : s \ {x} \notin F
  <2>1. F \in SUBSET (SUBSET S)
    OBVIOUS
  <2> HIDE DEF F
  <2> QED
    BY <2>1, LeastSet
<1>2. s \in SUBSET S /\ g[s] # h[s]
  BY <1>1
<1>3. s # {}
  BY <1>2 DEF Sums
<1>4. PICK x : x = Chosen(s)
  OBVIOUS
<1>5. x \in s /\ s \ {x} \in SUBSET S
  BY <1>2, <1>3, <1>4, ChosenIsIn
<1>6. g[s \ {x}] = h[s \ {x}]
  BY <1>1, <1>5
<1>7. g[s] = f[x] + g[s \ {x}] /\ h[s] = e[x] + h[s \ {x}]
  BY <1>2, <1>3, <1>4 DEF Sums
<1> QED
  BY <1>2, <1>5, <1>6, <1>7

(* A function with numbers on a finite set has sums over its subsets.         *)
LEMMA SumsExist ==
  ASSUME NEW S, IsFiniteSet(S), NEW f, \A x \in S : f[x] \in Nat
  PROVE  \E g \in [SUBSET S -> Nat] : Sums(g, f, S)
<1> DEFINE F == {s \in SUBSET S : ~ \E g \in [SUBSET s -> Nat] : Sums(g, f, s)}
<1>0. F = {} => \E g \in [SUBSET S -> Nat] : Sums(g, f, S)
  OBVIOUS
<1> SUFFICES ASSUME F # {} PROVE FALSE
  BY <1>0
<1>1. PICK s \in F : \A x \in s : s \ {x} \notin F
  <2>1. F \in SUBSET (SUBSET S)
    OBVIOUS
  <2> HIDE DEF F
  <2> QED
    BY <2>1, LeastSet
<1>2. s \in SUBSET S /\ ~ \E g \in [SUBSET s -> Nat] : Sums(g, f, s)
  BY <1>1
<1>3. IsFiniteSet(s)
  BY <1>2, FS_Subset
<1>4. \A x \in s : \E g \in [SUBSET (s \ {x}) -> Nat] : Sums(g, f, s \ {x})
  BY <1>1, <1>2
<1> DEFINE G(x) == CHOOSE g \in [SUBSET (s \ {x}) -> Nat] : Sums(g, f, s \ {x})
<1>5. \A x \in s : G(x) \in [SUBSET (s \ {x}) -> Nat] /\ Sums(G(x), f, s \ {x})
  BY <1>4
<1> HIDE DEF G
(* Every smaller set is one of these; and where two give its sum, it is the same.   *)
<1>6. \A x, y \in s : \A t \in SUBSET (s \ {x, y}) : G(x)[t] = G(y)[t]
  <2> SUFFICES ASSUME NEW x \in s, NEW y \in s, NEW t \in SUBSET (s \ {x, y})
               PROVE  G(x)[t] = G(y)[t]
    OBVIOUS
  <2>1. PICK T, g, h : T = s \ {x, y} /\ g = G(x) /\ h = G(y)
    OBVIOUS
  <2>2. IsFiniteSet(T) /\ T \in SUBSET s
    BY <1>3, <2>1, FS_Subset
  <2>3. Sums(g, f, T)
    BY <1>5, <2>1 DEF Sums
  <2>4. Sums(h, f, T)
    BY <1>5, <2>1 DEF Sums
  <2> QED
    BY <2>1, <2>2, <2>3, <2>4, SumsUnique
<1> DEFINE Part(t) == IF t = {} THEN 0
                      ELSE f[Chosen(t)] + G(Chosen(t))[t \ {Chosen(t)}]
           h == [t \in SUBSET s |-> Part(t)]
<1>7. ASSUME NEW t \in SUBSET s, t # {}
      PROVE  /\ Chosen(t) \in s /\ Chosen(t) \in S /\ Chosen(t) \in t
             /\ t \ {Chosen(t)} \in SUBSET (s \ {Chosen(t)})
  BY <1>2, <1>7, ChosenIsIn
<1>8. h \in [SUBSET s -> Nat]
  <2>1. ASSUME NEW t \in SUBSET s, t # {}
        PROVE  Part(t) \in Nat
    <3>1. PICK x, u : x = Chosen(t) /\ u = t \ {x}
      OBVIOUS
    <3>2. x \in s /\ x \in S /\ u \in SUBSET (s \ {x})
      BY <1>7, <2>1, <3>1
    <3>3. G(x)[u] \in Nat /\ f[x] \in Nat
      BY <1>5, <3>2
    <3> QED
      BY <2>1, <3>1, <3>3
  <2>2. Part({}) \in Nat
    OBVIOUS
  <2>3. \A t \in SUBSET s : Part(t) \in Nat
    BY <2>1, <2>2
  <2> HIDE DEF Part
  <2> QED
    BY <2>3
<1>9. ASSUME NEW t \in SUBSET s, t # {}, NEW x \in s, x \notin t
      PROVE  G(x)[t] = h[t]
  <2>1. PICK c, u : c = Chosen(t) /\ u = t \ {c}
    OBVIOUS
  <2>2. c \in s /\ u \in SUBSET (s \ {x, c}) /\ t \in SUBSET (s \ {x})
    BY <1>7, <1>9, <2>1
  <2>3. G(x)[u] = G(c)[u]
    BY <1>6, <2>2
  <2>4. G(x)[t] = f[c] + G(x)[u]
    BY <1>5, <1>9, <2>1, <2>2 DEF Sums
  <2>5. h[t] = f[c] + G(c)[u]
    BY <1>9, <2>1
  <2> HIDE DEF h
  <2> QED
    BY <2>3, <2>4, <2>5
<1>10. \A x \in s : G(x)[{}] = 0 /\ h[{}] = 0
  <2>1. \A x \in s : {} \in SUBSET (s \ {x})
    OBVIOUS
  <2> QED
    BY <1>5, <2>1 DEF Sums
<1>11. Sums(h, f, s)
  <2> SUFFICES ASSUME NEW t \in SUBSET s
               PROVE  h[t] = IF t = {} THEN 0 ELSE f[Chosen(t)] + h[t \ {Chosen(t)}]
    BY DEF Sums
  <2>1. CASE t = {}
    BY <2>1
  <2>2. CASE t # {}
    <3>1. PICK c, u : c = Chosen(t) /\ u = t \ {c}
      OBVIOUS
    <3>2. c \in s /\ u \in SUBSET s /\ c \notin u
      BY <1>7, <2>2, <3>1
    <3>3. h[t] = f[c] + G(c)[u]
      BY <2>2, <3>1
    <3> HIDE DEF h
    <3>4. G(c)[u] = h[u]
      BY <1>9, <1>10, <3>2
    <3> QED
      BY <2>2, <3>1, <3>3, <3>4
  <2> QED
    BY <2>1, <2>2
<1> HIDE DEF h
<1> QED
  BY <1>2, <1>8, <1>11

SumOver(f, S) == SumFunctionOnSet(f, S)

(* SumOver is the sum over the whole of the set.                              *)
LEMMA SumIs ==
  ASSUME NEW S, IsFiniteSet(S), NEW f, NEW g, g \in [SUBSET S -> Nat], Sums(g, f, S)
  PROVE  SumOver(f, S) = g[S]
<1> DEFINE Rule(h) == h = [s \in SUBSET S |-> IF s = {} THEN 0
                                              ELSE f[Chosen(s)] + h[s \ {Chosen(s)}]]
<1>1. Rule(g)
  BY DEF Sums
<1>2. SumOver(f, S) = (CHOOSE h : Rule(h))[S]
  BY DEF SumOver, SumFunctionOnSet, FoldFunctionOnSet, MapThenFoldSet, Chosen
<1> DEFINE iter == CHOOSE h : Rule(h)
<1>3. Rule(iter)
  <2> HIDE DEF Rule
  <2> QED
    BY <1>1
<1>4. Sums(iter, f, S)
  <2> HIDE DEF iter
  <2> QED
    BY <1>3 DEF Sums
<1>5. SumOver(f, S) = iter[S]
  BY <1>2
<1> HIDE DEF iter, Rule
<1>6. iter[S] = g[S]
  <2>1. \A s \in SUBSET S : iter[s] = g[s]
    BY <1>4, SumsUnique
  <2> QED
    BY <2>1
<1> QED
  BY <1>5, <1>6

(* A sum of numbers is a number, and of none 0.                               *)
LEMMA SumType ==
  ASSUME NEW S, IsFiniteSet(S), NEW f, \A x \in S : f[x] \in Nat
  PROVE  SumOver(f, S) \in Nat /\ (S = {} => SumOver(f, S) = 0)
<1>1. PICK g \in [SUBSET S -> Nat] : Sums(g, f, S)
  BY SumsExist
<1>2. SumOver(f, S) = g[S]
  BY <1>1, SumIs
<1>3. g[S] \in Nat /\ (S = {} => g[S] = 0)
  BY <1>1 DEF Sums
<1> QED
  BY <1>2, <1>3

(* A sum over a part of a set is what the recursion has for it.                   *)
LEMMA PartIs ==
  ASSUME NEW S, IsFiniteSet(S), NEW f, NEW g \in [SUBSET S -> Nat], Sums(g, f, S),
         NEW s \in SUBSET S
  PROVE  SumOver(f, s) = g[s]
<1> DEFINE h == [t \in SUBSET s |-> g[t]]
<1>1. IsFiniteSet(s)
  BY FS_Subset
<1>2. h \in [SUBSET s -> Nat] /\ h[s] = g[s]
  OBVIOUS
<1>3. Sums(h, f, s)
  <2> SUFFICES ASSUME NEW t \in SUBSET s
               PROVE  h[t] = IF t = {} THEN 0 ELSE f[Chosen(t)] + h[t \ {Chosen(t)}]
    BY DEF Sums
  <2>1. t \in SUBSET S /\ t \ {Chosen(t)} \in SUBSET s
    OBVIOUS
  <2>2. h[t] = g[t] /\ h[t \ {Chosen(t)}] = g[t \ {Chosen(t)}]
    BY <2>1
  <2> HIDE DEF h
  <2> QED
    BY <2>1, <2>2 DEF Sums
<1> HIDE DEF h
<1> QED
  BY <1>1, <1>2, <1>3, SumIs

(* The order does not matter: any element may come first.                        *)
LEMMA SumSplit ==
  ASSUME NEW S, IsFiniteSet(S), NEW f, \A x \in S : f[x] \in Nat, NEW x \in S
  PROVE  SumOver(f, S) = f[x] + SumOver(f, S \ {x})
<1>1. PICK g \in [SUBSET S -> Nat] : Sums(g, f, S)
  BY SumsExist
<1> DEFINE F == {s \in SUBSET S : \E y \in s : g[s] # f[y] + g[s \ {y}]}
<1>2. F = {}
  <2> SUFFICES ASSUME F # {} PROVE FALSE
    OBVIOUS
  <2>1. PICK s \in F : \A y \in s : s \ {y} \notin F
    <3>1. F \in SUBSET (SUBSET S)
      OBVIOUS
    <3> HIDE DEF F
    <3> QED
      BY <3>1, LeastSet
  <2>2. PICK y \in s : g[s] # f[y] + g[s \ {y}]
    BY <2>1
  <2>3. PICK c : c = Chosen(s)
    OBVIOUS
  <2>4. s \in SUBSET S /\ c \in s /\ s # {}
    BY <2>1, <2>2, <2>3, ChosenIsIn
  <2>5. g[s] = f[c] + g[s \ {c}]
    BY <1>1, <2>3, <2>4 DEF Sums
  <2>6. c # y
    BY <2>2, <2>5
  <2>7. PICK t, u, v : t = s \ {c} /\ u = s \ {y} /\ v = s \ {c, y}
    OBVIOUS
  <2>8. t \in SUBSET S /\ u \in SUBSET S /\ v \in SUBSET S /\ y \in t /\ c \in u
    BY <2>2, <2>4, <2>6, <2>7
  <2>9. t \notin F /\ u \notin F
    BY <2>1, <2>2, <2>4, <2>7
  <2>10. t \ {y} = v /\ u \ {c} = v
    BY <2>7
  <2>11. g[t] = f[y] + g[v]
    BY <2>8, <2>9, <2>10
  <2>12. g[u] = f[c] + g[v]
    BY <2>8, <2>9, <2>10
  <2>13. f[c] \in Nat /\ f[y] \in Nat /\ g[v] \in Nat
    BY <1>1, <2>2, <2>4, <2>8
  <2>14. g[s] = f[y] + g[u]
    <3> HIDE DEF F
    <3> QED
      BY <2>5, <2>7, <2>11, <2>12, <2>13
  <2> QED
    BY <2>2, <2>7, <2>14
<1>3. g[S] = f[x] + g[S \ {x}]
  BY <1>2
<1>4. SumOver(f, S) = g[S] /\ SumOver(f, S \ {x}) = g[S \ {x}]
  BY <1>1, PartIs
<1> QED
  BY <1>3, <1>4

(* The sum over one member more.                                              *)
LEMMA SumAdd ==
  ASSUME NEW S, IsFiniteSet(S), NEW f, NEW x, x \notin S, f[x] \in Nat,
         \A y \in S : f[y] \in Nat
  PROVE  SumOver(f, S \cup {x}) = f[x] + SumOver(f, S)
<1> DEFINE T == S \cup {x}
<1>1. IsFiniteSet(T) /\ x \in T /\ T \ {x} = S /\ \A y \in T : f[y] \in Nat
  BY FS_AddElement
<1> HIDE DEF T
<1>2. SumOver(f, T) = f[x] + SumOver(f, T \ {x})
  BY <1>1, SumSplit
<1> QED
  BY <1>1, <1>2 DEF T

(* Functions that agree on a set have one sum over it.                        *)
LEMMA SumSame ==
  ASSUME NEW S, IsFiniteSet(S), NEW f, NEW e, \A x \in S : f[x] \in Nat,
         \A x \in S : e[x] = f[x]
  PROVE  SumOver(f, S) = SumOver(e, S)
<1>1. PICK g \in [SUBSET S -> Nat] : Sums(g, f, S)
  BY SumsExist
<1>2. \A x \in S : e[x] \in Nat
  OBVIOUS
<1>3. PICK h \in [SUBSET S -> Nat] : Sums(h, e, S)
  BY <1>2, SumsExist
<1>4. g[S] = h[S]
  <2>1. \A s \in SUBSET S : g[s] = h[s]
    BY <1>1, <1>3, SumsUnique
  <2> QED
    BY <2>1
<1>5. SumOver(f, S) = g[S]
  BY <1>1, SumIs
<1>6. SumOver(e, S) = h[S]
  BY <1>3, SumIs
<1> QED
  BY <1>4, <1>5, <1>6

(* What is nowhere less has no lesser sum.                                    *)
LEMMA SumMonotone ==
  ASSUME NEW S, IsFiniteSet(S), NEW f, NEW e, \A x \in S : f[x] \in Nat /\ e[x] \in Nat,
         \A x \in S : f[x] <= e[x]
  PROVE  SumOver(f, S) <= SumOver(e, S)
<1>1. PICK g \in [SUBSET S -> Nat] : Sums(g, f, S)
  BY SumsExist
<1>2. PICK h \in [SUBSET S -> Nat] : Sums(h, e, S)
  BY SumsExist
<1> DEFINE F == {s \in SUBSET S : ~ (g[s] <= h[s])}
<1>3. F = {}
  <2> SUFFICES ASSUME F # {} PROVE FALSE
    OBVIOUS
  <2>1. PICK s \in F : \A y \in s : s \ {y} \notin F
    <3>1. F \in SUBSET (SUBSET S)
      OBVIOUS
    <3> HIDE DEF F
    <3> QED
      BY <3>1, LeastSet
  <2>2. s \in SUBSET S /\ ~ (g[s] <= h[s])
    BY <2>1
  <2>3. s # {}
    BY <1>1, <1>2, <2>2 DEF Sums
  <2>4. PICK c, t : c = Chosen(s) /\ t = s \ {c}
    OBVIOUS
  <2>5. c \in s /\ t \in SUBSET S
    BY <2>2, <2>3, <2>4, ChosenIsIn
  <2>6. g[s] = f[c] + g[t] /\ h[s] = e[c] + h[t]
    BY <1>1, <1>2, <2>2, <2>3, <2>4 DEF Sums
  <2>7. g[t] <= h[t]
    BY <2>1, <2>4, <2>5
  <2>8. c \in S /\ f[c] <= e[c] /\ f[c] \in Nat /\ e[c] \in Nat /\ g[t] \in Nat /\ h[t] \in Nat
    BY <1>1, <1>2, <2>2, <2>5
  <2> HIDE DEF F
  <2> QED
    BY <2>2, <2>6, <2>7, <2>8
<1>4. g[S] <= h[S]
  BY <1>3
<1>5. SumOver(f, S) = g[S]
  BY <1>1, SumIs
<1>6. SumOver(e, S) = h[S]
  BY <1>2, SumIs
<1> QED
  BY <1>4, <1>5, <1>6

(* One summand grows.                                                          *)
LEMMA SumGrows ==
  ASSUME NEW S, IsFiniteSet(S), NEW f, NEW e, NEW x \in S, NEW d \in Nat,
         \A y \in S : f[y] \in Nat, e[x] = f[x] + d,
         \A y \in S : y # x => e[y] = f[y]
  PROVE  SumOver(e, S) = SumOver(f, S) + d
<1>1. PICK T : T = S \ {x}
  OBVIOUS
<1>2. IsFiniteSet(T) /\ \A y \in T : f[y] \in Nat /\ e[y] = f[y]
  BY <1>1, FS_RemoveElement
<1>3. SumOver(f, S) = f[x] + SumOver(f, T)
  BY <1>1, SumSplit
<1>4. \A y \in S : e[y] \in Nat
  OBVIOUS
<1>5. SumOver(e, S) = e[x] + SumOver(e, T)
  BY <1>1, <1>4, SumSplit
<1>6. SumOver(f, T) = SumOver(e, T)
  BY <1>2, SumSame
<1>7. SumOver(f, T) \in Nat /\ f[x] \in Nat
  BY <1>2, SumType
<1> QED
  BY <1>3, <1>5, <1>6, <1>7

(* Intervals are finite.                                                      *)
LEMMA IntervalFinite == \A a, b \in Int : IsFiniteSet(a .. b)
BY FS_Interval

(* The sum over an interval, by its last member.                              *)
LEMMA SumNext ==
  ASSUME NEW a \in Int, NEW b \in Int, a <= b, NEW f, \A i \in a .. b : f[i] \in Nat
  PROVE  SumOver(f, a .. b) = SumOver(f, a .. b - 1) + f[b]
<1>1. (a .. b) \ {b} = a .. b - 1 /\ b \in a .. b
  OBVIOUS
<1>2. IsFiniteSet(a .. b) /\ IsFiniteSet(a .. b - 1)
  <2>1. b - 1 \in Int
    OBVIOUS
  <2> QED
    BY <2>1, IntervalFinite
<1>3. SumOver(f, a .. b) = f[b] + SumOver(f, a .. b - 1)
  BY <1>1, <1>2, SumSplit
<1>4. \A i \in a .. b - 1 : f[i] \in Nat
  OBVIOUS
<1>5. SumOver(f, a .. b - 1) \in Nat /\ f[b] \in Nat
  BY <1>1, <1>2, <1>4, SumType
<1> QED
  BY <1>3, <1>5

(* The sum over an empty interval is 0.                                       *)
LEMMA SumNone ==
  ASSUME NEW a \in Int, NEW b \in Int, b < a, NEW f
  PROVE  SumOver(f, a .. b) = 0
<1>1. a .. b = {}
  OBVIOUS
<1>2. IsFiniteSet({}) /\ \A x \in {} : f[x] \in Nat
  BY FS_EmptySet
<1> QED
  BY <1>1, <1>2, SumType

(* A sum of numbers over an interval is a number.                             *)
LEMMA SumInterval ==
  ASSUME NEW a \in Int, NEW b \in Int, NEW f, \A i \in a .. b : f[i] \in Nat
  PROVE  SumOver(f, a .. b) \in Nat
BY IntervalFinite, SumType

(* The sum over an interval is those over its two parts.                      *)
LEMMA SumConcat ==
  ASSUME NEW a \in Int, NEW b \in Int, NEW c \in Int, a <= b + 1, b <= c,
         NEW f, \A i \in a .. c : f[i] \in Nat
  PROVE  SumOver(f, a .. c) = SumOver(f, a .. b) + SumOver(f, b + 1 .. c)
<1> DEFINE F == {k \in Nat : /\ b + k <= c
                             /\ SumOver(f, a .. b + k)
                                  # SumOver(f, a .. b) + SumOver(f, b + 1 .. b + k)}
<1>1. F = {}
  <2> SUFFICES ASSUME F # {} PROVE FALSE
    OBVIOUS
  <2>1. PICK k \in F : \A l \in F : k <= l
    <3>1. F \in SUBSET Nat
      OBVIOUS
    <3> HIDE DEF F
    <3> QED
      BY <3>1, LeastNumber
  <2>2. /\ k \in Nat /\ b + k <= c
        /\ SumOver(f, a .. b + k) # SumOver(f, a .. b) + SumOver(f, b + 1 .. b + k)
    BY <2>1
  <2>3. PICK m : m = b + k
    OBVIOUS
  <2>4. m \in Int /\ m <= c /\ b <= m /\ b + 1 \in Int
    BY <2>2, <2>3
  <2>5. \A i \in a .. b : f[i] \in Nat
    BY <2>4
  <2>6. SumOver(f, a .. b) \in Nat
    BY <2>5, SumInterval
  <2>7. CASE k = 0
    <3>1. SumOver(f, b + 1 .. m) = 0
      BY <2>3, <2>4, <2>7, SumNone
    <3> QED
      BY <2>2, <2>3, <2>6, <2>7, <3>1
  <2>8. CASE k # 0
    <3>1. k - 1 \in Nat /\ b + (k - 1) = m - 1 /\ b + (k - 1) <= c /\ ~ (k <= k - 1)
      BY <2>2, <2>3, <2>8
    <3>2. SumOver(f, a .. m - 1) = SumOver(f, a .. b) + SumOver(f, b + 1 .. m - 1)
      BY <2>1, <3>1
    <3>3. \A i \in a .. m : f[i] \in Nat
      BY <2>4
    <3>4. \A i \in b + 1 .. m : f[i] \in Nat
      BY <2>4
    <3>5. a <= m /\ b + 1 <= m /\ f[m] \in Nat
      BY <2>2, <2>3, <2>4, <2>8, <3>3
    <3>6. SumOver(f, a .. m) = SumOver(f, a .. m - 1) + f[m]
      BY <2>4, <3>3, <3>5, SumNext
    <3>7. SumOver(f, b + 1 .. m) = SumOver(f, b + 1 .. m - 1) + f[m]
      BY <2>4, <3>4, <3>5, SumNext
    <3>8. SumOver(f, b + 1 .. m - 1) \in Nat
      <4>1. m - 1 \in Int /\ \A i \in b + 1 .. m - 1 : f[i] \in Nat
        BY <2>4, <3>4
      <4> QED
        BY <2>4, <4>1, SumInterval
    <3> HIDE DEF F
    <3> QED
      BY <2>2, <2>3, <2>6, <3>2, <3>5, <3>6, <3>7, <3>8
  <2> QED
    BY <2>7, <2>8
<1>2. PICK k : k = c - b
  OBVIOUS
<1>3. k \in Nat /\ b + k = c
  BY <1>2
<1>4. k \notin F
  BY <1>1
<1> QED
  BY <1>3, <1>4

(* What FlattenSeq() builds up: the sequences put together, from the first on.      *)
Flattens(g, s) ==
  \A i \in 1 .. Len(s) : g[i] = IF i = 1 THEN s[i] ELSE g[i - 1] \o s[i]

(* A sequence of sequences can be flattened from its front on.                *)
LEMMA FlattensExist ==
  ASSUME NEW X, NEW s \in Seq(Seq(X))
  PROVE  \E g \in [1 .. Len(s) -> Seq(X)] : Flattens(g, s)
<1> DEFINE Does(m, g) ==
             /\ g \in [1 .. m -> Seq(X)]
             /\ \A i \in 1 .. m : g[i] = IF i = 1 THEN s[i] ELSE g[i - 1] \o s[i]
           Fails == {m \in Nat : m <= Len(s) /\ ~ \E g : Does(m, g)}
<1>0. Fails = {} => \E g : Does(Len(s), g)
  <2>1. Len(s) \in Nat
    OBVIOUS
  <2> HIDE DEF Does
  <2> QED
    BY <2>1
<1> SUFFICES ASSUME Fails # {} PROVE FALSE
  BY <1>0 DEF Flattens
<1>1. PICK m \in Fails : \A k \in Fails : m <= k
  <2>1. Fails \in SUBSET Nat
    OBVIOUS
  <2> HIDE DEF Fails
  <2> QED
    BY <2>1, LeastNumber
<1>2. m \in Nat /\ m <= Len(s) /\ Len(s) \in Nat /\ ~ \E g : Does(m, g)
  <2>1. Len(s) \in Nat
    OBVIOUS
  <2> HIDE DEF Does
  <2> QED
    BY <1>1, <2>1
<1>3. m # 0
  <2> SUFFICES ASSUME m = 0 PROVE FALSE
    OBVIOUS
  <2> DEFINE g == [i \in 1 .. m |-> <<>>]
  <2>1. Does(m, g)
    OBVIOUS
  <2> HIDE DEF Does
  <2> QED
    BY <1>2, <2>1
<1>4. PICK l \in Nat : m = l + 1
  <2>1. m - 1 \in Nat /\ m = (m - 1) + 1
    BY <1>2, <1>3
  <2> QED
    BY <2>1
<1>5. PICK g : Does(l, g)
  <2>1. l \notin Fails /\ l <= Len(s)
    <3> HIDE DEF Fails
    <3> QED
      BY <1>1, <1>2, <1>4
  <2> HIDE DEF Does
  <2> QED
    BY <2>1
<1> DEFINE h == [i \in 1 .. m |-> IF i <= l THEN g[i] ELSE IF m = 1 THEN s[m] ELSE g[l] \o s[m]]
<1>6. m \in 1 .. Len(s) /\ s[m] \in Seq(X)
  BY <1>2, <1>3
<1>7. m # 1 => l \in 1 .. l /\ g[l] \in Seq(X)
  BY <1>4, <1>5
<1>8. \A i \in 1 .. l : g[i] \in Seq(X) /\ i \in 1 .. m
  BY <1>4, <1>5
<1>9. m # 1 => g[l] \o s[m] \in Seq(X)
  BY <1>6, <1>7
<1>10. h \in [1 .. m -> Seq(X)]
  <2>1. ASSUME NEW i \in 1 .. m
        PROVE  (IF i <= l THEN g[i] ELSE IF m = 1 THEN s[m] ELSE g[l] \o s[m]) \in Seq(X)
    <3>1. i <= l => i \in 1 .. l
      OBVIOUS
    <3> QED
      BY <1>6, <1>8, <1>9, <3>1
  <2> QED
    BY <2>1
<1>11. ASSUME NEW i \in 1 .. m
       PROVE  h[i] = IF i = 1 THEN s[i] ELSE h[i - 1] \o s[i]
  <2>1. CASE i <= l
    <3>1. i \in 1 .. l /\ h[i] = g[i] /\ (i # 1 => i - 1 \in 1 .. m /\ i - 1 <= l)
      BY <1>4, <2>1
    <3>2. i # 1 => h[i - 1] = g[i - 1]
      BY <3>1
    <3>3. g[i] = IF i = 1 THEN s[i] ELSE g[i - 1] \o s[i]
      BY <1>5, <3>1
    <3> HIDE DEF h
    <3> QED
      BY <3>1, <3>2, <3>3
  <2>2. CASE ~ (i <= l)
    <3>1. i = m /\ m - 1 = l
      BY <1>4, <2>2
    <3>2. m # 1 => l \in 1 .. m /\ h[l] = g[l]
      BY <1>4
    <3>3. h[m] = IF m = 1 THEN s[m] ELSE g[l] \o s[m]
      BY <1>4, <1>6
    <3> HIDE DEF h
    <3> QED
      BY <3>1, <3>2, <3>3
  <2> QED
    BY <2>1, <2>2
<1>12. Does(m, h)
  <2> HIDE DEF h
  <2> QED
    BY <1>10, <1>11
<1> HIDE DEF Does
<1> QED
  BY <1>2, <1>12

(* And FlattenSeq is that.                                                    *)
LEMMA FlattenIs ==
  ASSUME NEW X, NEW s \in Seq(Seq(X)), Len(s) > 0
  PROVE  \E g \in [1 .. Len(s) -> Seq(X)] : Flattens(g, s) /\ FlattenSeq(s) = g[Len(s)]
<1> DEFINE Rule(f) == f = [i \in 1 .. Len(s) |-> IF i = 1 THEN s[i] ELSE f[i - 1] \o s[i]]
<1>1. PICK g \in [1 .. Len(s) -> Seq(X)] : Flattens(g, s)
  BY FlattensExist
<1>2. Rule(g)
  BY <1>1 DEF Flattens
<1>3. FlattenSeq(s) = (CHOOSE f : Rule(f))[Len(s)]
  BY DEF FlattenSeq
<1> DEFINE iter == CHOOSE f : Rule(f)
<1>4. Rule(iter)
  <2> HIDE DEF Rule
  <2> QED
    BY <1>2
<1>5. \A i \in 1 .. Len(s) : iter[i] = IF i = 1 THEN s[i] ELSE iter[i - 1] \o s[i]
  <2> HIDE DEF iter
  <2> QED
    BY <1>4
<1>6. FlattenSeq(s) = iter[Len(s)]
  BY <1>3
<1> HIDE DEF iter, Rule
<1> DEFINE Fails == {i \in 1 .. Len(s) : iter[i] # g[i]}
<1>7. Fails = {}
  <2> SUFFICES ASSUME Fails # {} PROVE FALSE
    OBVIOUS
  <2>1. PICK i \in Fails : \A j \in Fails : i <= j
    <3>1. Fails \in SUBSET Nat
      OBVIOUS
    <3> HIDE DEF Fails
    <3> QED
      BY <3>1, LeastNumber
  <2>2. i \in 1 .. Len(s) /\ Len(s) \in Nat /\ iter[i] # g[i]
    BY <2>1
  <2>3. i # 1
    BY <1>1, <1>5, <2>2 DEF Flattens
  <2>4. i - 1 \in 1 .. Len(s) /\ ~ (i <= i - 1)
    BY <2>2, <2>3
  <2>5. iter[i - 1] = g[i - 1]
    BY <2>1, <2>4
  <2> QED
    BY <1>1, <1>5, <2>2, <2>3, <2>5 DEF Flattens
<1>8. Len(s) \in 1 .. Len(s)
  OBVIOUS
<1> QED
  BY <1>1, <1>6, <1>7, <1>8

Associates(X) == \A a, b, c \in Seq(X) : (a \o b) \o c = a \o (b \o c)

(* Appending sequences is associative.                                        *)
LEMMA Associative == ASSUME NEW X PROVE Associates(X)
BY ConcatAssociative, SMT DEF Associates

(* The first of some sequences, and then the others.                            *)
LEMMA FlattenFirst ==
  ASSUME NEW X, NEW s \in Seq(Seq(X)), NEW t \in Seq(Seq(X)), Len(s) = Len(t) + 1,
         \A i \in 1 .. Len(t) : t[i] = s[i + 1]
  PROVE  FlattenSeq(s) = s[1] \o FlattenSeq(t) /\ FlattenSeq(t) \in Seq(X)
<1>1. Len(s) \in Nat /\ Len(t) \in Nat /\ Len(s) > 0 /\ s[1] \in Seq(X)
      /\ \A i \in 1 .. Len(t) : t[i] \in Seq(X)
  OBVIOUS
<1>2. PICK g \in [1 .. Len(s) -> Seq(X)] : Flattens(g, s) /\ FlattenSeq(s) = g[Len(s)]
  BY <1>1, FlattenIs
<1>3. CASE Len(t) = 0
  <2>1. t = <<>> /\ FlattenSeq(t) = t
    BY <1>3 DEF FlattenSeq
  <2>2. FlattenSeq(s) = s[1]
    BY <1>1, <1>2, <1>3 DEF Flattens
  <2>3. s[1] \o <<>> = s[1] /\ <<>> \in Seq(X)
    BY <1>1, ConcatEmptySeq
  <2> QED
    BY <2>1, <2>2, <2>3, Zenon
<1>4. CASE Len(t) # 0
  <2>1. PICK h \in [1 .. Len(t) -> Seq(X)] : Flattens(h, t) /\ FlattenSeq(t) = h[Len(t)]
    <3>1. Len(t) > 0
      BY <1>1, <1>4
    <3> QED
      BY <3>1, FlattenIs
  <2> DEFINE Fails == {i \in 1 .. Len(t) : g[i + 1] # s[1] \o h[i]}
  <2>2. Fails = {}
    <3> SUFFICES ASSUME Fails # {} PROVE FALSE
      OBVIOUS
    <3>1. PICK i \in Fails : \A j \in Fails : i <= j
      <4>1. Fails \in SUBSET Nat
        OBVIOUS
      <4> HIDE DEF Fails
      <4> QED
        BY <4>1, LeastNumber
    <3>2. i \in 1 .. Len(t) /\ g[i + 1] # s[1] \o h[i]
      BY <3>1
    <3>3. PICK j : j = i + 1
      OBVIOUS
    <3>4. j \in 1 .. Len(s) /\ j # 1 /\ j - 1 = i /\ t[i] = s[j]
      BY <1>1, <3>2, <3>3
    <3>5. g[j] = g[i] \o t[i]
      BY <1>2, <3>4 DEF Flattens
    <3>6. CASE i = 1
      <4>1. h[1] = t[1]
        BY <2>1, <3>2, <3>6 DEF Flattens
      <4>2. 1 \in 1 .. Len(s) /\ g[1] = s[1]
        BY <1>1, <1>2 DEF Flattens
      <4> QED
        BY <3>2, <3>3, <3>5, <3>6, <4>1, <4>2
    <3>7. CASE i # 1
      <4>1. PICK k : k = i - 1
        OBVIOUS
      <4>2. k \in 1 .. Len(t) /\ k + 1 = i /\ ~ (i <= k)
        BY <1>1, <3>2, <3>7, <4>1
      <4>3. g[i] = s[1] \o h[k]
        BY <3>1, <4>2
      <4>4. h[i] = h[k] \o t[i]
        BY <2>1, <3>2, <3>7, <4>1 DEF Flattens
      <4>5. h[k] \in Seq(X) /\ t[i] \in Seq(X)
        BY <1>1, <2>1, <3>2, <4>2
      <4>6. (s[1] \o h[k]) \o t[i] = s[1] \o (h[k] \o t[i])
        <5>1. PICK a, b, c : a = s[1] /\ b = h[k] /\ c = t[i]
          OBVIOUS
        <5>2. a \in Seq(X) /\ b \in Seq(X) /\ c \in Seq(X)
          BY <1>1, <4>5, <5>1
        <5>3. (a \o b) \o c = a \o (b \o c)
          <6>1. Associates(X)
            BY Associative
          <6> QED
            BY <5>2, <6>1 DEF Associates
        <5> QED
          BY <5>1, <5>3
      <4> QED
        BY <3>2, <3>3, <3>5, <4>3, <4>4, <4>6
    <3> QED
      BY <3>6, <3>7
  <2>3. Len(t) \in 1 .. Len(t)
    BY <1>1, <1>4
  <2>4. g[Len(t) + 1] = s[1] \o h[Len(t)] /\ h[Len(t)] \in Seq(X)
    BY <2>1, <2>2, <2>3
  <2> QED
    BY <1>2, <2>1, <2>4
<1> QED
  BY <1>3, <1>4

(* Times, by one more.                                                        *)
LEMMA TimesSteps ==
  ASSUME NEW X, NEW s \in Seq(X)
  PROVE  /\ Times(0, s) = <<>>
         /\ \A n \in Nat : Times(n + 1, s) = s \o Times(n, s) /\ Times(n, s) \in Seq(X)
<1>1. \A n \in Nat : [i \in 1 .. n |-> s] \in Seq(Seq(X)) /\ Len([i \in 1 .. n |-> s]) = n
  OBVIOUS
<1>2. Times(0, s) = <<>>
  <2>1. [i \in 1 .. 0 |-> s] = <<>>
    BY <1>1
  <2> QED
    BY <1>1, <2>1 DEF Times, FlattenSeq
<1>3. ASSUME NEW n \in Nat
      PROVE  Times(n + 1, s) = s \o Times(n, s) /\ Times(n, s) \in Seq(X)
  <2>1. PICK t, u : t = [i \in 1 .. n |-> s] /\ u = [i \in 1 .. n + 1 |-> s]
    OBVIOUS
  <2>2. /\ t \in Seq(Seq(X)) /\ u \in Seq(Seq(X)) /\ Len(u) = Len(t) + 1
        /\ \A i \in 1 .. Len(t) : t[i] = u[i + 1]
        /\ u[1] = s
    BY <1>1, <2>1
  <2>3. FlattenSeq(u) = u[1] \o FlattenSeq(t) /\ FlattenSeq(t) \in Seq(X)
    BY <2>2, FlattenFirst
  <2> QED
    BY <2>1, <2>2, <2>3 DEF Times
<1> QED
  BY <1>2, <1>3

(* An area is the sum of the areas of its cells.                              *)
LEMMA AreaIs ==
  ASSUME NEW C, IsFiniteSet(C), \A c \in C : c.w * c.h \in Nat
  PROVE  Area(C) = SumOver([c \in C |-> c.w * c.h], C)
<1> DEFINE f == [c \in C |-> c.w * c.h]
           Rule(h) == h = [s \in SUBSET C |-> IF s = {} THEN 0
                                              ELSE Chosen(s).w * Chosen(s).h
                                                     + h[s \ {Chosen(s)}]]
<1>1. \A c \in C : f[c] = c.w * c.h
  OBVIOUS
<1>2. \A c \in C : f[c] \in Nat
  OBVIOUS
<1> HIDE DEF f
<1>3. PICK g \in [SUBSET C -> Nat] : Sums(g, f, C)
  BY <1>2, SumsExist
<1>4. \A s \in SUBSET C : s # {} => f[Chosen(s)] = Chosen(s).w * Chosen(s).h
  BY <1>1, ChosenIsIn
<1>5. Rule(g)
  <2>1. ASSUME NEW s \in SUBSET C
        PROVE  g[s] = IF s = {} THEN 0
                      ELSE Chosen(s).w * Chosen(s).h + g[s \ {Chosen(s)}]
    BY <1>3, <1>4 DEF Sums
  <2> QED
    BY <1>3, <2>1
<1>6. Area(C) = (CHOOSE h : Rule(h))[C]
  BY DEF Area, MapThenSumSet, MapThenFoldSet, Chosen
<1> DEFINE iter == CHOOSE h : Rule(h)
<1>7. Rule(iter)
  <2> HIDE DEF Rule
  <2> QED
    BY <1>5
<1>8. Sums(iter, f, C)
  <2> HIDE DEF iter
  <2>1. ASSUME NEW s \in SUBSET C
        PROVE  iter[s] = IF s = {} THEN 0 ELSE f[Chosen(s)] + iter[s \ {Chosen(s)}]
    BY <1>4, <1>7
  <2> HIDE DEF Rule
  <2> QED
    BY <2>1 DEF Sums
<1>9. Area(C) = iter[C]
  BY <1>6
<1> HIDE DEF iter, Rule
<1>10. iter[C] = g[C]
  <2>1. \A s \in SUBSET C : iter[s] = g[s]
    BY <1>3, <1>8, SumsUnique
  <2> QED
    BY <2>1
<1>11. SumOver(f, C) = g[C]
  BY <1>3, SumIs
<1> QED
  BY <1>9, <1>10, <1>11 DEF f

(* The length of a line is the sum of what its columns print.                 *)
LEMMA LineIs ==
  ASSUME NEW widths, NEW y, IsFiniteSet(Columns),
         \A x \in Columns : Printed(widths, x, y) \in Nat
  PROVE  LineLength(widths, y)
           = SumOver([x \in Columns |-> Printed(widths, x, y)], Columns) + 1
<1> DEFINE f == [x \in Columns |-> Printed(widths, x, y)]
           Rule(h) == h = [s \in SUBSET Columns |->
                             IF s = {} THEN 0
                             ELSE Printed(widths, Chosen(s), y) + h[s \ {Chosen(s)}]]
<1>1. \A x \in Columns : f[x] = Printed(widths, x, y)
  OBVIOUS
<1>2. \A x \in Columns : f[x] \in Nat
  OBVIOUS
<1> HIDE DEF f
<1>3. PICK g \in [SUBSET Columns -> Nat] : Sums(g, f, Columns)
  BY <1>2, SumsExist
<1>4. \A s \in SUBSET Columns : s # {} => f[Chosen(s)] = Printed(widths, Chosen(s), y)
  BY <1>1, ChosenIsIn
<1>5. Rule(g)
  <2>1. ASSUME NEW s \in SUBSET Columns
        PROVE  g[s] = IF s = {} THEN 0
                      ELSE Printed(widths, Chosen(s), y) + g[s \ {Chosen(s)}]
    BY <1>3, <1>4 DEF Sums
  <2> QED
    BY <1>3, <2>1
<1>6. LineLength(widths, y) = (CHOOSE h : Rule(h))[Columns] + 1
  BY DEF LineLength, MapThenSumSet, MapThenFoldSet, Chosen
<1> DEFINE iter == CHOOSE h : Rule(h)
<1>7. Rule(iter)
  <2> HIDE DEF Rule
  <2> QED
    BY <1>5
<1>8. Sums(iter, f, Columns)
  <2> HIDE DEF iter
  <2>1. ASSUME NEW s \in SUBSET Columns
        PROVE  iter[s] = IF s = {} THEN 0 ELSE f[Chosen(s)] + iter[s \ {Chosen(s)}]
    BY <1>4, <1>7
  <2> HIDE DEF Rule
  <2> QED
    BY <2>1 DEF Sums
<1>9. LineLength(widths, y) = iter[Columns] + 1
  BY <1>6
<1> HIDE DEF iter, Rule
<1>10. iter[Columns] = g[Columns]
  <2>1. \A s \in SUBSET Columns : iter[s] = g[s]
    BY <1>3, <1>8, SumsUnique
  <2> QED
    BY <2>1
<1>11. SumOver(f, Columns) = g[Columns]
  BY <1>3, SumIs
<1> QED
  BY <1>9, <1>10, <1>11 DEF f

(* Another cell, another part of the area.                                       *)
LEMMA AreaGrows ==
  ASSUME NEW C, IsFiniteSet(C), \A c \in C : c.w * c.h \in Nat,
         NEW d, d \notin C, d.w * d.h \in Nat
  PROVE  Area(C \cup {d}) = Area(C) + d.w * d.h
<1> DEFINE D == C \cup {d}
           e == [c \in C |-> c.w * c.h]
           f == [c \in D |-> c.w * c.h]
<1>1. IsFiniteSet(D) /\ \A c \in D : c.w * c.h \in Nat
  BY FS_AddElement
<1>2. Area(C) = SumOver(e, C)
  BY AreaIs
<1>3. Area(D) = SumOver(f, D)
  <2> HIDE DEF D
  <2> QED
    BY <1>1, AreaIs
<1>4. f[d] = d.w * d.h /\ \A c \in C : f[c] \in Nat /\ e[c] \in Nat /\ f[c] = e[c]
  OBVIOUS
<1> HIDE DEF e, f
<1>5. SumOver(f, D) = f[d] + SumOver(f, C)
  BY <1>4, SumAdd
<1>6. SumOver(e, C) = SumOver(f, C)
  BY <1>4, SumSame
<1>7. SumOver(e, C) \in Nat /\ f[d] \in Nat
  BY <1>4, SumType
<1> QED
  BY <1>2, <1>3, <1>4, <1>5, <1>6, <1>7

(* Without cells there is no area.                                            *)
LEMMA AreaOfNone == Area({}) = 0
<1>1. IsFiniteSet({}) /\ \A c \in {} : c.w * c.h \in Nat
  BY FS_EmptySet
<1>2. PICK f : f = [c \in {} |-> c.w * c.h]
  OBVIOUS
<1>3. Area({}) = SumOver(f, {})
  BY <1>1, <1>2, AreaIs
<1>4. SumOver(f, {}) = 0
  BY <1>1, SumType
<1> QED
  BY <1>3, <1>4

(* A table as its cells cover it: each place has a cell, which has that place and  *)
(* no place of another; and its area is what the cells have together.           *)
PlacesOf(c) == (c.x .. c.x + c.w - 1) \X (c.y .. c.y + c.h - 1)

IsCell(c) == c.x \in Nat /\ c.y \in Nat /\ c.w \in Nat /\ c.h \in Nat /\ c.text \in Nat

Tiled(map) ==
  \A p \in DOMAIN map :
    /\ IsCell(map[p]) /\ p \in PlacesOf(map[p])
    /\ \A q \in PlacesOf(map[p]) : q \in DOMAIN map /\ map[q] = map[p]

Measured(map) ==
  /\ IsFiniteSet(DOMAIN map)
  /\ IsFiniteSet(Range(map))
  /\ Area(Range(map)) = Cardinality(DOMAIN map)

WithCell(map, c) ==
  [p \in DOMAIN map \cup PlacesOf(c) |-> IF p \in PlacesOf(c) THEN c ELSE map[p]]

(* A cell has as many places as its width times its height.                   *)
LEMMA PlacesCounted ==
  ASSUME NEW c, IsCell(c)
  PROVE  /\ IsFiniteSet(PlacesOf(c)) /\ Cardinality(PlacesOf(c)) = c.w * c.h
         /\ c.w * c.h \in Nat
<1>1. PICK x, y, w, h : x = c.x /\ y = c.y /\ w = c.w /\ h = c.h
  OBVIOUS
<1>2. x \in Nat /\ y \in Nat /\ w \in Nat /\ h \in Nat
  BY <1>1 DEF IsCell
<1> DEFINE S == x .. x + w - 1
           T == y .. y + h - 1
<1>3. x \in Int /\ y \in Int /\ x + w - 1 \in Int /\ y + h - 1 \in Int
  BY <1>2
<1>4. IsFiniteSet(S) /\ Cardinality(S) = w
  BY <1>2, <1>3, FS_Interval
<1>5. IsFiniteSet(T) /\ Cardinality(T) = h
  BY <1>2, <1>3, FS_Interval
<1>6. PlacesOf(c) = S \X T
  BY <1>1 DEF PlacesOf
<1> HIDE DEF S, T
<1>7. IsFiniteSet(S \X T) /\ Cardinality(S \X T) = w * h
  BY <1>4, <1>5, FS_Product
<1>8. w * h \in Nat
  BY <1>2
<1> QED
  BY <1>1, <1>6, <1>7, <1>8, Zenon

(* A cell that is added where nothing is leaves each place with one cell.     *)
LEMMA MapGrows ==
  ASSUME NEW map, Tiled(map), Measured(map), NEW c, IsCell(c),
         \A p \in PlacesOf(c) : p \notin DOMAIN map
  PROVE  Tiled(WithCell(map, c)) /\ Measured(WithCell(map, c))
<1>1. PICK P : P = PlacesOf(c)
  OBVIOUS
<1>2. PICK new : new = WithCell(map, c)
  OBVIOUS
<1>3. /\ DOMAIN new = DOMAIN map \cup P
      /\ \A p \in P : new[p] = c
      /\ \A p \in DOMAIN map : new[p] = map[p]
      /\ \A p \in P : p \notin DOMAIN map
  BY <1>1, <1>2 DEF WithCell
<1>4. Tiled(new)
  <2> SUFFICES ASSUME NEW p \in DOMAIN new
               PROVE  /\ IsCell(new[p]) /\ p \in PlacesOf(new[p])
                      /\ \A q \in PlacesOf(new[p]) : q \in DOMAIN new /\ new[q] = new[p]
    BY DEF Tiled
  <2>1. CASE p \in P
    BY <1>1, <1>3, <2>1
  <2>2. CASE p \in DOMAIN map
    BY <1>3, <2>2 DEF Tiled
  <2> QED
    BY <1>3, <2>1, <2>2
<1>5. IsFiniteSet(P) /\ Cardinality(P) = c.w * c.h /\ c.w * c.h \in Nat
  BY <1>1, PlacesCounted
<1>6. IsFiniteSet(DOMAIN new) /\ Cardinality(DOMAIN new) = Cardinality(DOMAIN map) + c.w * c.h
  <2>1. IsFiniteSet(DOMAIN map)
    BY DEF Measured
  <2>2. PICK M : M = DOMAIN map
    OBVIOUS
  <2>3. /\ IsFiniteSet(M \cup P)
        /\ Cardinality(M \cup P) = Cardinality(M) + Cardinality(P) - Cardinality(M \cap P)
    BY <1>5, <2>1, <2>2, FS_Union
  <2>4. Cardinality(M \cap P) = 0
    <3>1. M \cap P = {}
      BY <1>3, <2>2
    <3> QED
      BY <3>1, FS_EmptySet
  <2>5. Cardinality(M) \in Nat
    BY <2>1, <2>2, FS_CardinalityType
  <2>6. Cardinality(M \cup P) = Cardinality(M) + c.w * c.h
    <3>1. PICK a, b, d, e : /\ a = Cardinality(M) /\ b = Cardinality(P)
                            /\ d = Cardinality(M \cap P) /\ e = c.w * c.h
      OBVIOUS
    <3>2. a \in Nat /\ b = e /\ e \in Nat /\ d = 0 /\ Cardinality(M \cup P) = a + b - d
      BY <1>5, <2>3, <2>4, <2>5, <3>1
    <3>3. a + b - d = a + e
      BY <3>2
    <3> QED
      BY <3>1, <3>2, <3>3, Zenon
  <2> QED
    BY <1>3, <2>2, <2>3, <2>6
<1>7. IsFiniteSet(Range(map)) /\ Area(Range(map)) = Cardinality(DOMAIN map)
  BY DEF Measured
<1>8. CASE P = {}
  <2>1. Range(new) = Range(map)
    BY <1>3, <1>8 DEF Range
  <2>2. c.w * c.h = 0
    BY <1>5, <1>8, FS_EmptySet
  <2>3. Cardinality(DOMAIN map) \in Nat
    BY FS_CardinalityType DEF Measured
  <2>4. Cardinality(DOMAIN new) = Cardinality(DOMAIN map)
    BY <1>6, <2>2, <2>3
  <2>5. Measured(new)
    BY <1>6, <1>7, <2>1, <2>4 DEF Measured
  <2> QED
    BY <1>2, <1>4, <2>5
<1>9. CASE P # {}
  <2>1. Range(new) = Range(map) \cup {c}
    BY <1>3, <1>9 DEF Range
  <2>2. c \notin Range(map)
    <3> SUFFICES ASSUME c \in Range(map) PROVE FALSE
      OBVIOUS
    <3>1. PICK p \in DOMAIN map : map[p] = c
      BY DEF Range
    <3>2. PICK q : q \in P
      BY <1>9
    <3>3. q \in DOMAIN map
      BY <1>1, <3>1, <3>2 DEF Tiled
    <3> QED
      BY <1>3, <3>2, <3>3
  <2>3. \A d \in Range(map) : d.w * d.h \in Nat
    <3> SUFFICES ASSUME NEW p \in DOMAIN map PROVE map[p].w * map[p].h \in Nat
      BY DEF Range
    <3>1. IsCell(map[p])
      BY DEF Tiled
    <3> QED
      BY <3>1, PlacesCounted
  <2>4. PICK C : C = Range(map)
    OBVIOUS
  <2>5. Area(C \cup {c}) = Area(C) + c.w * c.h
    BY <1>5, <1>7, <2>2, <2>3, <2>4, AreaGrows
  <2>6. IsFiniteSet(C \cup {c})
    BY <1>7, <2>4, FS_AddElement
  <2>7. Measured(new)
    BY <1>6, <1>7, <2>1, <2>4, <2>5, <2>6 DEF Measured
  <2> QED
    BY <1>2, <1>4, <2>7
<1> QED
  BY <1>8, <1>9

(* How far down each of some columns is covered, from above and without gaps.       *)
Skyline(map, width, D) ==
  /\ width \in Nat /\ D \in [0 .. width - 1 -> Nat]
  /\ \A p \in DOMAIN map :
       /\ p = <<p[1], p[2]>>
       /\ p[1] \in 0 .. width - 1 /\ p[2] \in Nat /\ p[2] < D[p[1]]
  /\ \A x \in 0 .. width - 1, y \in Nat : y < D[x] => <<x, y>> \in DOMAIN map

Raise(D, x, w, h) == [k \in DOMAIN D |-> IF x <= k /\ k < x + w THEN D[k] + h ELSE D[k]]

(* Whether a place is one of a cell.                                          *)
LEMMA InPlaces ==
  ASSUME NEW c, NEW x, NEW y
  PROVE  <<x, y>> \in PlacesOf(c)
           <=> x \in c.x .. c.x + c.w - 1 /\ y \in c.y .. c.y + c.h - 1
BY DEF PlacesOf

(* The places of a cell are pairs.                                            *)
LEMMA PlacesPairs ==
  ASSUME NEW c, NEW p \in PlacesOf(c)
  PROVE  /\ p = <<p[1], p[2]>>
         /\ p[1] \in c.x .. c.x + c.w - 1 /\ p[2] \in c.y .. c.y + c.h - 1
BY DEF PlacesOf

(* A cell put on level columns overlaps none and raises those columns.        *)
LEMMA SkylineGrows ==
  ASSUME NEW map, NEW width, NEW D, Skyline(map, width, D), NEW c, IsCell(c),
         c.x + c.w <= width, \A k \in c.x .. c.x + c.w - 1 : D[k] = c.y
  PROVE  /\ \A p \in PlacesOf(c) : p \notin DOMAIN map
         /\ Skyline(WithCell(map, c), width, Raise(D, c.x, c.w, c.h))
<1>1. PICK x, y, w, h : x = c.x /\ y = c.y /\ w = c.w /\ h = c.h
  OBVIOUS
<1>2. /\ x \in Nat /\ y \in Nat /\ w \in Nat /\ h \in Nat /\ x + w <= width
      /\ \A k \in x .. x + w - 1 : D[k] = y
  BY <1>1 DEF IsCell
<1>3. width \in Nat /\ D \in [0 .. width - 1 -> Nat]
  BY DEF Skyline
<1>4. \A p \in PlacesOf(c) : p \notin DOMAIN map
  <2> SUFFICES ASSUME NEW p \in PlacesOf(c), p \in DOMAIN map PROVE FALSE
    OBVIOUS
  <2>1. p[1] \in x .. x + w - 1 /\ p[2] \in y .. y + h - 1
    BY <1>1, PlacesPairs
  <2>2. p[2] < D[p[1]]
    BY DEF Skyline
  <2> QED
    BY <1>2, <2>1, <2>2
<1>5. PICK E : E = Raise(D, x, w, h)
  OBVIOUS
<1>6. /\ E \in [0 .. width - 1 -> Nat]
      /\ \A k \in 0 .. width - 1 : E[k] = IF x <= k /\ k < x + w THEN D[k] + h ELSE D[k]
  BY <1>2, <1>3, <1>5 DEF Raise
<1>7. PICK new : new = WithCell(map, c)
  OBVIOUS
<1>8. DOMAIN new = DOMAIN map \cup PlacesOf(c)
  BY <1>7 DEF WithCell
<1>9. ASSUME NEW p \in DOMAIN new
      PROVE  /\ p = <<p[1], p[2]>>
             /\ p[1] \in 0 .. width - 1 /\ p[2] \in Nat /\ p[2] < E[p[1]]
  <2>1. CASE p \in DOMAIN map
    <3>1. /\ p = <<p[1], p[2]>>
          /\ p[1] \in 0 .. width - 1 /\ p[2] \in Nat /\ p[2] < D[p[1]]
      BY <2>1 DEF Skyline
    <3>2. PICK a, b : a = p[1] /\ b = p[2]
      OBVIOUS
    <3>3. a \in 0 .. width - 1 /\ b \in Nat /\ b < D[a] /\ D[a] \in Nat
      BY <1>3, <3>1, <3>2
    <3>4. b < E[a]
      BY <1>2, <1>6, <3>3
    <3> QED
      BY <3>1, <3>2, <3>4
  <2>2. CASE p \in PlacesOf(c)
    <3>1. p = <<p[1], p[2]>> /\ p[1] \in x .. x + w - 1 /\ p[2] \in y .. y + h - 1
      BY <1>1, <2>2, PlacesPairs
    <3>2. PICK a, b : a = p[1] /\ b = p[2]
      OBVIOUS
    <3>3. a \in 0 .. width - 1 /\ b \in Nat /\ D[a] = y /\ x <= a /\ a < x + w /\ b < y + h
      BY <1>2, <1>3, <3>1, <3>2
    <3>4. b < E[a]
      BY <1>2, <1>6, <3>3
    <3> QED
      BY <3>1, <3>2, <3>3, <3>4
  <2> QED
    BY <1>8, <2>1, <2>2
<1>10. ASSUME NEW a \in 0 .. width - 1, NEW b \in Nat, b < E[a]
       PROVE  <<a, b>> \in DOMAIN new
  <2>1. CASE b < D[a]
    BY <1>8, <2>1 DEF Skyline
  <2>2. CASE ~ (b < D[a])
    <3>1. D[a] \in Nat
      BY <1>3
    <3>2. x <= a /\ a < x + w /\ b < D[a] + h
      BY <1>2, <1>6, <1>10, <2>2, <3>1
    <3>3. D[a] = y
      BY <1>2, <1>3, <3>2
    <3>4. a \in x .. x + w - 1 /\ b \in y .. y + h - 1
      BY <1>2, <1>3, <2>2, <3>2, <3>3
    <3>5. <<a, b>> \in PlacesOf(c)
      BY <1>1, <3>4, InPlaces
    <3> QED
      BY <1>8, <3>5
  <2> QED
    BY <2>1, <2>2
<1>11. Skyline(new, width, E)
  BY <1>3, <1>6, <1>9, <1>10 DEF Skyline
<1> QED
  BY <1>1, <1>4, <1>5, <1>7, <1>11

(* The cursor goes on to the first column that is free.                          *)
LEMMA FreeIs ==
  ASSUME NEW map, NEW width, NEW D, Skyline(map, width, D), IsFiniteSet(DOMAIN map),
         NEW x \in Nat, NEW y \in Nat, NEW c \in x .. width,
         \A k \in x .. c - 1 : y < D[k], c < width => ~ (y < D[c])
  PROVE  FreeColumn(map, x, y) = c
<1>1. width \in Nat /\ D \in [0 .. width - 1 -> Nat]
  BY DEF Skyline
<1>2. \A k \in x .. c - 1 : Taken(map, k, y)
  <2> SUFFICES ASSUME NEW k \in x .. c - 1 PROVE <<k, y>> \in DOMAIN map
    BY DEF Taken
  <2>1. k \in 0 .. width - 1 /\ y < D[k]
    BY <1>1
  <2> QED
    BY <2>1 DEF Skyline
<1>3. ~ Taken(map, c, y)
  <2> SUFFICES ASSUME <<c, y>> \in DOMAIN map PROVE FALSE
    BY DEF Taken
  <2>1. c \in 0 .. width - 1 /\ y < D[c]
    BY DEF Skyline
  <2> QED
    BY <1>1, <2>1
<1>4. PICK n : n = Cardinality(DOMAIN map)
  OBVIOUS
<1>5. n \in Nat /\ c - x <= n
  <2>1. n \in Nat
    BY <1>4, FS_CardinalityType
  <2> DEFINE S == x .. c - 1
             f == [k \in S |-> <<k, y>>]
  <2>2. x \in Int /\ c - 1 \in Int
    BY <1>1
  <2>3. IsFiniteSet(S) /\ Cardinality(S) = c - x
    <3>1. PICK e : e = c - 1
      OBVIOUS
    <3>2. e \in Int /\ c \in Int /\ x <= c
      BY <1>1, <3>1
    <3>3. IsFiniteSet(x .. e) /\ Cardinality(x .. e) = IF x > e THEN 0 ELSE e - x + 1
      BY <2>2, <3>2, FS_Interval
    <3>4. (IF x > e THEN 0 ELSE e - x + 1) = c - x
      BY <3>1, <3>2
    <3> QED
      BY <3>1, <3>3, <3>4
  <2>4. f \in Injection(S, DOMAIN map)
    <3>1. \A k \in S : <<k, y>> \in DOMAIN map
      BY <1>2 DEF Taken
    <3>2. f \in [S -> DOMAIN map]
      BY <3>1
    <3>3. \A j, k \in S : f[j] = f[k] => j = k
      OBVIOUS
    <3> HIDE DEF S, f
    <3> QED
      BY <3>2, <3>3 DEF Injection, IsInjective
  <2>5. Cardinality(S) <= Cardinality(DOMAIN map)
    <3> HIDE DEF S, f
    <3> QED
      BY <2>4, FS_Injection
  <2> QED
    BY <1>4, <2>1, <2>3, <2>5
<1> DEFINE Lowest(d) == ~Taken(map, d, y) /\ \A k \in x .. d - 1 : Taken(map, k, y)
<1>6. c \in x .. x + n /\ Lowest(c)
  BY <1>1, <1>2, <1>3, <1>5
<1>7. ASSUME NEW d \in x .. x + n, Lowest(d) PROVE d = c
  <2>1. ~ (d < c)
    <3> SUFFICES ASSUME d < c PROVE FALSE
      OBVIOUS
    <3>1. d \in x .. c - 1
      BY <1>1, <1>5
    <3> QED
      BY <1>2, <1>7, <3>1
  <2>2. ~ (c < d)
    <3> SUFFICES ASSUME c < d PROVE FALSE
      OBVIOUS
    <3>1. c \in x .. d - 1
      BY <1>1, <1>5
    <3> QED
      BY <1>3, <1>7, <3>1
  <2> QED
    BY <1>1, <1>5, <2>1, <2>2
<1>8. FreeColumn(map, x, y) = CHOOSE d \in x .. x + n : Lowest(d)
  BY <1>4 DEF FreeColumn
<1> HIDE DEF Lowest
<1> QED
  BY <1>6, <1>7, <1>8

(* What a summary consists of, and what of it is still to come.                  *)
Items == {RowEnd} \cup {<<w, h, b>> : w \in Nat, h \in Nat, b \in BOOLEAN}

Left(s, k, R) ==
  /\ R \in Seq(Items) /\ k \in Nat
  /\ \E P \in Seq(Items) : Len(P) = k /\ SummaryCells[s] = P \o R

(* What comes after the part of a sequence that has been passed.              *)
LEMMA Ahead ==
  ASSUME NEW S, NEW a \in S, NEW P \in Seq(S), NEW Q \in Seq(S)
  PROVE  /\ Len(P) < Len(P \o (<<a>> \o Q)) /\ (P \o (<<a>> \o Q))[Len(P) + 1] = a
         /\ P \o <<a>> \in Seq(S) /\ Len(P \o <<a>>) = Len(P) + 1
         /\ (P \o <<a>>) \o Q = P \o (<<a>> \o Q)
<1>1. PICK B : B = <<a>>
  OBVIOUS
<1>2. B \in Seq(S) /\ Len(B) = 1 /\ B[1] = a
  BY <1>1
<1>3. PICK R : R = B \o Q
  OBVIOUS
<1>4. R \in Seq(S) /\ Len(R) = 1 + Len(Q) /\ R[1] = a
  <2>1. R \in Seq(S) /\ Len(R) = Len(B) + Len(Q)
    BY <1>2, <1>3, ConcatProperties
  <2>2. 1 \in 1 .. Len(B) + Len(Q) /\ Len(Q) \in Nat
    BY <1>2
  <2>3. R[1] = B[1]
    BY <1>2, <1>3, <2>2, ConcatProperties
  <2> QED
    BY <1>2, <2>1, <2>3
<1>5. Len(P \o R) = Len(P) + Len(R) /\ (P \o R)[Len(P) + 1] = R[1]
  <2>1. Len(P \o R) = Len(P) + Len(R)
    BY <1>4, ConcatProperties
  <2>2. Len(P) \in Nat /\ Len(Q) \in Nat
    OBVIOUS
  <2>3. Len(P) + 1 \in 1 .. Len(P) + Len(R) /\ (Len(P) + 1) - Len(P) = 1
    BY <1>4, <2>2
  <2>4. (P \o R)[Len(P) + 1] = R[(Len(P) + 1) - Len(P)]
    BY <1>4, <2>2, <2>3, ConcatProperties
  <2> QED
    BY <2>1, <2>3, <2>4
<1>6. P \o B \in Seq(S) /\ Len(P \o B) = Len(P) + Len(B)
  BY <1>2, ConcatProperties
<1>7. (P \o B) \o Q = P \o (B \o Q)
  <2>1. Associates(S)
    BY Associative
  <2> QED
    BY <1>2, <2>1 DEF Associates
<1>8. Len(P) \in Nat /\ Len(Q) \in Nat
  OBVIOUS
<1> QED
  BY <1>1, <1>2, <1>3, <1>4, <1>5, <1>6, <1>7, <1>8

(* What is next of a summary is the first of what is left, and then the       *)
(* rest is.                                                                   *)
LEMMA Onward ==
  ASSUME NEW s, NEW k, NEW a \in Items, NEW Q \in Seq(Items), Left(s, k, <<a>> \o Q)
  PROVE  /\ k < Len(SummaryCells[s]) /\ SummaryCells[s][k + 1] = a
         /\ Left(s, k + 1, Q)
<1>1. PICK P \in Seq(Items) : Len(P) = k /\ SummaryCells[s] = P \o (<<a>> \o Q)
  BY DEF Left
<1>2. k \in Nat
  BY DEF Left
<1>3. PICK S : S = Items
  OBVIOUS
<1>4. /\ k < Len(P \o (<<a>> \o Q)) /\ (P \o (<<a>> \o Q))[k + 1] = a
      /\ P \o <<a>> \in Seq(S) /\ Len(P \o <<a>>) = k + 1
      /\ (P \o <<a>>) \o Q = P \o (<<a>> \o Q)
  <2>1. a \in S /\ P \in Seq(S) /\ Q \in Seq(S)
    BY <1>3
  <2> QED
    BY <1>1, <2>1, Ahead
<1>5. \E O \in Seq(Items) : Len(O) = k + 1 /\ SummaryCells[s] = O \o Q
  BY <1>1, <1>3, <1>4, Zenon
<1>6. Left(s, k + 1, Q)
  <2>1. k + 1 \in Nat
    BY <1>2
  <2> QED
    BY <1>5, <2>1 DEF Left
<1> QED
  BY <1>1, <1>4, <1>6

(* With nothing left, all of a summary has been added.                        *)
LEMMA NothingLeft ==
  ASSUME NEW s, NEW k, Left(s, k, <<>>)
  PROVE  k = Len(SummaryCells[s])
<1>1. PICK P \in Seq(Items) : Len(P) = k /\ SummaryCells[s] = P \o <<>>
  BY DEF Left
<1>2. P \o <<>> = P
  BY ConcatEmptySeq
<1> QED
  BY <1>1, <1>2

-----------------------------------------------------------------------------
Wide(s) == 5 + 3 * s.devices
Top(s, i) == 3 + SumOver(s.hosts, 1 .. i - 1)

(* What a cell has to be, whatever places it has: a single row beside the hosts;    *)
(* a device's heading; a host from its first row on.                            *)
Proper(s, c) ==
  \A x, y \in Nat : <<x, y>> \in PlacesOf(c) =>
    /\ x > 0 /\ y >= 3 => c.h = 1
    /\ \A d \in 1 .. s.devices :
         x = 4 + 3 * (d - 1) /\ y = 1 => c.heading = TRUE /\ c.w = 3 /\ c.x = x
    /\ \A i \in DOMAIN s.hosts :
         s.hosts[i] > 0 /\ x = 0 /\ y = Top(s, i) => c.y = y /\ c.h = s.hosts[i]

Sound(s, map) ==
  Tiled(map) /\ Measured(map) /\ \A p \in DOMAIN map : Proper(s, map[p])

CellOf(x, y, w, h, b, t) ==
  [x |-> x, y |-> y, w |-> w, h |-> h, heading |-> b, text |-> t]

(* Where the table is: what is left, the cursor, the extent, and the skyline.       *)
At(s, R, x, y, ex, ey, D) ==
  /\ shape = s /\ texts.length \in Nat
  /\ Left(s, added, R)
  /\ cursor = [x |-> x, y |-> y] /\ extent = [x |-> ex, y |-> ey]
  /\ Skyline(cellMap, Wide(s), D)
  /\ Sound(s, cellMap)

(* The next free column in a row.                                              *)
FreeFrom(D, width, x, y, c) ==
  /\ c \in x .. width
  /\ \A k \in x .. c - 1 : y < D[k]
  /\ c < width => ~ (y < D[c])

(* A cell that fits is added at the cursor, which goes to the next free       *)
(* column.                                                                    *)
LEMMA CellStep ==
  ASSUME NEW s, NEW w \in Nat, NEW h \in Nat, NEW b \in BOOLEAN, NEW Q \in Seq(Items),
         NEW x \in Nat, NEW y \in Nat, NEW ex, NEW ey, NEW D, NEW E, NEW c,
         At(s, <<<<w, h, b>>>> \o Q, x, y, ex, ey, D),
         x + w <= Wide(s), \A k \in x .. x + w - 1 : D[k] = y,
         \A t \in Nat : Proper(s, CellOf(x, y, w, h, b, t)),
         E = Raise(D, x, w, h), FreeFrom(E, Wide(s), x, y, c),
         TableNext
  PROVE  At(s, Q, c, y, Larger(ex, x + w), Larger(ey, y + h), E)'
<1>1. PICK a : a = <<w, h, b>>
  OBVIOUS
<1>2. a \in Items /\ a[1] = w /\ a[2] = h /\ a[3] = b /\ a # RowEnd
  BY <1>1 DEF Items, RowEnd
<1>3. Left(s, added, <<a>> \o Q)
  BY <1>1 DEF At
<1>4. shape = s /\ added < Len(SummaryCells[s]) /\ SummaryCells[s][added + 1] = a
      /\ Left(s, added + 1, Q)
  BY <1>2, <1>3, Onward DEF At
<1>5. Coming = a
  BY <1>4 DEF Coming
<1>6. AddCell
  BY <1>2, <1>5 DEF TableNext, NewRow
<1>7. PICK t : t = IF added + 1 \in texts.cells THEN texts.length ELSE Usual
  OBVIOUS
<1>8. t \in Nat
  BY <1>7, TableAssumption DEF At
<1>9. cursor.x = x /\ cursor.y = y /\ extent.x = ex /\ extent.y = ey
  BY DEF At
<1>10. PICK q : q = CellOf(x, y, w, h, b, t)
  OBVIOUS
<1>11. q.x = x /\ q.y = y /\ q.w = w /\ q.h = h
  BY <1>10 DEF CellOf
<1>12. IsCell(q)
  BY <1>8, <1>10 DEF IsCell, CellOf
<1>13. /\ cellMap' = WithCell(cellMap, q)
       /\ extent' = [x |-> Larger(ex, x + w), y |-> Larger(ey, y + h)]
       /\ cursor' = [x |-> FreeColumn(cellMap', x, y), y |-> y]
       /\ added' = added + 1 /\ shape' = shape /\ texts' = texts
  BY <1>2, <1>5, <1>6, <1>7, <1>9, <1>10, <1>11 DEF AddCell, WithCell, PlacesOf, CellOf
<1>14. PICK m : m = cellMap
  OBVIOUS
<1>15. PICK n : n = WithCell(m, q)
  OBVIOUS
<1>16. Skyline(m, Wide(s), D) /\ Sound(s, m)
  BY <1>14 DEF At
<1>17. (\A p \in PlacesOf(q) : p \notin DOMAIN m) /\ Skyline(n, Wide(s), E)
  BY <1>11, <1>12, <1>15, <1>16, SkylineGrows
<1>18. Tiled(n) /\ Measured(n)
  BY <1>12, <1>15, <1>16, <1>17, MapGrows DEF Sound
<1>19. \A p \in DOMAIN n : Proper(s, n[p])
  <2>1. Proper(s, q)
    BY <1>8, <1>10
  <2> SUFFICES ASSUME NEW p \in DOMAIN n PROVE Proper(s, n[p])
    OBVIOUS
  <2>2. n[p] = q \/ (p \in DOMAIN m /\ n[p] = m[p])
    BY <1>15 DEF WithCell
  <2> QED
    BY <1>16, <2>1, <2>2 DEF Sound
<1>20. FreeColumn(n, x, y) = c
  <2>1. IsFiniteSet(DOMAIN n)
    BY <1>18 DEF Measured
  <2> QED
    BY <1>17, <2>1, FreeIs DEF FreeFrom
<1>21. cellMap' = n
  BY <1>13, <1>14, <1>15
<1>22. cursor' = [x |-> c, y |-> y]
  BY <1>13, <1>20, <1>21
<1>23. Sound(s, cellMap') /\ Skyline(cellMap', Wide(s), E)
  BY <1>17, <1>18, <1>19, <1>21 DEF Sound
<1>24. Left(s, added', Q)
  BY <1>4, <1>13
<1>25. shape' = s /\ texts'.length \in Nat
  BY <1>13 DEF At
<1> QED
  BY <1>13, <1>22, <1>23, <1>24, <1>25 DEF At

(* The end of a row takes the cursor to the first free column of the          *)
(* next.                                                                      *)
LEMMA RowStep ==
  ASSUME NEW s, NEW Q \in Seq(Items),
         NEW x \in Nat, NEW y \in Nat, NEW ex, NEW ey, NEW D, NEW c,
         At(s, <<RowEnd>> \o Q, x, y, ex, ey, D),
         FreeFrom(D, Wide(s), 0, y + 1, c),
         TableNext
  PROVE  At(s, Q, c, y + 1, ex, ey, D)'
<1>1. PICK a : a = RowEnd
  OBVIOUS
<1>2. a \in Items
  BY <1>1 DEF Items
<1>3. Left(s, added, <<a>> \o Q)
  BY <1>1 DEF At
<1>4. shape = s /\ added < Len(SummaryCells[s]) /\ SummaryCells[s][added + 1] = a
      /\ Left(s, added + 1, Q)
  BY <1>2, <1>3, Onward DEF At
<1>5. Coming = RowEnd
  BY <1>1, <1>4 DEF Coming
<1>6. NewRow
  BY <1>5 DEF TableNext, AddCell
<1>7. cursor.x = x /\ cursor.y = y
  BY DEF At
<1>8. /\ cursor' = [x |-> FreeColumn(cellMap, 0, y + 1), y |-> y + 1]
      /\ added' = added + 1 /\ shape' = shape /\ texts' = texts
      /\ extent' = extent /\ cellMap' = cellMap
  BY <1>6, <1>7 DEF NewRow
<1>9. PICK m : m = cellMap
  OBVIOUS
<1>10. Skyline(m, Wide(s), D) /\ Sound(s, m)
  BY <1>9 DEF At
<1>11. FreeColumn(m, 0, y + 1) = c
  <2>1. IsFiniteSet(DOMAIN m)
    BY <1>10 DEF Sound, Measured
  <2>2. PICK z : z = y + 1
    OBVIOUS
  <2>3. z \in Nat /\ 0 \in Nat
    BY <2>2
  <2>4. /\ c \in 0 .. Wide(s)
        /\ \A k \in 0 .. c - 1 : z < D[k]
        /\ c < Wide(s) => ~ (z < D[c])
    BY <2>2 DEF FreeFrom
  <2>5. FreeColumn(m, 0, z) = c
    BY <1>10, <2>1, <2>3, <2>4, FreeIs
  <2> QED
    BY <2>2, <2>5
<1>12. cursor' = [x |-> c, y |-> y + 1]
  BY <1>8, <1>9, <1>11
<1>13. Left(s, added', Q)
  BY <1>4, <1>8
<1>14. /\ shape' = s /\ texts'.length \in Nat /\ extent' = [x |-> ex, y |-> ey]
       /\ Skyline(cellMap', Wide(s), D) /\ Sound(s, cellMap')
  BY <1>8 DEF At
<1> QED
  BY <1>12, <1>13, <1>14 DEF At

(* What is left, at each place of the table: from a host on; in the rows of         *)
(* headings; in the row of a volume.                                            *)
FromHost(s, i) ==
  FlattenSeq([j \in 1 .. Len(s.hosts) - i + 1 |-> HostRows(s.devices, s.hosts[j + i - 1])])

InThird(s, k) ==
  Times(k, <<Heading(1, 1)>>) \o (<<Heading(1, 1)>> \o (<<RowEnd>> \o FromHost(s, 1)))

InSecond(s, k) ==
  Times(k, <<Heading(3, 1)>>) \o (<<RowEnd>> \o InThird(s, 3 * s.devices))

InFirst(s, k) ==
  Times(k, <<Heading(1, 3)>>)
    \o (<<Heading(3 * s.devices, 1)>>
          \o (<<Heading(1, 2)>> \o (<<RowEnd>> \o InSecond(s, s.devices))))

InVolume(s, i, v, k) ==
  Times(k, <<Body>>) \o (<<RowEnd>> \o (Times(v, VolumeRow(s.devices)) \o FromHost(s, i + 1)))

(* What a summary is made of are items.                                       *)
LEMMA Kinds ==
  /\ RowEnd \in Items /\ Body \in Items
  /\ \A w, h \in Nat : Heading(w, h) \in Items
  /\ \A v \in Nat : <<1, v, FALSE>> \in Items
<1>1. \A w, h \in Nat : \A b \in BOOLEAN : <<w, h, b>> \in Items
  BY DEF Items
<1>2. RowEnd \in Items
  BY DEF Items
<1>3. 1 \in Nat /\ TRUE \in BOOLEAN /\ FALSE \in BOOLEAN
  OBVIOUS
<1> QED
  BY <1>1, <1>2, <1>3, Zenon DEF Body, Heading

(* A repeated item makes a sequence of items.                                 *)
LEMMA TimesIn == \A X : \A a \in X : \A k \in Nat : Times(k, <<a>>) \in Seq(X)
<1> SUFFICES ASSUME NEW X, NEW a \in X, NEW k \in Nat PROVE Times(k, <<a>>) \in Seq(X)
  OBVIOUS
<1>1. PICK s : s = <<a>>
  OBVIOUS
<1>2. s \in Seq(X)
  BY <1>1
<1> QED
  BY <1>1, <1>2, TimesSteps

(* The first of some repetitions, and the others.                             *)
LEMMA Unroll ==
  ASSUME NEW X, NEW r \in Seq(X), NEW k \in Nat, NEW R \in Seq(X)
  PROVE  Times(k + 1, r) \o R = r \o (Times(k, r) \o R)
<1>1. PICK T : T = Times(k, r)
  OBVIOUS
<1>2. T \in Seq(X) /\ Times(k + 1, r) = r \o T
  BY <1>1, TimesSteps
<1>3. Associates(X)
  BY Associative
<1>4. (r \o T) \o R = r \o (T \o R)
  BY <1>2, <1>3 DEF Associates
<1> QED
  BY <1>1, <1>2, <1>4, Zenon

(* No repetition leaves what follows.                                         *)
LEMMA NoTimes ==
  ASSUME NEW X, NEW r \in Seq(X), NEW R \in Seq(X)
  PROVE  Times(0, r) \o R = R
BY TimesSteps, ConcatEmptySeq

(* An item in front of a sequence.                                            *)
LEMMA Follows ==
  ASSUME NEW X, NEW a \in X, NEW R \in Seq(X)
  PROVE  <<a>> \o R \in Seq(X)
<1>1. PICK s : s = <<a>>
  OBVIOUS
<1>2. s \in Seq(X)
  BY <1>1
<1> QED
  BY <1>1, <1>2, ConcatProperties

(* A sequence in front of another.                                            *)
LEMMA Precedes ==
  ASSUME NEW X, NEW Q \in Seq(X), NEW R \in Seq(X)
  PROVE  Q \o R \in Seq(X)
BY ConcatProperties

(* The row of a volume consists of items.                                     *)
LEMMA VolumeRowIn ==
  ASSUME NEW n \in Nat
  PROVE  VolumeRow(n) \in Seq(Items)
<1>1. PICK X, a, e, k : X = Items /\ a = Body /\ e = RowEnd /\ k = 3 + 3 * n + 1
  OBVIOUS
<1>2. a \in X /\ e \in X /\ k \in Nat
  BY <1>1, Kinds
<1>3. Times(k, <<a>>) \in Seq(X) /\ <<e>> \in Seq(X)
  BY <1>2, TimesIn
<1>4. Times(k, <<a>>) \o <<e>> \in Seq(X)
  BY <1>3, ConcatProperties
<1> QED
  BY <1>1, <1>4, Zenon DEF VolumeRow

(* So do the rows of a host: its cell, and a row for each volume.             *)
LEMMA HostRowsIn ==
  ASSUME NEW n \in Nat, NEW v \in Nat
  PROVE  /\ HostRows(n, v) \in Seq(Items)
         /\ Times(v, VolumeRow(n)) \in Seq(Items)
         /\ <<1, v, FALSE>> \in Items
         /\ HostRows(n, v) = <<<<1, v, FALSE>>>> \o Times(v, VolumeRow(n))
<1>1. PICK X, a, r : X = Items /\ a = <<1, v, FALSE>> /\ r = VolumeRow(n)
  OBVIOUS
<1>2. a \in X /\ r \in Seq(X)
  BY <1>1, Kinds, VolumeRowIn, Zenon
<1>3. Times(v, r) \in Seq(X)
  BY <1>2, TimesSteps
<1>4. <<a>> \o Times(v, r) \in Seq(X)
  BY <1>2, <1>3, Follows
<1> QED
  BY <1>1, <1>2, <1>3, <1>4, Zenon DEF HostRows

(* What is left from a host on is that host and what is left from the         *)
(* next on.                                                                   *)
LEMMA HostByHost ==
  ASSUME NEW s, s.devices \in Nat, s.hosts \in Seq(Nat)
  PROVE  /\ \A i \in 1 .. Len(s.hosts) + 1 : FromHost(s, i) \in Seq(Items)
         /\ FromHost(s, Len(s.hosts) + 1) = <<>>
         /\ \A i \in 1 .. Len(s.hosts) :
              FromHost(s, i) = HostRows(s.devices, s.hosts[i]) \o FromHost(s, i + 1)
<1>1. PICK n, hosts, m : n = s.devices /\ hosts = s.hosts /\ m = Len(hosts)
  OBVIOUS
<1>2. n \in Nat /\ hosts \in Seq(Nat) /\ m \in Nat /\ \A i \in 1 .. m : hosts[i] \in Nat
  BY <1>1
<1> DEFINE F(i) == [j \in 1 .. m - i + 1 |-> HostRows(n, hosts[j + i - 1])]
<1>3. \A i : FromHost(s, i) = FlattenSeq(F(i))
  BY <1>1 DEF FromHost
<1>4. PICK X : X = Items
  OBVIOUS
<1>5. \A i \in 1 .. m : HostRows(n, hosts[i]) \in Seq(X)
  BY <1>2, <1>4, HostRowsIn
<1>6. ASSUME NEW i \in 1 .. m + 1
      PROVE  F(i) \in Seq(Seq(X)) /\ Len(F(i)) = m - i + 1
  <2>1. m - i + 1 \in Nat
    BY <1>2
  <2>2. \A j \in 1 .. m - i + 1 : j + i - 1 \in 1 .. m
    BY <1>2
  <2>3. \A j \in 1 .. m - i + 1 : HostRows(n, hosts[j + i - 1]) \in Seq(X)
    BY <1>5, <2>2
  <2>4. PICK Y, l : Y = Seq(X) /\ l = m - i + 1
    OBVIOUS
  <2>5. \A j \in 1 .. l : HostRows(n, hosts[j + i - 1]) \in Y
    BY <2>3, <2>4
  <2>6. l \in Nat
    BY <2>1, <2>4
  <2>7. [j \in 1 .. l |-> HostRows(n, hosts[j + i - 1])] \in Seq(Y)
        /\ Len([j \in 1 .. l |-> HostRows(n, hosts[j + i - 1])]) = l
    BY <2>5, <2>6
  <2> QED
    BY <2>4, <2>7
<1>7. ASSUME NEW i \in 1 .. m
      PROVE  /\ FlattenSeq(F(i)) = HostRows(n, hosts[i]) \o FlattenSeq(F(i + 1))
             /\ FlattenSeq(F(i + 1)) \in Seq(X)
  <2>1. PICK f, g : f = F(i) /\ g = F(i + 1)
    OBVIOUS
  <2>2. i \in 1 .. m + 1 /\ i + 1 \in 1 .. m + 1
    BY <1>2
  <2>3. f \in Seq(Seq(X)) /\ g \in Seq(Seq(X)) /\ Len(f) = m - i + 1 /\ Len(g) = m - (i + 1) + 1
    <3> HIDE DEF F
    <3> QED
      BY <1>6, <2>1, <2>2
  <2>4. f[1] = HostRows(n, hosts[i])
    <3>1. 1 \in 1 .. m - i + 1 /\ 1 + i - 1 = i
      BY <1>2
    <3> QED
      BY <2>1, <3>1
  <2>5. Len(f) = Len(g) + 1
    BY <1>2, <2>3
  <2>6. ASSUME NEW j \in 1 .. Len(g) PROVE g[j] = f[j + 1]
    <3>1. j \in 1 .. m - (i + 1) + 1 /\ j + 1 \in 1 .. m - i + 1
          /\ j + (i + 1) - 1 = (j + 1) + i - 1
      BY <1>2, <2>3
    <3>2. g[j] = HostRows(n, hosts[j + (i + 1) - 1])
      BY <2>1, <3>1
    <3>3. f[j + 1] = HostRows(n, hosts[(j + 1) + i - 1])
      BY <2>1, <3>1
    <3> QED
      BY <3>1, <3>2, <3>3
  <2>7. FlattenSeq(f) = f[1] \o FlattenSeq(g) /\ FlattenSeq(g) \in Seq(X)
    BY <2>3, <2>5, <2>6, FlattenFirst
  <2> QED
    BY <2>1, <2>4, <2>7
<1>8. FlattenSeq(F(m + 1)) = <<>>
  <2>1. PICK f : f = F(m + 1)
    OBVIOUS
  <2>2. m + 1 \in 1 .. m + 1 /\ m - (m + 1) + 1 = 0
    BY <1>2
  <2>3. f \in Seq(Seq(X)) /\ Len(f) = 0
    <3> HIDE DEF F
    <3> QED
      BY <1>6, <2>1, <2>2
  <2>4. f = <<>>
    BY <2>3
  <2>5. FlattenSeq(f) = f
    BY <2>3 DEF FlattenSeq
  <2> QED
    BY <2>1, <2>4, <2>5
<1> HIDE DEF F
<1>9. \A i \in 1 .. m + 1 : FlattenSeq(F(i)) \in Seq(X)
  <2> SUFFICES ASSUME NEW i \in 1 .. m + 1 PROVE FlattenSeq(F(i)) \in Seq(X)
    OBVIOUS
  <2>1. CASE i = 1
    <3>1. CASE m = 0
      <4>1. m + 1 = i
        BY <2>1, <3>1
      <4>2. FlattenSeq(F(i)) = <<>>
        BY <1>8, <4>1
      <4> QED
        BY <4>2, EmptySeq
    <3>2. CASE m # 0
      <4>1. 1 \in 1 .. m
        BY <1>2, <3>2
      <4>2. FlattenSeq(F(1)) = HostRows(n, hosts[1]) \o FlattenSeq(F(1 + 1))
            /\ FlattenSeq(F(1 + 1)) \in Seq(X) /\ HostRows(n, hosts[1]) \in Seq(X)
        BY <1>5, <1>7, <4>1
      <4> QED
        BY <2>1, <4>2, Precedes
    <3> QED
      BY <3>1, <3>2
  <2>2. CASE i # 1
    <3>1. i - 1 \in 1 .. m /\ (i - 1) + 1 = i
      BY <1>2, <2>2
    <3> QED
      BY <1>7, <3>1
  <2> QED
    BY <2>1, <2>2
<1> QED
  BY <1>1, <1>3, <1>4, <1>7, <1>8, <1>9

Shaped(s) == s \in Shapes /\ s.devices \in Nat /\ s.hosts \in Seq(Nat)

(* What is left at each place of a summary is a sequence of items.            *)
LEMMA RestTypes ==
  ASSUME NEW s, Shaped(s)
  PROVE  /\ \A i \in 1 .. Len(s.hosts) + 1 : FromHost(s, i) \in Seq(Items)
         /\ <<RowEnd>> \o FromHost(s, 1) \in Seq(Items)
         /\ <<Heading(1, 1)>> \o (<<RowEnd>> \o FromHost(s, 1)) \in Seq(Items)
         /\ \A k \in Nat : InThird(s, k) \in Seq(Items)
         /\ \A k \in Nat : <<RowEnd>> \o InThird(s, k) \in Seq(Items)
         /\ \A k \in Nat : InSecond(s, k) \in Seq(Items)
         /\ \A k \in Nat : <<RowEnd>> \o InSecond(s, k) \in Seq(Items)
         /\ \A k \in Nat : <<Heading(1, 2)>> \o (<<RowEnd>> \o InSecond(s, k)) \in Seq(Items)
         /\ \A k \in Nat : InFirst(s, k) \in Seq(Items)
<1>1. PICK X, n, e, one, two, three, tall, wide :
        /\ X = Items /\ n = s.devices /\ e = RowEnd /\ one = Heading(1, 1)
        /\ two = Heading(1, 2) /\ three = Heading(3, 1) /\ tall = Heading(1, 3)
        /\ wide = Heading(3 * n, 1)
  OBVIOUS
<1>2. n \in Nat /\ 3 * n \in Nat
  BY <1>1 DEF Shaped
<1>3. e \in X /\ one \in X /\ two \in X /\ three \in X /\ tall \in X /\ wide \in X
  BY <1>1, <1>2, Kinds
<1>4. \A i \in 1 .. Len(s.hosts) + 1 : FromHost(s, i) \in Seq(X)
  BY <1>1, HostByHost DEF Shaped
<1>5. FromHost(s, 1) \in Seq(X)
  <2>1. 1 \in 1 .. Len(s.hosts) + 1
    BY DEF Shaped
  <2> QED
    BY <1>4, <2>1
<1>6. <<e>> \o FromHost(s, 1) \in Seq(X)
  BY <1>3, <1>5, Follows
<1>7. <<one>> \o (<<e>> \o FromHost(s, 1)) \in Seq(X)
  BY <1>3, <1>6, Follows
<1>8. ASSUME NEW k \in Nat PROVE InThird(s, k) \in Seq(X)
  <2>1. Times(k, <<one>>) \in Seq(X)
    BY <1>3, TimesIn
  <2>2. Times(k, <<one>>) \o (<<one>> \o (<<e>> \o FromHost(s, 1))) \in Seq(X)
    BY <1>7, <2>1, Precedes
  <2> QED
    BY <1>1, <2>2 DEF InThird
<1>9. \A k \in Nat : <<e>> \o InThird(s, k) \in Seq(X)
  BY <1>3, <1>8, Follows
<1>10. ASSUME NEW k \in Nat PROVE InSecond(s, k) \in Seq(X)
  <2>1. Times(k, <<three>>) \in Seq(X)
    BY <1>3, TimesIn
  <2>2. <<e>> \o InThird(s, 3 * n) \in Seq(X)
    BY <1>2, <1>9
  <2>3. Times(k, <<three>>) \o (<<e>> \o InThird(s, 3 * n)) \in Seq(X)
    BY <2>1, <2>2, Precedes
  <2> QED
    BY <1>1, <2>3 DEF InSecond
<1>11. \A k \in Nat : <<e>> \o InSecond(s, k) \in Seq(X)
  BY <1>3, <1>10, Follows
<1>12. \A k \in Nat : <<two>> \o (<<e>> \o InSecond(s, k)) \in Seq(X)
  BY <1>3, <1>11, Follows
<1>13. ASSUME NEW k \in Nat PROVE InFirst(s, k) \in Seq(X)
  <2>1. Times(k, <<tall>>) \in Seq(X)
    BY <1>3, TimesIn
  <2>2. <<two>> \o (<<e>> \o InSecond(s, n)) \in Seq(X)
    BY <1>2, <1>12
  <2>3. <<wide>> \o (<<two>> \o (<<e>> \o InSecond(s, n))) \in Seq(X)
    BY <1>3, <2>2, Follows
  <2>4. Times(k, <<tall>>) \o (<<wide>> \o (<<two>> \o (<<e>> \o InSecond(s, n)))) \in Seq(X)
    BY <2>1, <2>3, Precedes
  <2> QED
    BY <1>1, <2>4 DEF InFirst
<1> QED
  BY <1>1, <1>4, <1>6, <1>7, <1>8, <1>9, <1>10, <1>11, <1>12, <1>13

(* A repeated cell comes, or the repetition is over.                             *)
LEMMA Repeated ==
  ASSUME NEW a \in Items, NEW k \in Nat, NEW R \in Seq(Items)
  PROVE  /\ Times(k + 1, <<a>>) \o R = <<a>> \o (Times(k, <<a>>) \o R)
         /\ Times(0, <<a>>) \o R = R
<1>1. PICK X, r : X = Items /\ r = <<a>>
  OBVIOUS
<1>2. a \in X /\ R \in Seq(X)
  BY <1>1
<1>3. r \in Seq(X)
  BY <1>1, <1>2, EmptySeq, Follows, ConcatEmptySeq
<1>4. Times(k + 1, r) \o R = r \o (Times(k, r) \o R)
  BY <1>2, <1>3, Unroll
<1>5. Times(0, r) \o R = R
  BY <1>2, <1>3, NoTimes
<1> QED
  BY <1>1, <1>4, <1>5, Zenon

(* The first row of headings, cell by cell.                                   *)
LEMMA FirstRow ==
  ASSUME NEW s, Shaped(s)
  PROVE  /\ \A k \in Nat : InFirst(s, k + 1) = <<Heading(1, 3)>> \o InFirst(s, k)
         /\ InFirst(s, 0) = <<Heading(3 * s.devices, 1)>>
                              \o (<<Heading(1, 2)>> \o (<<RowEnd>> \o InSecond(s, s.devices)))
<1>1. PICK n, R : /\ n = s.devices
                  /\ R = <<Heading(3 * n, 1)>>
                           \o (<<Heading(1, 2)>> \o (<<RowEnd>> \o InSecond(s, n)))
  OBVIOUS
<1>2. n \in Nat /\ 3 * n \in Nat /\ 1 \in Nat /\ 3 \in Nat
  BY <1>1 DEF Shaped
<1>3. Heading(1, 3) \in Items /\ Heading(3 * n, 1) \in Items
  BY <1>2, Kinds
<1>4. <<Heading(1, 2)>> \o (<<RowEnd>> \o InSecond(s, n)) \in Seq(Items)
  BY <1>2, RestTypes
<1>5. R \in Seq(Items)
  BY <1>1, <1>3, <1>4, Follows
<1>6. \A k : InFirst(s, k) = Times(k, <<Heading(1, 3)>>) \o R
  BY <1>1 DEF InFirst
<1>7. /\ \A k \in Nat : Times(k + 1, <<Heading(1, 3)>>) \o R
                            = <<Heading(1, 3)>> \o (Times(k, <<Heading(1, 3)>>) \o R)
      /\ Times(0, <<Heading(1, 3)>>) \o R = R
  BY <1>3, <1>5, Repeated
<1>8. \A k \in Nat : k + 1 \in Nat
  OBVIOUS
<1>9. ASSUME NEW k \in Nat
      PROVE  InFirst(s, k + 1) = <<Heading(1, 3)>> \o InFirst(s, k)
  BY <1>6, <1>7, Zenon
<1>10. InFirst(s, 0) = R
  BY <1>6, <1>7, Zenon
<1> QED
  BY <1>1, <1>9, <1>10, Zenon

(* The second: the devices.                                                   *)
LEMMA SecondRow ==
  ASSUME NEW s, Shaped(s)
  PROVE  /\ \A k \in Nat : InSecond(s, k + 1) = <<Heading(3, 1)>> \o InSecond(s, k)
         /\ InSecond(s, 0) = <<RowEnd>> \o InThird(s, 3 * s.devices)
<1>1. PICK n, R : n = s.devices /\ R = <<RowEnd>> \o InThird(s, 3 * n)
  OBVIOUS
<1>2. n \in Nat /\ 3 * n \in Nat /\ 1 \in Nat /\ 3 \in Nat
  BY <1>1 DEF Shaped
<1>3. Heading(3, 1) \in Items /\ R \in Seq(Items)
  BY <1>1, <1>2, Kinds, RestTypes
<1>4. \A k : InSecond(s, k) = Times(k, <<Heading(3, 1)>>) \o R
  BY <1>1 DEF InSecond
<1>5. /\ \A k \in Nat : Times(k + 1, <<Heading(3, 1)>>) \o R
                            = <<Heading(3, 1)>> \o (Times(k, <<Heading(3, 1)>>) \o R)
      /\ Times(0, <<Heading(3, 1)>>) \o R = R
  BY <1>3, Repeated
<1>6. \A k \in Nat : k + 1 \in Nat
  OBVIOUS
<1>7. ASSUME NEW k \in Nat
      PROVE  InSecond(s, k + 1) = <<Heading(3, 1)>> \o InSecond(s, k)
  BY <1>4, <1>5, Zenon
<1>8. InSecond(s, 0) = R
  BY <1>4, <1>5, Zenon
<1> QED
  BY <1>1, <1>7, <1>8, Zenon

(* The third: three for each device.                                          *)
LEMMA ThirdRow ==
  ASSUME NEW s, Shaped(s)
  PROVE  /\ \A k \in Nat : InThird(s, k + 1) = <<Heading(1, 1)>> \o InThird(s, k)
         /\ InThird(s, 0) = <<Heading(1, 1)>> \o (<<RowEnd>> \o FromHost(s, 1))
<1>1. PICK R : R = <<Heading(1, 1)>> \o (<<RowEnd>> \o FromHost(s, 1))
  OBVIOUS
<1>2. Heading(1, 1) \in Items /\ R \in Seq(Items)
  BY <1>1, Kinds, RestTypes
<1>3. \A k : InThird(s, k) = Times(k, <<Heading(1, 1)>>) \o R
  BY <1>1 DEF InThird
<1>4. ASSUME NEW k \in Nat
      PROVE  /\ Times(k + 1, <<Heading(1, 1)>>) \o R
                  = <<Heading(1, 1)>> \o (Times(k, <<Heading(1, 1)>>) \o R)
             /\ Times(0, <<Heading(1, 1)>>) \o R = R
  BY <1>2, Repeated
<1>5. ASSUME NEW k \in Nat
      PROVE  InThird(s, k + 1) = <<Heading(1, 1)>> \o InThird(s, k)
  BY <1>3, <1>4, Zenon
<1>6. 0 \in Nat
  OBVIOUS
<1>7. InThird(s, 0) = R
  BY <1>3, <1>4, <1>6, Zenon
<1> QED
  BY <1>1, <1>5, <1>7, Zenon

(* A host, cell by cell: its own, and its volumes.                            *)
LEMMA HostIs ==
  ASSUME NEW s, Shaped(s), NEW i \in 1 .. Len(s.hosts)
  PROVE  /\ FromHost(s, i)
              = <<<<1, s.hosts[i], FALSE>>>>
                  \o (Times(s.hosts[i], VolumeRow(s.devices)) \o FromHost(s, i + 1))
         /\ Times(s.hosts[i], VolumeRow(s.devices)) \o FromHost(s, i + 1) \in Seq(Items)
<1>1. PICK n, v, X, a, T, F :
        /\ n = s.devices /\ v = s.hosts[i] /\ X = Items /\ a = <<1, v, FALSE>>
        /\ T = Times(v, VolumeRow(n)) /\ F = FromHost(s, i + 1)
  OBVIOUS
<1>2. n \in Nat /\ v \in Nat /\ i + 1 \in 1 .. Len(s.hosts) + 1
  BY <1>1 DEF Shaped
<1>3. F \in Seq(X)
  BY <1>1, <1>2, RestTypes
<1>4. T \in Seq(X) /\ a \in X /\ HostRows(n, v) = <<a>> \o T
  BY <1>1, <1>2, HostRowsIn
<1>5. FromHost(s, i) = HostRows(n, v) \o F
  BY <1>1, HostByHost DEF Shaped
<1>6. <<a>> \in Seq(X)
  BY <1>4, EmptySeq, Follows, ConcatEmptySeq
<1>7. (<<a>> \o T) \o F = <<a>> \o (T \o F)
  <2>1. Associates(X)
    BY Associative
  <2>2. PICK A : A = <<a>>
    OBVIOUS
  <2>3. A \in Seq(X)
    BY <1>6, <2>2
  <2>4. (A \o T) \o F = A \o (T \o F)
    BY <1>3, <1>4, <2>1, <2>3 DEF Associates
  <2> QED
    BY <2>2, <2>4
<1>8. T \o F \in Seq(X)
  BY <1>3, <1>4, Precedes
<1> QED
  BY <1>1, <1>4, <1>5, <1>7, <1>8, Zenon

(* A volume, cell by cell.                                                    *)
LEMMA VolumeIs ==
  ASSUME NEW s, Shaped(s), NEW i \in 1 .. Len(s.hosts), NEW v \in Nat
  PROVE  /\ \A k \in Nat : InVolume(s, i, v, k) \in Seq(Items)
         /\ \A k \in Nat : InVolume(s, i, v, k + 1) = <<Body>> \o InVolume(s, i, v, k)
         /\ InVolume(s, i, v, 0)
              = <<RowEnd>> \o (Times(v, VolumeRow(s.devices)) \o FromHost(s, i + 1))
         /\ Times(v, VolumeRow(s.devices)) \o FromHost(s, i + 1) \in Seq(Items)
         /\ Times(v + 1, VolumeRow(s.devices)) \o FromHost(s, i + 1)
              = InVolume(s, i, v, 4 + 3 * s.devices)
<1>1. PICK n, X, F, r, T : /\ n = s.devices /\ X = Items /\ F = FromHost(s, i + 1)
                           /\ r = VolumeRow(n) /\ T = Times(v, r)
  OBVIOUS
<1>2. n \in Nat /\ i + 1 \in 1 .. Len(s.hosts) + 1 /\ 4 + 3 * n \in Nat
  BY <1>1 DEF Shaped
<1>3. F \in Seq(X)
  BY <1>1, <1>2, RestTypes
<1>4. r \in Seq(X)
  BY <1>1, <1>2, VolumeRowIn
<1>5. T \in Seq(X)
  BY <1>1, <1>4, TimesSteps
<1>6. T \o F \in Seq(X)
  BY <1>3, <1>5, Precedes
<1>7. PICK a, e : a = Body /\ e = RowEnd
  OBVIOUS
<1>8. a \in X /\ e \in X
  BY <1>1, <1>7, Kinds
<1>9. <<e>> \o (T \o F) \in Seq(X)
  BY <1>6, <1>8, Follows
<1>10. \A k : InVolume(s, i, v, k) = Times(k, <<a>>) \o (<<e>> \o (T \o F))
  BY <1>1, <1>7 DEF InVolume
<1>11. ASSUME NEW k \in Nat
       PROVE  /\ InVolume(s, i, v, k) \in Seq(X)
              /\ InVolume(s, i, v, k + 1) = <<a>> \o InVolume(s, i, v, k)
  <2>1. Times(k, <<a>>) \in Seq(X)
    BY <1>8, TimesIn
  <2>2. Times(k, <<a>>) \o (<<e>> \o (T \o F)) \in Seq(X)
    BY <1>9, <2>1, Precedes
  <2>3. Times(k + 1, <<a>>) \o (<<e>> \o (T \o F))
          = <<a>> \o (Times(k, <<a>>) \o (<<e>> \o (T \o F)))
    BY <1>1, <1>8, <1>9, Repeated
  <2> QED
    BY <1>10, <2>2, <2>3
<1>12. InVolume(s, i, v, 0) = <<e>> \o (T \o F)
  <2>1. 0 \in Nat
    OBVIOUS
  <2>2. Times(0, <<a>>) \o (<<e>> \o (T \o F)) = <<e>> \o (T \o F)
    BY <1>1, <1>8, <1>9, <2>1, Repeated
  <2> QED
    BY <1>10, <2>2
<1>13. Times(v + 1, r) \o F = InVolume(s, i, v, 4 + 3 * n)
  <2>1. PICK B, E : B = Times(4 + 3 * n, <<a>>) /\ E = <<e>>
    OBVIOUS
  <2>2. B \in Seq(X)
    BY <1>2, <1>8, <2>1, TimesIn
  <2>3. E \in Seq(X)
    BY <1>8, <2>1, EmptySeq, Follows, ConcatEmptySeq
  <2>4. r = B \o E
    <3>1. 3 + 3 * n + 1 = 4 + 3 * n
      BY <1>2
    <3> QED
      BY <1>1, <1>7, <2>1, <3>1 DEF VolumeRow
  <2>5. Times(v + 1, r) \o F = r \o (T \o F)
    BY <1>1, <1>3, <1>4, Unroll
  <2>6. (B \o E) \o (T \o F) = B \o (E \o (T \o F))
    <3>1. Associates(X)
      BY Associative
    <3>2. PICK G : G = T \o F
      OBVIOUS
    <3>3. (B \o E) \o G = B \o (E \o G)
      BY <1>6, <2>2, <2>3, <3>1, <3>2 DEF Associates
    <3> QED
      BY <3>2, <3>3
  <2>7. InVolume(s, i, v, 4 + 3 * n) = B \o (E \o (T \o F))
    BY <1>10, <2>1
  <2> QED
    BY <2>4, <2>5, <2>6, <2>7, Zenon
<1> QED
  BY <1>1, <1>6, <1>7, <1>11, <1>12, <1>13

(* Appending, as a product of its own.                                           *)
Cat(a, b) == a \o b

Grouped(S) ==
  /\ \A a, b \in S : Cat(a, b) \in S
  /\ \A a, b, c \in S : Cat(Cat(a, b), c) = Cat(a, Cat(b, c))

(* Appending, as a product, keeps to sequences and is associative.            *)
LEMMA CatIs ==
  ASSUME NEW X
  PROVE  Grouped(Seq(X))
<1>1. ASSUME NEW a \in Seq(X), NEW b \in Seq(X) PROVE Cat(a, b) \in Seq(X)
  BY ConcatProperties DEF Cat
<1>2. Associates(X)
  BY Associative
<1>3. ASSUME NEW a \in Seq(X), NEW b \in Seq(X), NEW c \in Seq(X)
      PROVE  Cat(Cat(a, b), c) = Cat(a, Cat(b, c))
  BY <1>2 DEF Cat, Associates
<1>4. PICK S : S = Seq(X)
  OBVIOUS
<1>5. \A a, b \in S : Cat(a, b) \in S
  BY <1>1, <1>4
<1>6. \A a, b, c \in S : Cat(Cat(a, b), c) = Cat(a, Cat(b, c))
  BY <1>3, <1>4
<1>7. Grouped(S)
  BY <1>5, <1>6 DEF Grouped
<1> QED
  BY <1>4, <1>7

(* Four of them, grouped from the left and from the right.                    *)
LEMMA Reassociate ==
  ASSUME NEW S, Grouped(S), NEW a \in S, NEW b \in S, NEW c \in S, NEW d \in S
  PROVE  /\ Cat(Cat(Cat(a, b), c), d) = Cat(a, Cat(b, Cat(c, d)))
         /\ Cat(Cat(a, b), c) \in S /\ Cat(b, Cat(c, d)) \in S
<1>1. Cat(a, b) \in S /\ Cat(c, d) \in S
  BY DEF Grouped
<1>2. Cat(Cat(Cat(a, b), c), d) = Cat(Cat(a, b), Cat(c, d))
  BY <1>1 DEF Grouped
<1>3. Cat(Cat(a, b), Cat(c, d)) = Cat(a, Cat(b, Cat(c, d)))
  BY <1>1 DEF Grouped
<1> QED
  BY <1>1, <1>2, <1>3 DEF Grouped

Lead(a, Q) == <<a>> \o Q

(* A sequence is its first member and the others.                             *)
LEMMA InFront ==
  ASSUME NEW X, NEW a \in X, NEW Q \in Seq(X), NEW P \in Seq(X), Len(P) = Len(Q) + 1,
         P[1] = a, \A i \in 1 .. Len(Q) : P[i + 1] = Q[i]
  PROVE  P = Lead(a, Q)
<1>1. PICK B : B = <<a>>
  OBVIOUS
<1>2. B \in Seq(X) /\ Len(B) = 1 /\ B[1] = a
  BY <1>1
<1>3. PICK R : R = B \o Q
  OBVIOUS
<1>4. /\ R \in Seq(X) /\ Len(R) = Len(B) + Len(Q)
      /\ \A i \in 1 .. Len(B) + Len(Q) : R[i] = IF i <= Len(B) THEN B[i] ELSE Q[i - Len(B)]
  BY <1>2, <1>3, ConcatProperties
<1>5. ASSUME NEW i \in 1 .. Len(P) PROVE P[i] = R[i]
  <2>1. Len(Q) \in Nat /\ i \in 1 .. Len(B) + Len(Q)
    BY <1>2
  <2>2. CASE i = 1
    BY <1>2, <1>4, <2>1, <2>2
  <2>3. CASE i # 1
    <3>1. i - 1 \in 1 .. Len(Q) /\ (i - 1) + 1 = i /\ ~ (i <= Len(B)) /\ i - Len(B) = i - 1
      BY <1>2, <2>1, <2>3
    <3>2. P[i] = Q[i - 1]
      BY <3>1
    <3> QED
      BY <1>4, <2>1, <3>1, <3>2
  <2> QED
    BY <2>2, <2>3
<1>6. Len(P) = Len(R)
  <2>1. Len(Q) \in Nat
    OBVIOUS
  <2> QED
    BY <1>2, <1>4, <2>1
<1>7. P = R
  BY <1>4, <1>5, <1>6, SeqEqual
<1> QED
  BY <1>1, <1>3, <1>7, Zenon DEF Lead

OneByOne(a, b, c, R) ==
  /\ Cat(<<a, b>>, R) = Cat(<<a>>, Cat(<<b>>, R))
  /\ Cat(<<a, b, c>>, R) = Cat(<<a>>, Cat(<<b>>, Cat(<<c>>, R)))
Fit(X, a, b, c, R) == a \in X /\ b \in X /\ c \in X /\ R \in Seq(X)

(* Some in front, each at a time.                                             *)
LEMMA InARow ==
  ASSUME NEW X, NEW a, NEW b, NEW c, NEW R, Fit(X, a, b, c, R)
  PROVE  OneByOne(a, b, c, R)
<1>1. PICK A, B, C, P, Q, V : /\ A = <<a>> /\ B = <<b>> /\ C = <<c>>
                           /\ P = <<a, b, c>> /\ Q = <<b, c>> /\ V = <<a, b>>
  OBVIOUS
<1>2. /\ a \in X /\ b \in X /\ c \in X /\ R \in Seq(X)
      /\ A \in Seq(X) /\ B \in Seq(X) /\ C \in Seq(X) /\ P \in Seq(X) /\ Q \in Seq(X) /\ V \in Seq(X)
      /\ Len(C) = 1 /\ Len(B) = 1 /\ Len(Q) = 2 /\ Len(P) = 3 /\ Len(V) = 2
      /\ C[1] = c /\ B[1] = b /\ Q[1] = b /\ Q[2] = c /\ P[1] = a /\ P[2] = b /\ P[3] = c
      /\ V[1] = a /\ V[2] = b
  BY <1>1 DEF Fit
<1>3. Q = Cat(B, C)
  <2>1. \A i \in 1 .. Len(C) : Q[i + 1] = C[i]
    <3>1. \A i \in 1 .. 1 : i = 1
      OBVIOUS
    <3> QED
      BY <1>2, <3>1
  <2>2. b \in X /\ C \in Seq(X) /\ Q \in Seq(X) /\ Len(Q) = Len(C) + 1 /\ Q[1] = b
    BY <1>2
  <2>3. Q = Lead(b, C)
    BY <2>1, <2>2, InFront
  <2> QED
    BY <1>1, <2>3, Zenon DEF Cat, Lead
<1>4. P = Cat(A, Q)
  <2>1. \A i \in 1 .. Len(Q) : P[i + 1] = Q[i]
    <3>1. \A i \in 1 .. 2 : i = 1 \/ i = 2
      OBVIOUS
    <3> QED
      BY <1>2, <3>1
  <2>2. a \in X /\ Q \in Seq(X) /\ P \in Seq(X) /\ Len(P) = Len(Q) + 1 /\ P[1] = a
    BY <1>2
  <2>3. P = Lead(a, Q)
    BY <2>1, <2>2, InFront
  <2> QED
    BY <1>1, <2>3, Zenon DEF Cat, Lead
<1>5. V = Cat(A, B)
  <2>1. \A i \in 1 .. Len(B) : V[i + 1] = B[i]
    <3>1. \A i \in 1 .. 1 : i = 1
      OBVIOUS
    <3> QED
      BY <1>2, <3>1
  <2>2. a \in X /\ B \in Seq(X) /\ V \in Seq(X) /\ Len(V) = Len(B) + 1 /\ V[1] = a
    BY <1>2
  <2>3. V = Lead(a, B)
    BY <2>1, <2>2, InFront
  <2> QED
    BY <1>1, <2>3, Zenon DEF Cat, Lead
<1>6. PICK S : S = Seq(X)
  OBVIOUS
<1>7. Grouped(S)
  BY <1>6, CatIs, Zenon
<1>8. A \in S /\ B \in S /\ C \in S /\ Q \in S /\ R \in S
  BY <1>2, <1>6 DEF Fit
<1>9. Cat(V, R) = Cat(A, Cat(B, R))
  BY <1>5, <1>7, <1>8 DEF Grouped
<1>10. Cat(Q, R) = Cat(B, Cat(C, R))
  BY <1>3, <1>7, <1>8 DEF Grouped
<1>11. Cat(P, R) = Cat(A, Cat(Q, R))
  BY <1>4, <1>7, <1>8 DEF Grouped
<1> QED
  BY <1>1, <1>9, <1>10, <1>11, Zenon DEF OneByOne

(* At first all of a summary is left, beginning with four headings.           *)
LEMMA AllOfIt ==
  ASSUME NEW s, Shaped(s)
  PROVE  SummaryCells[s] = InFirst(s, 4)
<1>1. PICK X, n, m, e, one, two, three, tall, wide :
        /\ X = Items /\ n = s.devices /\ m = 3 * n /\ e = RowEnd /\ one = Heading(1, 1)
        /\ two = Heading(1, 2) /\ three = Heading(3, 1) /\ tall = Heading(1, 3)
        /\ wide = Heading(m, 1)
  OBVIOUS
<1>2. n \in Nat /\ m \in Nat
  BY <1>1 DEF Shaped
<1>3. e \in X /\ one \in X /\ two \in X /\ three \in X /\ tall \in X /\ wide \in X
  BY <1>1, <1>2, Kinds
<1>4. PICK A, B, C, D, E, F, G :
        /\ A = Times(4, <<tall>>) /\ B = <<wide, two, e>> /\ C = Times(n, <<three>>)
        /\ D = <<e>> /\ E = Times(m, <<one>>) /\ F = <<one, e>> /\ G = FromHost(s, 1)
  OBVIOUS
<1>5. SummaryCells[s] = (((((A \o B) \o C) \o D) \o E) \o F) \o G
  <2>1. PICK hosts : hosts = s.hosts
    OBVIOUS
  <2>2. hosts \in Seq(Nat) /\ DOMAIN hosts = 1 .. Len(hosts) /\ Len(hosts) \in Nat
    BY <2>1 DEF Shaped
  <2>3. \A j \in 1 .. Len(hosts) : j + 1 - 1 = j
    BY <2>2
  <2>4. Len(hosts) - 1 + 1 = Len(hosts)
    BY <2>2
  <2>5. [i \in DOMAIN hosts |-> HostRows(n, hosts[i])]
          = [j \in 1 .. Len(hosts) - 1 + 1 |-> HostRows(n, hosts[j + 1 - 1])]
    BY <2>2, <2>3, <2>4
  <2>6. G = FlattenSeq([i \in DOMAIN hosts |-> HostRows(n, hosts[i])])
    BY <1>1, <1>4, <2>1, <2>5 DEF FromHost
  <2>7. Headings(n) = ((((A \o B) \o C) \o D) \o E) \o F
    BY <1>1, <1>4 DEF Headings
  <2>8. SummaryCells[s]
          = Headings(n) \o FlattenSeq([i \in DOMAIN hosts |-> HostRows(n, hosts[i])])
    BY <1>1, <2>1 DEF SummaryCells, Shaped
  <2> QED
    BY <2>6, <2>7, <2>8
<1>6. /\ A \in Seq(X) /\ B \in Seq(X) /\ C \in Seq(X) /\ D \in Seq(X)
      /\ E \in Seq(X) /\ F \in Seq(X) /\ G \in Seq(X)
  <2>1. A \in Seq(X) /\ C \in Seq(X) /\ E \in Seq(X)
    BY <1>2, <1>3, <1>4, TimesIn
  <2>2. B \in Seq(X) /\ D \in Seq(X) /\ F \in Seq(X)
    BY <1>3, <1>4
  <2>3. 1 \in 1 .. Len(s.hosts) + 1
    BY DEF Shaped
  <2>4. G \in Seq(X)
    BY <1>1, <1>4, <2>3, RestTypes
  <2> QED
    BY <2>1, <2>2, <2>4
<1>7. PICK S : S = Seq(X)
  OBVIOUS
<1>8. Grouped(S)
  BY <1>7, CatIs, Zenon
<1>9. A \in S /\ B \in S /\ C \in S /\ D \in S /\ E \in S /\ F \in S /\ G \in S
  BY <1>6, <1>7
<1>10. SummaryCells[s] = Cat(A, Cat(B, Cat(C, Cat(D, Cat(E, Cat(F, G))))))
  <2>1. SummaryCells[s] = Cat(Cat(Cat(Cat(Cat(Cat(A, B), C), D), E), F), G)
    BY <1>5, Zenon DEF Cat
  <2>2. Cat(Cat(Cat(Cat(Cat(Cat(A, B), C), D), E), F), G)
          = Cat(A, Cat(B, Cat(C, Cat(D, Cat(E, Cat(F, G))))))
    <3>1. PICK p, q : p = Cat(Cat(A, B), C) /\ q = Cat(F, G)
      OBVIOUS
    <3>2. p \in S /\ q \in S
      <4>1. A \in S /\ B \in S /\ C \in S
        BY <1>9
      <4>2. F \in S /\ G \in S
        BY <1>9
      <4> QED
        BY <1>8, <3>1, <4>1, <4>2 DEF Grouped
    <3>3. D \in S /\ E \in S
      BY <1>9
    <3>4. /\ Cat(Cat(Cat(p, D), E), q) = Cat(p, Cat(D, Cat(E, q)))
          /\ Cat(D, Cat(E, q)) \in S /\ Cat(Cat(p, D), E) \in S
      BY <1>8, <3>2, <3>3, Reassociate
    <3>5. Cat(Cat(Cat(Cat(p, D), E), F), G) = Cat(Cat(Cat(p, D), E), q)
      <4>1. F \in S /\ G \in S /\ Cat(Cat(p, D), E) \in S
        BY <1>9, <3>4
      <4> QED
        BY <1>8, <3>1, <4>1 DEF Grouped
    <3>6. Cat(p, Cat(D, Cat(E, q))) = Cat(A, Cat(B, Cat(C, Cat(D, Cat(E, q)))))
      <4>1. A \in S /\ B \in S /\ C \in S
        BY <1>9
      <4> QED
        BY <1>8, <3>1, <3>4, <4>1, Reassociate
    <3> QED
      BY <3>1, <3>4, <3>5, <3>6
  <2> QED
    BY <2>1, <2>2, Zenon
<1>11. Cat(E, Cat(F, G)) = InThird(s, m)
  <2>1. Cat(F, G) = Cat(<<one>>, Cat(<<e>>, G))
    <3>1. Fit(X, one, e, e, G)
      BY <1>3, <1>6 DEF Fit
    <3>2. OneByOne(one, e, e, G)
      BY <3>1, InARow
    <3> QED
      BY <1>4, <3>2, Zenon DEF OneByOne
  <2> QED
    BY <1>1, <1>4, <2>1, Zenon DEF InThird, Cat
<1>12. Cat(C, Cat(D, InThird(s, m))) = InSecond(s, n)
  BY <1>1, <1>4, Zenon DEF InSecond, Cat
<1>13. Cat(A, Cat(B, InSecond(s, n))) = InFirst(s, 4)
  <2>1. InSecond(s, n) \in Seq(X)
    BY <1>1, <1>2, RestTypes
  <2>2. Cat(B, InSecond(s, n)) = Cat(<<wide>>, Cat(<<two>>, Cat(<<e>>, InSecond(s, n))))
    <3>1. Fit(X, wide, two, e, InSecond(s, n))
      BY <1>3, <2>1 DEF Fit
    <3>2. OneByOne(wide, two, e, InSecond(s, n))
      BY <3>1, InARow
    <3> QED
      BY <1>4, <3>2, Zenon DEF OneByOne
  <2> QED
    BY <1>1, <1>4, <2>2, Zenon DEF InFirst, Cat
<1> QED
  BY <1>10, <1>11, <1>12, <1>13, Zenon

-----------------------------------------------------------------------------
(* Where the hosts begin.                                                      *)
LEMMA TopsGrow ==
  ASSUME NEW s, Shaped(s)
  PROVE  /\ \A i \in 1 .. Len(s.hosts) + 1 : Top(s, i) \in Nat /\ Top(s, i) >= 3
         /\ Top(s, 1) = 3
         /\ \A i \in 1 .. Len(s.hosts) : Top(s, i + 1) = Top(s, i) + s.hosts[i]
         /\ \A i, j \in 1 .. Len(s.hosts) : i < j => Top(s, i) + s.hosts[i] <= Top(s, j)
<1>1. PICK f, m : f = s.hosts /\ m = Len(f)
  OBVIOUS
<1>2. f \in Seq(Nat) /\ m \in Nat /\ \A i \in 1 .. m : f[i] \in Nat
  BY <1>1 DEF Shaped
<1> DEFINE S(i) == SumOver(f, 1 .. i - 1)
<1>3. \A i : Top(s, i) = 3 + S(i)
  BY <1>1 DEF Top
<1>4. ASSUME NEW i \in 1 .. m + 1 PROVE S(i) \in Nat
  <2>1. 1 \in Int /\ i - 1 \in Int /\ \A j \in 1 .. i - 1 : f[j] \in Nat
    BY <1>2
  <2> QED
    BY <2>1, SumInterval
<1>5. S(1) = 0
  <2>1. 1 \in Int /\ 0 \in Int /\ 0 < 1
    OBVIOUS
  <2>2. SumOver(f, 1 .. 0) = 0
    BY <2>1, SumNone
  <2> QED
    BY <2>2
<1>6. ASSUME NEW i \in 1 .. m PROVE S(i + 1) = S(i) + f[i]
  <2>1. 1 \in Int /\ i \in Int /\ 1 <= i /\ \A j \in 1 .. i : f[j] \in Nat
    BY <1>2
  <2>2. SumOver(f, 1 .. i) = SumOver(f, 1 .. i - 1) + f[i]
    BY <2>1, SumNext
  <2>3. (i + 1) - 1 = i
    OBVIOUS
  <2> QED
    BY <2>2, <2>3
<1>7. ASSUME NEW i \in 1 .. m, NEW j \in 1 .. m, i < j
      PROVE  S(i) + f[i] <= S(j)
  <2>1. PICK b, c : b = i /\ c = j - 1
    OBVIOUS
  <2>2. /\ 1 \in Int /\ b \in Int /\ c \in Int /\ 1 <= b + 1 /\ b <= c
        /\ \A k \in 1 .. c : f[k] \in Nat
    BY <1>2, <1>7, <2>1
  <2>3. SumOver(f, 1 .. c) = SumOver(f, 1 .. b) + SumOver(f, b + 1 .. c)
    BY <2>2, SumConcat
  <2>4. SumOver(f, b + 1 .. c) \in Nat
    <3>1. b + 1 \in Int /\ \A k \in b + 1 .. c : f[k] \in Nat
      BY <1>2, <1>7, <2>1, <2>2
    <3> QED
      BY <2>2, <3>1, SumInterval
  <2>5. SumOver(f, 1 .. b) = S(i) + f[i]
    <3>1. (i + 1) - 1 = b
      BY <2>1
    <3> QED
      BY <1>6, <3>1
  <2>6. S(i) \in Nat /\ f[i] \in Nat
    BY <1>2, <1>4
  <2>7. SumOver(f, 1 .. c) = S(j)
    BY <2>1
  <2> HIDE DEF S
  <2> QED
    BY <2>3, <2>4, <2>5, <2>6, <2>7
<1> HIDE DEF S
<1>8. \A i \in 1 .. m + 1 : Top(s, i) \in Nat /\ Top(s, i) >= 3
  BY <1>3, <1>4
<1>9. Top(s, 1) = 3
  BY <1>3, <1>5
<1>10. ASSUME NEW i \in 1 .. m PROVE Top(s, i + 1) = Top(s, i) + f[i]
  <2>1. i \in 1 .. m + 1
    BY <1>2
  <2>2. S(i) \in Nat /\ f[i] \in Nat /\ S(i + 1) = S(i) + f[i]
    BY <1>2, <1>4, <1>6, <2>1
  <2> QED
    BY <1>3, <2>2
<1>11. ASSUME NEW i \in 1 .. m, NEW j \in 1 .. m, i < j
       PROVE  Top(s, i) + f[i] <= Top(s, j)
  <2>1. i \in 1 .. m + 1 /\ j \in 1 .. m + 1
    BY <1>2
  <2>2. S(i) \in Nat /\ f[i] \in Nat /\ S(j) \in Nat /\ S(i) + f[i] <= S(j)
    BY <1>2, <1>4, <1>7, <1>11, <2>1
  <2> QED
    BY <1>3, <2>2
<1> QED
  BY <1>1, <1>8, <1>9, <1>10, <1>11

(* The skylines of a summary with n devices.                                    *)
SkyFirst(n, i) == [k \in 0 .. 4 + 3 * n |-> IF k < i THEN 3 ELSE 0]
SkyWide(n) == [k \in 0 .. 4 + 3 * n |-> IF k < 4 THEN 3 ELSE IF k < 4 + 3 * n THEN 1 ELSE 0]
SkySecond(n, i) ==
  [k \in 0 .. 4 + 3 * n |->
    IF k < 4 THEN 3 ELSE IF k < 4 + 3 * i \/ k = 4 + 3 * n THEN 2 ELSE 1]
SkyThird(n, i) == [k \in 0 .. 4 + 3 * n |-> IF k < 4 + i THEN 3 ELSE 2]
SkyRow(n, y) == [k \in 0 .. 4 + 3 * n |-> y]
SkyVolume(n, top, y, i) ==
  [k \in 0 .. 4 + 3 * n |-> IF k = 0 THEN top ELSE IF k <= i THEN y + 1 ELSE y]

-----------------------------------------------------------------------------
(* Every cell of a summary is what it has to be.                                *)
AsHeading(s, x, y, w, h) ==
  /\ Shaped(s) /\ x \in Nat /\ y \in Nat /\ w \in Nat /\ h \in Nat /\ y + h <= 3
  /\ \A d \in 1 .. s.devices :
       y <= 1 /\ 1 < y + h /\ x <= 4 + 3 * (d - 1) /\ 4 + 3 * (d - 1) < x + w
         => w = 3 /\ x = 4 + 3 * (d - 1)

(* A heading is in none of the rows below and spans what it is to.            *)
LEMMA ProperHeading ==
  ASSUME NEW s, NEW x, NEW y, NEW w, NEW h, AsHeading(s, x, y, w, h)
  PROVE  \A t \in Nat : Proper(s, CellOf(x, y, w, h, TRUE, t))
<1> USE DEF AsHeading
<1> SUFFICES ASSUME NEW t \in Nat PROVE Proper(s, CellOf(x, y, w, h, TRUE, t))
  OBVIOUS
<1>1. PICK c : c = CellOf(x, y, w, h, TRUE, t)
  OBVIOUS
<1>2. c.x = x /\ c.y = y /\ c.w = w /\ c.h = h /\ c.heading = TRUE
  BY <1>1 DEF CellOf
<1>3. ASSUME NEW a \in Nat, NEW b \in Nat, <<a, b>> \in PlacesOf(c)
      PROVE  /\ a > 0 /\ b >= 3 => c.h = 1
             /\ \A d \in 1 .. s.devices :
                  a = 4 + 3 * (d - 1) /\ b = 1 => c.heading = TRUE /\ c.w = 3 /\ c.x = a
             /\ \A i \in DOMAIN s.hosts :
                  s.hosts[i] > 0 /\ a = 0 /\ b = Top(s, i) => c.y = b /\ c.h = s.hosts[i]
  <2>1. a \in x .. x + w - 1 /\ b \in y .. y + h - 1
    BY <1>2, <1>3, InPlaces
  <2>2. b < 3
    BY <2>1
  <2>3. ASSUME NEW d \in 1 .. s.devices, a = 4 + 3 * (d - 1), b = 1
        PROVE  c.heading = TRUE /\ c.w = 3 /\ c.x = a
    <3>1. y <= 1 /\ 1 < y + h /\ x <= a /\ a < x + w
      BY <2>1, <2>3
    <3>2. w = 3 /\ x = 4 + 3 * (d - 1)
      BY <2>3, <3>1
    <3> QED
      BY <1>2, <2>3, <3>2
  <2>4. ASSUME NEW i \in DOMAIN s.hosts, b = Top(s, i) PROVE FALSE
    <3>1. i \in 1 .. Len(s.hosts) + 1
      BY DEF Shaped
    <3>2. Top(s, i) \in Nat /\ Top(s, i) >= 3
      BY <3>1, TopsGrow
    <3> QED
      BY <2>2, <2>4, <3>2
  <2>5. a > 0 /\ b >= 3 => c.h = 1
    BY <2>2
  <2>6. \A d \in 1 .. s.devices :
          a = 4 + 3 * (d - 1) /\ b = 1 => c.heading = TRUE /\ c.w = 3 /\ c.x = a
    BY <2>3
  <2>7. \A i \in DOMAIN s.hosts :
          s.hosts[i] > 0 /\ a = 0 /\ b = Top(s, i) => c.y = b /\ c.h = s.hosts[i]
    BY <2>4, Zenon
  <2> QED
    BY <2>5, <2>6, <2>7, Zenon
<1>4. Proper(s, c)
  BY <1>3 DEF Proper
<1> QED
  BY <1>1, <1>4

(* A cell beside the hosts is what it has to be.                              *)
LEMMA ProperBody ==
  ASSUME NEW s, Shaped(s), NEW x \in Nat, NEW y \in Nat, x >= 1, y >= 3
  PROVE  \A t \in Nat : Proper(s, CellOf(x, y, 1, 1, FALSE, t))
<1> SUFFICES ASSUME NEW t \in Nat PROVE Proper(s, CellOf(x, y, 1, 1, FALSE, t))
  OBVIOUS
<1>1. PICK c : c = CellOf(x, y, 1, 1, FALSE, t)
  OBVIOUS
<1>2. c.x = x /\ c.y = y /\ c.w = 1 /\ c.h = 1
  BY <1>1 DEF CellOf
<1>3. ASSUME NEW a \in Nat, NEW b \in Nat, <<a, b>> \in PlacesOf(c)
      PROVE  a = x /\ b = y
  BY <1>2, <1>3, InPlaces
<1>4. Proper(s, c)
  BY <1>2, <1>3 DEF Proper
<1> QED
  BY <1>1, <1>4

(* And so is that of a host.                                                  *)
LEMMA ProperHost ==
  ASSUME NEW s, Shaped(s), NEW i \in 1 .. Len(s.hosts)
  PROVE  \A t \in Nat : Proper(s, CellOf(0, Top(s, i), 1, s.hosts[i], FALSE, t))
<1>1. PICK y, h : y = Top(s, i) /\ h = s.hosts[i]
  OBVIOUS
<1> SUFFICES ASSUME NEW t \in Nat PROVE Proper(s, CellOf(0, y, 1, h, FALSE, t))
  BY <1>1
<1>2. PICK c : c = CellOf(0, y, 1, h, FALSE, t)
  OBVIOUS
<1>3. c.x = 0 /\ c.y = y /\ c.w = 1 /\ c.h = h
  BY <1>2 DEF CellOf
<1>4. \A j \in 1 .. Len(s.hosts) : Top(s, j) \in Nat /\ Top(s, j) >= 3 /\ s.hosts[j] \in Nat
  <2>1. \A j \in 1 .. Len(s.hosts) : j \in 1 .. Len(s.hosts) + 1 /\ s.hosts[j] \in Nat
    BY DEF Shaped
  <2> QED
    BY <2>1, TopsGrow
<1>5. DOMAIN s.hosts = 1 .. Len(s.hosts) /\ Len(s.hosts) \in Nat
  BY DEF Shaped
<1>6. ASSUME NEW a \in Nat, NEW b \in Nat, <<a, b>> \in PlacesOf(c)
      PROVE  /\ a > 0 /\ b >= 3 => c.h = 1
             /\ \A d \in 1 .. s.devices :
                  a = 4 + 3 * (d - 1) /\ b = 1 => c.heading = TRUE /\ c.w = 3 /\ c.x = a
             /\ \A j \in DOMAIN s.hosts :
                  s.hosts[j] > 0 /\ a = 0 /\ b = Top(s, j) => c.y = b /\ c.h = s.hosts[j]
  <2>1. a = 0 /\ b \in y .. y + h - 1
    BY <1>3, <1>6, InPlaces
  <2>2. y \in Nat /\ y >= 3 /\ h \in Nat
    BY <1>1, <1>4
  <2>3. b >= 3
    BY <2>1, <2>2
  <2>4. ASSUME NEW j \in DOMAIN s.hosts, s.hosts[j] > 0, b = Top(s, j)
        PROVE  c.y = b /\ c.h = s.hosts[j]
    <3>1. j \in 1 .. Len(s.hosts) /\ Top(s, j) \in Nat /\ s.hosts[j] \in Nat
      BY <1>4, <1>5
    <3>2. ASSUME j < i PROVE FALSE
      <4>1. Top(s, j) + s.hosts[j] <= Top(s, i)
        BY <3>1, <3>2, TopsGrow
      <4> QED
        BY <1>1, <2>1, <2>2, <2>4, <3>1, <4>1
    <3>3. ASSUME i < j PROVE FALSE
      <4>1. Top(s, i) + s.hosts[i] <= Top(s, j)
        BY <3>1, <3>3, TopsGrow
      <4> QED
        BY <1>1, <2>1, <2>2, <2>4, <3>1, <4>1
    <3>4. i = j
      BY <1>5, <3>1, <3>2, <3>3
    <3> QED
      BY <1>1, <1>3, <2>4, <3>4
  <2> QED
    BY <2>1, <2>3, <2>4
<1>7. Proper(s, c)
  BY <1>6 DEF Proper
<1> QED
  BY <1>2, <1>7

-----------------------------------------------------------------------------
(* The rows of headings, cell by cell.                                           *)
Stage1(s, i) ==
  At(s, InFirst(s, 4 - i), i, 0, i, IF i = 0 THEN 0 ELSE 3, SkyFirst(s.devices, i))
Stage2(s) ==
  At(s, <<Heading(1, 2)>> \o (<<RowEnd>> \o InSecond(s, s.devices)),
     4 + 3 * s.devices, 0, 4 + 3 * s.devices, 3, SkyWide(s.devices))
Stage3(s) ==
  At(s, <<RowEnd>> \o InSecond(s, s.devices), Wide(s), 0, Wide(s), 3, SkySecond(s.devices, 0))
Stage4(s, i) ==
  At(s, InSecond(s, s.devices - i), IF i = s.devices THEN Wide(s) ELSE 4 + 3 * i, 1,
     Wide(s), 3, SkySecond(s.devices, i))
Stage5(s, i) ==
  At(s, InThird(s, 3 * s.devices - i), 4 + i, 2, Wide(s), 3, SkyThird(s.devices, i))
Stage6(s) ==
  At(s, <<RowEnd>> \o FromHost(s, 1), Wide(s), 2, Wide(s), 3, SkyThird(s.devices, 3 * s.devices + 1))
Stage7(s, i) ==
  At(s, FromHost(s, i), 0, Top(s, i), Wide(s), Top(s, i), SkyRow(s.devices, Top(s, i)))
Stage8(s, i, v, k) ==
  At(s, InVolume(s, i, s.hosts[i] - v, 4 + 3 * s.devices - k), 1 + k, Top(s, i) + v - 1,
     Wide(s), Top(s, i + 1), SkyVolume(s.devices, Top(s, i + 1), Top(s, i) + v - 1, k))

(* A cell that fits.                                                           *)
Fitting(s, w, h, b, Q, x, y, ex, ey, D, E, c) ==
  /\ w \in Nat /\ h \in Nat /\ b \in BOOLEAN /\ Q \in Seq(Items) /\ x \in Nat /\ y \in Nat
  /\ At(s, <<<<w, h, b>>>> \o Q, x, y, ex, ey, D)
  /\ x + w <= Wide(s) /\ \A k \in x .. x + w - 1 : D[k] = y
  /\ \A t \in Nat : Proper(s, CellOf(x, y, w, h, b, t))
  /\ E = Raise(D, x, w, h) /\ FreeFrom(E, Wide(s), x, y, c)

(* A step with a cell next adds it.                                           *)
LEMMA CellFits ==
  ASSUME NEW s, NEW w, NEW h, NEW b, NEW Q, NEW x, NEW y, NEW ex, NEW ey, NEW D, NEW E, NEW c,
         Fitting(s, w, h, b, Q, x, y, ex, ey, D, E, c), TableNext
  PROVE  At(s, Q, c, y, Larger(ex, x + w), Larger(ey, y + h), E)'
<1>1. /\ w \in Nat /\ h \in Nat /\ b \in BOOLEAN /\ Q \in Seq(Items) /\ x \in Nat /\ y \in Nat
      /\ At(s, <<<<w, h, b>>>> \o Q, x, y, ex, ey, D)
      /\ x + w <= Wide(s) /\ \A k \in x .. x + w - 1 : D[k] = y
      /\ \A t \in Nat : Proper(s, CellOf(x, y, w, h, b, t))
      /\ E = Raise(D, x, w, h) /\ FreeFrom(E, Wide(s), x, y, c)
  BY Zenon DEF Fitting
<1> QED
  BY <1>1, CellStep, Zenon

(* The headings of three rows come one after another.                         *)
LEMMA FromStage1 ==
  ASSUME NEW s, Shaped(s), NEW i \in 0 .. 3, Stage1(s, i), TableNext
  PROVE  Stage1(s, i + 1)'
<1>1. PICK n, Q, D, E, e :
        /\ n = s.devices /\ Q = InFirst(s, 3 - i) /\ D = SkyFirst(n, i) /\ E = SkyFirst(n, i + 1)
        /\ e = IF i = 0 THEN 0 ELSE 3
  OBVIOUS
<1>2. n \in Nat /\ 3 - i \in Nat /\ (3 - i) + 1 = 4 - i /\ 4 - (i + 1) = 3 - i
  BY <1>1 DEF Shaped
<1>3. Q \in Seq(Items) /\ InFirst(s, 4 - i) = <<<<1, 3, TRUE>>>> \o Q
  BY <1>1, <1>2, RestTypes, FirstRow DEF Heading
<1>4. At(s, <<<<1, 3, TRUE>>>> \o Q, i, 0, i, e, D)
  BY <1>1, <1>3, Zenon DEF Stage1
<1>5. Wide(s) = 5 + 3 * n
  BY <1>1 DEF Wide
<1>6. \A k \in i .. i + 1 - 1 : D[k] = 0
  BY <1>1, <1>2 DEF SkyFirst
<1>7. \A t \in Nat : Proper(s, CellOf(i, 0, 1, 3, TRUE, t))
  <2>1. AsHeading(s, i, 0, 1, 3)
    BY <1>1, <1>2 DEF AsHeading
  <2> QED
    BY <2>1, ProperHeading
<1>8. E = Raise(D, i, 1, 3)
  BY <1>1, <1>2 DEF SkyFirst, Raise
<1>9. FreeFrom(E, Wide(s), i, 0, i + 1)
  BY <1>1, <1>2, <1>5 DEF SkyFirst, FreeFrom
<1>10. At(s, Q, i + 1, 0, Larger(i, i + 1), Larger(e, 0 + 3), E)'
  <2>1. 1 \in Nat /\ 3 \in Nat /\ TRUE \in BOOLEAN /\ i \in Nat /\ 0 \in Nat /\ i + 1 <= Wide(s)
    BY <1>2, <1>5
  <2>2. Fitting(s, 1, 3, TRUE, Q, i, 0, i, e, D, E, i + 1)
    BY <1>3, <1>4, <1>6, <1>7, <1>8, <1>9, <2>1, Zenon DEF Fitting
  <2> QED
    BY <2>2, CellFits
<1>11. Larger(i, i + 1) = i + 1 /\ Larger(e, 0 + 3) = 3 /\ (IF i + 1 = 0 THEN 0 ELSE 3) = 3
  BY <1>1 DEF Larger
<1>12. InFirst(s, 4 - (i + 1)) = Q
  BY <1>1, <1>2
<1>13. Stage1(s, i + 1)' <=> At(s, Q, i + 1, 0, i + 1, 3, E)'
  BY <1>1, <1>11, <1>12 DEF Stage1
<1> QED
  BY <1>10, <1>11, <1>13

(* Then the heading over the devices.                                         *)
LEMMA FromStage1End ==
  ASSUME NEW s, Shaped(s), Stage1(s, 4), TableNext
  PROVE  Stage2(s)'
<1>1. PICK n, m, Q, D, E : 
        /\ n = s.devices /\ m = 3 * n /\ Q = <<Heading(1, 2)>> \o (<<RowEnd>> \o InSecond(s, n))
        /\ D = SkyFirst(n, 4) /\ E = SkyWide(n)
  OBVIOUS
<1>2. n \in Nat /\ m \in Nat /\ 4 - 4 = 0
  BY <1>1 DEF Shaped
<1>3. Q \in Seq(Items) /\ InFirst(s, 0) = <<<<m, 1, TRUE>>>> \o Q
  <2>1. InFirst(s, 0) = <<Heading(m, 1)>> \o Q
    BY <1>1, FirstRow
  <2> QED
    BY <1>1, <1>2, <2>1, RestTypes DEF Heading
<1>4. At(s, <<<<m, 1, TRUE>>>> \o Q, 4, 0, 4, 3, D)
  <2>1. (IF 4 = 0 THEN 0 ELSE 3) = 3
    OBVIOUS
  <2> QED
    BY <1>1, <1>2, <1>3, <2>1 DEF Stage1
<1>5. Wide(s) = 5 + 3 * n
  BY <1>1 DEF Wide
<1>6. \A k \in 4 .. 4 + m - 1 : D[k] = 0
  BY <1>1, <1>2 DEF SkyFirst
<1>7. \A t \in Nat : Proper(s, CellOf(4, 0, m, 1, TRUE, t))
  <2>1. AsHeading(s, 4, 0, m, 1)
    BY <1>1, <1>2 DEF AsHeading
  <2> QED
    BY <2>1, ProperHeading
<1>8. E = Raise(D, 4, m, 1)
  BY <1>1, <1>2 DEF SkyFirst, SkyWide, Raise
<1>9. FreeFrom(E, Wide(s), 4, 0, 4 + m)
  <2>1. Wide(s) = 5 + m /\ 4 + 3 * n = 4 + m
    BY <1>1, <1>5
  <2>2. \A k \in 0 .. 4 + m : E[k] = IF k < 4 THEN 3 ELSE IF k < 4 + m THEN 1 ELSE 0
    BY <1>1, <2>1 DEF SkyWide
  <2>3. E[4 + m] = 0
    <3>1. 4 + m \in 0 .. 4 + m /\ ~ (4 + m < 4) /\ ~ (4 + m < 4 + m)
      BY <1>2
    <3> QED
      BY <2>2, <3>1
  <2>4. ASSUME NEW k \in 4 .. 4 + m - 1 PROVE 0 < E[k]
    <3>1. k \in 0 .. 4 + m /\ ~ (k < 4) /\ k < 4 + m
      BY <1>2
    <3> QED
      BY <2>2, <3>1
  <2>5. 4 + m \in 4 .. 5 + m
    BY <1>2
  <2> QED
    <3>1. ~ (0 < E[4 + m])
      BY <2>3
    <3>2. 4 + m \in 4 .. Wide(s)
      BY <2>1, <2>5
    <3>3. PICK c, W : c = 4 + m /\ W = Wide(s)
      OBVIOUS
    <3>4. c \in 4 .. W /\ (\A k \in 4 .. c - 1 : 0 < E[k]) /\ ~ (0 < E[c])
      <4>1. ASSUME NEW k \in 4 .. c - 1 PROVE 0 < E[k]
        <5>1. k \in 4 .. 4 + m - 1
          BY <1>2, <3>3
        <5> QED
          BY <2>4, <5>1
      <4>2. c \in 4 .. W /\ ~ (0 < E[c])
        BY <3>1, <3>2, <3>3
      <4> QED
        BY <4>1, <4>2
    <3>5. FreeFrom(E, W, 4, 0, c)
      BY <3>4 DEF FreeFrom
    <3> QED
      BY <3>3, <3>5
<1>10. At(s, Q, 4 + m, 0, Larger(4, 4 + m), Larger(3, 0 + 1), E)'
  <2>1. 1 \in Nat /\ TRUE \in BOOLEAN /\ 4 \in Nat /\ 0 \in Nat /\ 4 + m <= Wide(s)
    BY <1>1, <1>2, <1>5
  <2>2. Fitting(s, m, 1, TRUE, Q, 4, 0, 4, 3, D, E, 4 + m)
    BY <1>2, <1>3, <1>4, <1>6, <1>7, <1>8, <1>9, <2>1, Zenon DEF Fitting
  <2> QED
    BY <2>2, CellFits
<1>11. Larger(4, 4 + m) = 4 + m /\ Larger(3, 0 + 1) = 3
  BY <1>2 DEF Larger
<1>12. Stage2(s)' <=> At(s, Q, 4 + m, 0, 4 + m, 3, E)'
  BY <1>1 DEF Stage2
<1> QED
  BY <1>10, <1>11, <1>12

(* Then the one of two rows.                                                  *)
LEMMA FromStage2 ==
  ASSUME NEW s, Shaped(s), Stage2(s), TableNext
  PROVE  Stage3(s)'
<1>1. PICK n, x, Q, D, E : 
        /\ n = s.devices /\ x = 4 + 3 * n /\ Q = <<RowEnd>> \o InSecond(s, n)
        /\ D = SkyWide(n) /\ E = SkySecond(n, 0)
  OBVIOUS
<1>2. n \in Nat /\ x \in Nat
  BY <1>1 DEF Shaped
<1>3. Q \in Seq(Items) /\ <<Heading(1, 2)>> = <<<<1, 2, TRUE>>>>
  BY <1>1, <1>2, RestTypes DEF Heading
<1>4. At(s, <<<<1, 2, TRUE>>>> \o Q, x, 0, x, 3, D)
  BY <1>1, <1>3, Zenon DEF Stage2
<1>5. Wide(s) = x + 1
  BY <1>1, <1>2 DEF Wide
<1>6. \A k \in x .. x + 1 - 1 : D[k] = 0
  BY <1>1, <1>2 DEF SkyWide
<1>7. \A t \in Nat : Proper(s, CellOf(x, 0, 1, 2, TRUE, t))
  <2>1. AsHeading(s, x, 0, 1, 2)
    BY <1>1, <1>2 DEF AsHeading
  <2> QED
    BY <2>1, ProperHeading
<1>8. E = Raise(D, x, 1, 2)
  BY <1>1, <1>2 DEF SkySecond, SkyWide, Raise
<1>9. FreeFrom(E, Wide(s), x, 0, x + 1)
  BY <1>1, <1>2, <1>5 DEF SkySecond, FreeFrom
<1>10. At(s, Q, x + 1, 0, Larger(x, x + 1), Larger(3, 0 + 2), E)'
  <2>1. 1 \in Nat /\ 2 \in Nat /\ TRUE \in BOOLEAN /\ 0 \in Nat /\ x + 1 <= Wide(s)
    BY <1>1, <1>2, <1>5
  <2>2. Fitting(s, 1, 2, TRUE, Q, x, 0, x, 3, D, E, x + 1)
    BY <1>2, <1>3, <1>4, <1>6, <1>7, <1>8, <1>9, <2>1, Zenon DEF Fitting
  <2> QED
    BY <2>2, CellFits
<1>11. Larger(x, x + 1) = x + 1 /\ Larger(3, 0 + 2) = 3
  BY <1>2 DEF Larger
<1>12. Stage3(s)' <=> At(s, Q, x + 1, 0, x + 1, 3, E)'
  BY <1>1, <1>5 DEF Stage3
<1> QED
  BY <1>10, <1>11, <1>12

(* A row that ends.                                                            *)
Ending(s, Q, x, y, ex, ey, D, c) ==
  /\ Q \in Seq(Items) /\ x \in Nat /\ y \in Nat
  /\ At(s, <<RowEnd>> \o Q, x, y, ex, ey, D)
  /\ FreeFrom(D, Wide(s), 0, y + 1, c)

(* A step with the end of a row next ends the row.                            *)
LEMMA RowEnds ==
  ASSUME NEW s, NEW Q, NEW x, NEW y, NEW ex, NEW ey, NEW D, NEW c,
         Ending(s, Q, x, y, ex, ey, D, c), TableNext
  PROVE  At(s, Q, c, y + 1, ex, ey, D)'
<1>1. /\ Q \in Seq(Items) /\ x \in Nat /\ y \in Nat
      /\ At(s, <<RowEnd>> \o Q, x, y, ex, ey, D)
      /\ FreeFrom(D, Wide(s), 0, y + 1, c)
  BY Zenon DEF Ending
<1> QED
  BY <1>1, RowStep, Zenon

(* Then the row ends, and the devices come below.                             *)
LEMMA FromStage3 ==
  ASSUME NEW s, Shaped(s), Stage3(s), TableNext
  PROVE  Stage4(s, 0)'
<1>1. PICK n, x, c, Q, D : 
        /\ n = s.devices /\ x = Wide(s) /\ Q = InSecond(s, n) /\ D = SkySecond(n, 0)
        /\ c = IF 0 = n THEN x ELSE 4
  OBVIOUS
<1>2. n \in Nat /\ x = 5 + 3 * n /\ x \in Nat /\ n - 0 = n /\ 4 + 3 * 0 = 4
  <2>1. n \in Nat /\ x = 5 + 3 * n
    BY <1>1 DEF Shaped, Wide
  <2>2. 3 * 0 = 0
    OBVIOUS
  <2> QED
    BY <2>1, <2>2
<1>3. Q \in Seq(Items)
  BY <1>1, <1>2, RestTypes
<1>4. At(s, <<RowEnd>> \o Q, x, 0, x, 3, D)
  BY <1>1, Zenon DEF Stage3
<1>5. FreeFrom(D, Wide(s), 0, 0 + 1, c)
  <2>1. \A k \in 0 .. 4 + 3 * n : D[k] = IF k < 4 THEN 3 ELSE IF k = 4 + 3 * n THEN 2 ELSE 1
    BY <1>1, <1>2 DEF SkySecond
  <2>2. CASE n = 0
    <3>1. c = x /\ x = 5
      BY <1>1, <1>2, <2>2
    <3>2. \A k \in 0 .. 4 : 0 + 1 < D[k]
      BY <2>1, <2>2
    <3> QED
      BY <1>1, <3>1, <3>2 DEF FreeFrom
  <2>3. CASE n # 0
    <3>1. c = 4 /\ 4 < x /\ D[4] = 1
      BY <1>1, <1>2, <2>1, <2>3
    <3>2. \A k \in 0 .. 3 : 0 + 1 < D[k]
      BY <1>2, <2>1
    <3> QED
      BY <1>1, <1>2, <3>1, <3>2 DEF FreeFrom
  <2> QED
    BY <2>2, <2>3
<1>6. At(s, Q, c, 0 + 1, x, 3, D)'
  <2>1. Ending(s, Q, x, 0, x, 3, D, c)
    BY <1>2, <1>3, <1>4, <1>5 DEF Ending
  <2> QED
    BY <2>1, RowEnds
<1>7. Stage4(s, 0)' <=> At(s, Q, c, 0 + 1, x, 3, D)'
  <2>1. c = IF 0 = n THEN x ELSE 4 + 3 * 0
    BY <1>1, <1>2
  <2>2. n - 0 = s.devices /\ 0 + 1 = 1
    BY <1>1, <1>2
  <2> QED
    BY <1>1, <2>1, <2>2, Zenon DEF Stage4
<1> QED
  BY <1>6, <1>7

(* The headings of the devices come one after another.                        *)
LEMMA FromStage4 ==
  ASSUME NEW s, Shaped(s), NEW i \in Nat, i < s.devices, Stage4(s, i), TableNext
  PROVE  Stage4(s, i + 1)'
<1>1. PICK n, x, c, W, Q, D, E :
        /\ n = s.devices /\ x = 4 + 3 * i /\ W = Wide(s) /\ Q = InSecond(s, n - (i + 1))
        /\ D = SkySecond(n, i) /\ E = SkySecond(n, i + 1)
        /\ c = IF i + 1 = n THEN W ELSE 4 + 3 * (i + 1)
  OBVIOUS
<1>2. /\ n \in Nat /\ x \in Nat /\ n - (i + 1) \in Nat /\ (n - (i + 1)) + 1 = n - i
      /\ i < n /\ W = 5 + 3 * n /\ W \in Nat
  <2>1. n \in Nat /\ i < n
    BY <1>1 DEF Shaped
  <2>2. W = 5 + 3 * n
    BY <1>1, Zenon DEF Wide
  <2>3. x \in Nat
    BY <1>1
  <2> QED
    BY <2>1, <2>2, <2>3
<1>3. Q \in Seq(Items) /\ InSecond(s, n - i) = <<<<3, 1, TRUE>>>> \o Q
  BY <1>1, <1>2, RestTypes, SecondRow DEF Heading
<1>4. At(s, <<<<3, 1, TRUE>>>> \o Q, x, 1, W, 3, D)
  <2>1. i # s.devices
    BY <1>1, <1>2
  <2>2. (IF i = s.devices THEN W ELSE x) = x
    BY <2>1
  <2>3. At(s, InSecond(s, n - i), IF i = s.devices THEN W ELSE x, 1, W, 3, D)
    BY <1>1, Zenon DEF Stage4
  <2> QED
    BY <1>3, <2>2, <2>3, Zenon
<1>6. \A k \in x .. x + 3 - 1 : D[k] = 1
  BY <1>1, <1>2 DEF SkySecond
<1>7. \A t \in Nat : Proper(s, CellOf(x, 1, 3, 1, TRUE, t))
  <2>1. AsHeading(s, x, 1, 3, 1)
    BY <1>1, <1>2 DEF AsHeading
  <2> QED
    BY <2>1, ProperHeading
<1>8. E = Raise(D, x, 3, 1)
  <2>1. /\ D = [k \in 0 .. 4 + 3 * n |->
                 IF k < 4 THEN 3 ELSE IF k < 4 + 3 * i \/ k = 4 + 3 * n THEN 2 ELSE 1]
        /\ E = [k \in 0 .. 4 + 3 * n |->
                 IF k < 4 THEN 3 ELSE IF k < 4 + 3 * (i + 1) \/ k = 4 + 3 * n THEN 2 ELSE 1]
    BY <1>1, Zenon DEF SkySecond
  <2>2. x = 4 + 3 * i /\ 4 + 3 * (i + 1) = x + 3 /\ x + 3 <= 4 + 3 * n
    BY <1>1, <1>2
  <2>3. PICK m : m = 4 + 3 * n
    OBVIOUS
  <2>4. /\ D = [k \in 0 .. m |-> IF k < 4 THEN 3 ELSE IF k < x \/ k = m THEN 2 ELSE 1]
        /\ E = [k \in 0 .. m |-> IF k < 4 THEN 3 ELSE IF k < x + 3 \/ k = m THEN 2 ELSE 1]
        /\ x + 3 <= m /\ m \in Nat /\ x >= 4
    BY <1>2, <2>1, <2>2, <2>3
  <2>5. Raise(D, x, 3, 1) = [k \in 0 .. m |-> IF x <= k /\ k < x + 3 THEN D[k] + 1 ELSE D[k]]
    BY <2>4 DEF Raise
  <2>6. ASSUME NEW k \in 0 .. m
        PROVE  (IF x <= k /\ k < x + 3 THEN D[k] + 1 ELSE D[k])
                 = IF k < 4 THEN 3 ELSE IF k < x + 3 \/ k = m THEN 2 ELSE 1
    <3>1. D[k] = IF k < 4 THEN 3 ELSE IF k < x \/ k = m THEN 2 ELSE 1
      BY <2>4
    <3> QED
      BY <1>2, <2>4, <3>1
  <2> QED
    BY <2>4, <2>5, <2>6
<1>9. FreeFrom(E, Wide(s), x, 1, c)
  <2>1. \A k \in 0 .. 4 + 3 * n :
          E[k] = IF k < 4 THEN 3 ELSE IF k < 4 + 3 * (i + 1) \/ k = 4 + 3 * n THEN 2 ELSE 1
    BY <1>1, <1>2 DEF SkySecond
  <2>2. CASE i + 1 = n
    <3>1. c = W /\ 4 + 3 * (i + 1) = 4 + 3 * n
      BY <1>1, <2>2
    <3>2. \A k \in x .. W - 1 : 1 < E[k]
      BY <1>1, <1>2, <2>1, <3>1
    <3> QED
      BY <1>1, <1>2, <3>1, <3>2 DEF FreeFrom
  <2>3. CASE i + 1 # n
    <3>1. c = x + 3 /\ c < 4 + 3 * n /\ c = 4 + 3 * (i + 1)
      BY <1>1, <1>2, <2>3
    <3>2. \A k \in x .. c - 1 : 1 < E[k]
      BY <1>1, <1>2, <2>1, <3>1
    <3>3. E[c] = 1
      BY <1>1, <1>2, <2>1, <3>1
    <3> QED
      BY <1>1, <1>2, <3>1, <3>2, <3>3 DEF FreeFrom
  <2> QED
    BY <2>2, <2>3
<1>10. At(s, Q, c, 1, Larger(W, x + 3), Larger(3, 1 + 1), E)'
  <2>1. 1 \in Nat /\ 3 \in Nat /\ TRUE \in BOOLEAN /\ x + 3 <= Wide(s)
    BY <1>1, <1>2
  <2>2. Fitting(s, 3, 1, TRUE, Q, x, 1, W, 3, D, E, c)
    BY <1>2, <1>3, <1>4, <1>6, <1>7, <1>8, <1>9, <2>1, Zenon DEF Fitting
  <2> QED
    BY <2>2, CellFits
<1>11. Larger(W, x + 3) = W /\ Larger(3, 1 + 1) = 3
  BY <1>1, <1>2 DEF Larger
<1>12. Stage4(s, i + 1)' <=> At(s, Q, c, 1, W, 3, E)'
  BY <1>1 DEF Stage4
<1> QED
  BY <1>10, <1>11, <1>12

(* Then that row ends.                                                        *)
LEMMA FromStage4End ==
  ASSUME NEW s, Shaped(s), Stage4(s, s.devices), TableNext
  PROVE  Stage5(s, 0)'
<1>1. PICK n, x, Q, D :
        /\ n = s.devices /\ x = Wide(s) /\ Q = InThird(s, 3 * n) /\ D = SkySecond(n, n)
  OBVIOUS
<1>2. n \in Nat /\ x = 5 + 3 * n /\ x \in Nat /\ n - n = 0 /\ 3 * n - 0 = 3 * n /\ 3 * n \in Nat
  BY <1>1 DEF Shaped, Wide
<1>3. Q \in Seq(Items) /\ InSecond(s, 0) = <<RowEnd>> \o Q
  BY <1>1, <1>2, RestTypes, SecondRow
<1>4. At(s, <<RowEnd>> \o Q, x, 1, x, 3, D)
  BY <1>1, <1>2, <1>3 DEF Stage4
<1>5. FreeFrom(D, Wide(s), 0, 1 + 1, 4)
  BY <1>1, <1>2 DEF SkySecond, FreeFrom
<1>6. At(s, Q, 4, 1 + 1, x, 3, D)'
  <2>1. Ending(s, Q, x, 1, x, 3, D, 4)
    BY <1>2, <1>3, <1>4, <1>5 DEF Ending
  <2> QED
    BY <2>1, RowEnds
<1>7. D = SkyThird(n, 0)
  BY <1>1, <1>2 DEF SkySecond, SkyThird
<1>8. Stage5(s, 0)' <=> At(s, Q, 4, 1 + 1, x, 3, D)'
  BY <1>1, <1>2, <1>7 DEF Stage5
<1> QED
  BY <1>6, <1>8

(* The headings of the third row come one after another.                      *)
LEMMA FromStage5 ==
  ASSUME NEW s, Shaped(s), NEW i \in Nat, i < 3 * s.devices, Stage5(s, i), TableNext
  PROVE  Stage5(s, i + 1)'
<1>1. PICK n, m, x, W, Q, D, E :
        /\ n = s.devices /\ m = 3 * n /\ x = 4 + i /\ W = Wide(s) /\ Q = InThird(s, m - (i + 1))
        /\ D = SkyThird(n, i) /\ E = SkyThird(n, i + 1)
  OBVIOUS
<1>2. /\ n \in Nat /\ x \in Nat /\ m - (i + 1) \in Nat /\ (m - (i + 1)) + 1 = m - i
      /\ i < m /\ W = 5 + 3 * n /\ W \in Nat /\ 4 + (i + 1) = x + 1
  <2>1. n \in Nat /\ i < m /\ W = 5 + 3 * n
    BY <1>1 DEF Shaped, Wide
  <2>2. m \in Nat
    BY <1>1, <2>1
  <2> QED
    BY <1>1, <2>1, <2>2
<1>3. Q \in Seq(Items) /\ InThird(s, m - i) = <<<<1, 1, TRUE>>>> \o Q
  BY <1>1, <1>2, RestTypes, ThirdRow DEF Heading
<1>4. At(s, <<<<1, 1, TRUE>>>> \o Q, x, 2, W, 3, D)
  BY <1>1, <1>2, <1>3 DEF Stage5
<1>6. \A k \in x .. x + 1 - 1 : D[k] = 2
  <2>1. D = [k \in 0 .. 4 + 3 * n |-> IF k < 4 + i THEN 3 ELSE 2]
    BY <1>1, Zenon DEF SkyThird
  <2>2. x \in 0 .. 4 + 3 * n /\ ~ (x < 4 + i) /\ \A k \in x .. x + 1 - 1 : k = x
    BY <1>1, <1>2
  <2> QED
    BY <2>1, <2>2
<1>7. \A t \in Nat : Proper(s, CellOf(x, 2, 1, 1, TRUE, t))
  <2>1. AsHeading(s, x, 2, 1, 1)
    BY <1>1, <1>2 DEF AsHeading
  <2> QED
    BY <2>1, ProperHeading
<1>8. E = Raise(D, x, 1, 1)
  <2>1. PICK p : p = 4 + 3 * n
    OBVIOUS
  <2>2. /\ D = [k \in 0 .. p |-> IF k < 4 + i THEN 3 ELSE 2]
        /\ E = [k \in 0 .. p |-> IF k < 4 + (i + 1) THEN 3 ELSE 2]
    BY <1>1, <2>1, Zenon DEF SkyThird
  <2>3. Raise(D, x, 1, 1) = [k \in 0 .. p |-> IF x <= k /\ k < x + 1 THEN D[k] + 1 ELSE D[k]]
    BY <2>2 DEF Raise
  <2>4. x = 4 + i /\ 4 + (i + 1) = x + 1 /\ p \in Nat
    BY <1>1, <1>2, <2>1
  <2>5. ASSUME NEW k \in 0 .. p
        PROVE  (IF x <= k /\ k < x + 1 THEN D[k] + 1 ELSE D[k]) = IF k < 4 + (i + 1) THEN 3 ELSE 2
    <3>1. D[k] = IF k < x THEN 3 ELSE 2
      BY <2>2, <2>4
    <3> QED
      BY <1>2, <2>4, <3>1
  <2> QED
    BY <2>2, <2>3, <2>5
<1>9. FreeFrom(E, Wide(s), x, 2, x + 1)
  <2>1. \A k \in 0 .. 4 + 3 * n : E[k] = IF k < 4 + (i + 1) THEN 3 ELSE 2
    BY <1>1 DEF SkyThird
  <2>2. 4 + 3 * n = 4 + m /\ W = 5 + m
    BY <1>1, <1>2
  <2>3. 2 < E[x]
    BY <1>1, <1>2, <2>1, <2>2
  <2>4. ASSUME x + 1 < W PROVE ~ (2 < E[x + 1])
    <3>1. x + 1 \in 0 .. 4 + 3 * n /\ ~ (x + 1 < 4 + (i + 1))
      BY <1>1, <1>2, <2>2, <2>4
    <3>2. E[x + 1] = 2
      BY <2>1, <3>1
    <3> QED
      BY <3>2
  <2>5. \A k \in x .. x + 1 - 1 : k = x
    BY <1>2
  <2> QED
    BY <1>1, <1>2, <2>3, <2>4, <2>5 DEF FreeFrom
<1>10. At(s, Q, x + 1, 2, Larger(W, x + 1), Larger(3, 2 + 1), E)'
  <2>1. 1 \in Nat /\ 2 \in Nat /\ TRUE \in BOOLEAN /\ x + 1 <= Wide(s)
    BY <1>1, <1>2
  <2>2. Fitting(s, 1, 1, TRUE, Q, x, 2, W, 3, D, E, x + 1)
    BY <1>2, <1>3, <1>4, <1>6, <1>7, <1>8, <1>9, <2>1, Zenon DEF Fitting
  <2> QED
    BY <2>2, CellFits
<1>11. Larger(W, x + 1) = W /\ Larger(3, 2 + 1) = 3
  BY <1>1, <1>2 DEF Larger
<1>12. Stage5(s, i + 1)' <=> At(s, Q, x + 1, 2, W, 3, E)'
  BY <1>1, <1>2 DEF Stage5
<1> QED
  BY <1>10, <1>11, <1>12

(* Then its last.                                                             *)
LEMMA FromStage5End ==
  ASSUME NEW s, Shaped(s), Stage5(s, 3 * s.devices), TableNext
  PROVE  Stage6(s)'
<1>1. PICK n, m, x, W, Q, D, E :
        /\ n = s.devices /\ m = 3 * n /\ x = 4 + m /\ W = Wide(s) /\ Q = <<RowEnd>> \o FromHost(s, 1)
        /\ D = SkyThird(n, m) /\ E = SkyThird(n, m + 1)
  OBVIOUS
<1>2. n \in Nat /\ m \in Nat /\ x \in Nat /\ m - m = 0 /\ W = x + 1 /\ W \in Nat
  <2>1. n \in Nat
    BY <1>1 DEF Shaped
  <2>2. W = 5 + 3 * n
    BY <1>1, Zenon DEF Wide
  <2>3. m = 3 * n /\ x = 4 + m
    BY <1>1, Zenon
  <2>4. m \in Nat
    BY <2>1, <2>3
  <2> QED
    BY <2>1, <2>2, <2>3, <2>4
<1>3. Q \in Seq(Items) /\ InThird(s, 0) = <<<<1, 1, TRUE>>>> \o Q
  BY <1>1, <1>2, RestTypes, ThirdRow DEF Heading
<1>4. At(s, <<<<1, 1, TRUE>>>> \o Q, x, 2, W, 3, D)
  BY <1>1, <1>2, <1>3 DEF Stage5
<1>6. \A k \in x .. x + 1 - 1 : D[k] = 2
  <2>1. \A k \in 0 .. 4 + 3 * n : D[k] = IF k < 4 + m THEN 3 ELSE 2
    BY <1>1 DEF SkyThird
  <2>2. 4 + 3 * n = x /\ x = 4 + m
    BY <1>1, <1>2
  <2> QED
    BY <1>2, <2>1, <2>2
<1>7. \A t \in Nat : Proper(s, CellOf(x, 2, 1, 1, TRUE, t))
  <2>1. AsHeading(s, x, 2, 1, 1)
    BY <1>1, <1>2 DEF AsHeading
  <2> QED
    BY <2>1, ProperHeading
<1>8. E = Raise(D, x, 1, 1)
  <2>1. /\ D = [k \in 0 .. x |-> IF k < x THEN 3 ELSE 2]
        /\ E = [k \in 0 .. x |-> IF k < x + 1 THEN 3 ELSE 2]
    <3>1. 4 + 3 * n = x /\ x = 4 + m /\ 4 + (m + 1) = x + 1
      BY <1>1, <1>2
    <3> QED
      BY <1>1, <3>1 DEF SkyThird
  <2> QED
    BY <1>2, <2>1 DEF Raise
<1>9. FreeFrom(E, Wide(s), x, 2, W)
  <2>1. E = [k \in 0 .. x |-> IF k < x + 1 THEN 3 ELSE 2]
    <3>1. 4 + 3 * n = x /\ 4 + (m + 1) = x + 1
      BY <1>1, <1>2
    <3> QED
      BY <1>1, <3>1 DEF SkyThird
  <2> QED
    <3>0. x \in 0 .. x /\ x < x + 1
      BY <1>2
    <3>1. E[x] = 3
      BY <2>1, <3>0
    <3>3. \A k \in x .. W - 1 : k = x
      BY <1>2
    <3>4. W \in x .. W
      BY <1>2
    <3>2. W \in x .. W /\ Wide(s) = W
      BY <1>1, <3>4, Zenon
    <3> QED
      <4>1. \A k \in x .. W - 1 : 2 < E[k]
        BY <3>1, <3>3
      <4>2. ~ (W < Wide(s))
        BY <1>2, <3>2
      <4> QED
        BY <3>2, <4>1, <4>2 DEF FreeFrom
<1>10. At(s, Q, W, 2, Larger(W, x + 1), Larger(3, 2 + 1), E)'
  <2>1. 1 \in Nat /\ 2 \in Nat /\ TRUE \in BOOLEAN /\ x + 1 <= Wide(s)
    BY <1>1, <1>2
  <2>2. Fitting(s, 1, 1, TRUE, Q, x, 2, W, 3, D, E, W)
    BY <1>2, <1>3, <1>4, <1>6, <1>7, <1>8, <1>9, <2>1, Zenon DEF Fitting
  <2> QED
    BY <2>2, CellFits
<1>11. Larger(W, x + 1) = W /\ Larger(3, 2 + 1) = 3
  BY <1>1, <1>2 DEF Larger
<1>12. Stage6(s)' <=> At(s, Q, W, 2, W, 3, E)'
  BY <1>1 DEF Stage6
<1> QED
  BY <1>10, <1>11, <1>12

(* Then the row ends, and the first host comes.                               *)
LEMMA FromStage6 ==
  ASSUME NEW s, Shaped(s), Stage6(s), TableNext
  PROVE  Stage7(s, 1)'
<1>1. PICK n, x, Q, D :
        /\ n = s.devices /\ x = Wide(s) /\ Q = FromHost(s, 1) /\ D = SkyThird(n, 3 * n + 1)
  OBVIOUS
<1>2. n \in Nat /\ x = 5 + 3 * n /\ x \in Nat /\ 1 \in 1 .. Len(s.hosts) + 1
  BY <1>1 DEF Shaped, Wide
<1>3. Q \in Seq(Items)
  BY <1>1, <1>2, RestTypes
<1>4. At(s, <<RowEnd>> \o Q, x, 2, x, 3, D)
  BY <1>1, Zenon DEF Stage6
<1>5. FreeFrom(D, Wide(s), 0, 2 + 1, 0)
  BY <1>1, <1>2 DEF SkyThird, FreeFrom
<1>6. At(s, Q, 0, 2 + 1, x, 3, D)'
  <2>1. Ending(s, Q, x, 2, x, 3, D, 0)
    BY <1>2, <1>3, <1>4, <1>5 DEF Ending
  <2> QED
    BY <2>1, RowEnds
<1>7. D = SkyRow(n, 3)
  BY <1>1, <1>2 DEF SkyRow, SkyThird
<1>8. Top(s, 1) = 3
  BY TopsGrow
<1>9. Stage7(s, 1)' <=> At(s, Q, 0, 2 + 1, x, 3, D)'
  BY <1>1, <1>7, <1>8 DEF Stage7
<1> QED
  BY <1>6, <1>9

(* Where a host begins and where the next.                                    *)
LEMMA HostFacts ==
  ASSUME NEW s, Shaped(s), NEW i \in 1 .. Len(s.hosts)
  PROVE  /\ s.hosts[i] \in Nat /\ Top(s, i) \in Nat /\ Top(s, i) >= 3
         /\ Top(s, i + 1) = Top(s, i) + s.hosts[i]
         /\ i + 1 \in 1 .. Len(s.hosts) + 1 /\ s.devices \in Nat
         /\ FromHost(s, i + 1) \in Seq(Items)
<1>1. s.hosts[i] \in Nat /\ i \in 1 .. Len(s.hosts) + 1 /\ i + 1 \in 1 .. Len(s.hosts) + 1
      /\ s.devices \in Nat
  BY DEF Shaped
<1>2. Top(s, i) \in Nat /\ Top(s, i) >= 3
  BY <1>1, TopsGrow
<1>3. Top(s, i + 1) = Top(s, i) + s.hosts[i]
  BY TopsGrow
<1>4. FromHost(s, i + 1) \in Seq(Items)
  BY <1>1, RestTypes
<1> QED
  BY <1>1, <1>2, <1>3, <1>4

(* A host's cell is added, and its first volume comes, or the next host.           *)
LEMMA FromStage7 ==
  ASSUME NEW s, Shaped(s), NEW i \in 1 .. Len(s.hosts), Stage7(s, i), TableNext
  PROVE  IF s.hosts[i] = 0 THEN Stage7(s, i + 1)' ELSE Stage8(s, i, 1, 0)'
<1>1. PICK n, v, y, W, Q, D, E, c :
        /\ n = s.devices /\ v = s.hosts[i] /\ y = Top(s, i) /\ W = Wide(s)
        /\ Q = Times(v, VolumeRow(n)) \o FromHost(s, i + 1)
        /\ D = SkyRow(n, y) /\ E = Raise(D, 0, 1, v) /\ c = IF v = 0 THEN 0 ELSE 1
  OBVIOUS
<1>2. /\ n \in Nat /\ v \in Nat /\ y \in Nat /\ y >= 3 /\ W = 5 + 3 * n /\ W \in Nat
      /\ Top(s, i + 1) = y + v
  <2>1. /\ s.hosts[i] \in Nat /\ Top(s, i) \in Nat /\ Top(s, i) >= 3
        /\ Top(s, i + 1) = Top(s, i) + s.hosts[i] /\ s.devices \in Nat
    BY HostFacts
  <2>2. W = 5 + 3 * n
    BY <1>1, Zenon DEF Wide
  <2>3. n \in Nat /\ v \in Nat /\ y \in Nat /\ y >= 3 /\ Top(s, i + 1) = y + v
    BY <1>1, <2>1
  <2> QED
    BY <2>2, <2>3
<1>3. Q \in Seq(Items) /\ FromHost(s, i) = <<<<1, v, FALSE>>>> \o Q
  BY <1>1, HostIs
<1>4. At(s, <<<<1, v, FALSE>>>> \o Q, 0, y, W, y, D)
  BY <1>1, <1>3, Zenon DEF Stage7
<1>5. D = [k \in 0 .. 4 + 3 * n |-> y]
  BY <1>1 DEF SkyRow
<1>6. \A k \in 0 .. 0 + 1 - 1 : D[k] = y
  BY <1>2, <1>5
<1>7. \A t \in Nat : Proper(s, CellOf(0, y, 1, v, FALSE, t))
  BY <1>1, ProperHost
<1>8. E = [k \in 0 .. 4 + 3 * n |-> IF k = 0 THEN y + v ELSE y]
  <2>1. E = [k \in 0 .. 4 + 3 * n |-> IF 0 <= k /\ k < 0 + 1 THEN D[k] + v ELSE D[k]]
    BY <1>1, <1>5 DEF Raise
  <2>2. \A k \in 0 .. 4 + 3 * n : D[k] = y /\ (0 <= k /\ k < 0 + 1 <=> k = 0)
    BY <1>2, <1>5
  <2> QED
    BY <2>1, <2>2
<1>9. FreeFrom(E, W, 0, y, c)
  <2>1. CASE v = 0
    <3>1. c = 0 /\ E[0] = y
      BY <1>1, <1>2, <1>8, <2>1
    <3> QED
      BY <1>2, <3>1 DEF FreeFrom
  <2>2. CASE v # 0
    <3>1. c = 1 /\ E[0] = y + v /\ E[1] = y
      <4>1. 0 \in 0 .. 4 + 3 * n /\ 1 \in 0 .. 4 + 3 * n
        BY <1>2
      <4>2. E[0] = y + v /\ E[1] = y
        BY <1>8, <4>1
      <4> QED
        BY <1>1, <2>2, <4>2
    <3>2. \A k \in 0 .. 1 - 1 : k = 0
      OBVIOUS
    <3> QED
      BY <1>2, <2>2, <3>1, <3>2 DEF FreeFrom
  <2> QED
    BY <2>1, <2>2
<1>10. At(s, Q, c, y, Larger(W, 0 + 1), Larger(y, y + v), E)'
  <2>1. 1 \in Nat /\ 0 \in Nat /\ FALSE \in BOOLEAN /\ 0 + 1 <= Wide(s)
    BY <1>1, <1>2
  <2>2. Fitting(s, 1, v, FALSE, Q, 0, y, W, y, D, E, c)
    BY <1>1, <1>2, <1>3, <1>4, <1>6, <1>7, <1>9, <2>1, Zenon DEF Fitting
  <2> QED
    BY <2>2, CellFits
<1>11. Larger(W, 0 + 1) = W /\ Larger(y, y + v) = y + v
  BY <1>2 DEF Larger
<1>12. At(s, Q, c, y, W, y + v, E)'
  BY <1>10, <1>11
<1>13. CASE v = 0
  <2>1. Q = FromHost(s, i + 1)
    <3>1. PICK X, row, F : X = Items /\ row = VolumeRow(n) /\ F = FromHost(s, i + 1)
      OBVIOUS
    <3>2. row \in Seq(X) /\ F \in Seq(X)
      BY <1>2, <3>1, VolumeRowIn, HostFacts
    <3>3. Times(0, row) \o F = F
      BY <3>2, NoTimes
    <3> QED
      BY <1>1, <1>13, <3>1, <3>3
  <2>2. E = SkyRow(n, y)
    <3>1. \A k \in 0 .. 4 + 3 * n : (IF k = 0 THEN y + v ELSE y) = y
      BY <1>2, <1>13
    <3> QED
      BY <1>8, <3>1 DEF SkyRow
  <2>3. c = 0 /\ y + v = y /\ Top(s, i + 1) = y
    BY <1>1, <1>2, <1>13
  <2>4. At(s, FromHost(s, i + 1), 0, y, W, y, SkyRow(n, y))'
    BY <1>12, <2>1, <2>2, <2>3
  <2>5. Stage7(s, i + 1)' <=> At(s, FromHost(s, i + 1), 0, y, W, y, SkyRow(n, y))'
    BY <1>1, <2>3 DEF Stage7
  <2> QED
    BY <1>1, <1>13, <2>4, <2>5
<1>14. CASE v # 0
  <2>1. Q = InVolume(s, i, v - 1, 4 + 3 * n)
    <3>1. v - 1 \in Nat /\ (v - 1) + 1 = v
      BY <1>2, <1>14
    <3>2. Times((v - 1) + 1, VolumeRow(s.devices)) \o FromHost(s, i + 1)
            = InVolume(s, i, v - 1, 4 + 3 * s.devices)
      BY <3>1, VolumeIs
    <3> QED
      BY <1>1, <3>1, <3>2
  <2>2. E = SkyVolume(n, y + v, y, 0)
    <3>1. \A k \in 0 .. 4 + 3 * n :
            (IF k = 0 THEN y + v ELSE IF k <= 0 THEN y + 1 ELSE y)
              = (IF k = 0 THEN y + v ELSE y)
      OBVIOUS
    <3> QED
      BY <1>8, <3>1 DEF SkyVolume
  <2>3. c = 1 /\ Top(s, i) + 1 - 1 = y /\ 4 + 3 * s.devices - 0 = 4 + 3 * n /\ 1 + 0 = 1
    BY <1>1, <1>2, <1>14
  <2>4. At(s, InVolume(s, i, v - 1, 4 + 3 * n), 1, y, W, y + v, SkyVolume(n, y + v, y, 0))'
    BY <1>12, <2>1, <2>2, <2>3
  <2>5. Stage8(s, i, 1, 0)'
          <=> At(s, InVolume(s, i, v - 1, 4 + 3 * n), 1, y, W, y + v, SkyVolume(n, y + v, y, 0))'
    BY <1>1, <1>2, <2>3 DEF Stage8
  <2> QED
    BY <1>1, <1>14, <2>4, <2>5
<1> QED
  BY <1>13, <1>14

(* A cell of a volume's row.                                                    *)
LEMMA FromStage8 ==
  ASSUME NEW s, Shaped(s), NEW i \in 1 .. Len(s.hosts), NEW v \in 1 .. s.hosts[i],
         NEW k \in Nat, k < 4 + 3 * s.devices, Stage8(s, i, v, k), TableNext
  PROVE  Stage8(s, i, v, k + 1)'
<1>1. PICK n, m, l, b, r, top, x, y, W, Q, D, E :
        /\ n = s.devices /\ m = 4 + 3 * s.devices /\ l = s.hosts[i] - v
        /\ b = 4 + 3 * s.devices - (k + 1) /\ r = 4 + 3 * s.devices - k
        /\ top = Top(s, i + 1) /\ x = 1 + k /\ y = Top(s, i) + v - 1 /\ W = Wide(s)
        /\ Q = InVolume(s, i, l, b)
        /\ D = SkyVolume(n, top, y, k) /\ E = SkyVolume(n, top, y, k + 1)
  OBVIOUS
<1>2. s.hosts[i] \in Nat /\ Top(s, i) \in Nat /\ Top(s, i) >= 3 /\ top = Top(s, i) + s.hosts[i]
      /\ n \in Nat
  BY <1>1, HostFacts
<1>3. /\ m \in Nat /\ W = m + 1 /\ k < m /\ b \in Nat /\ b + 1 = r /\ l \in Nat /\ x \in Nat
      /\ y \in Nat /\ y >= 3 /\ top \in Nat /\ y < top /\ x >= 1
  <2>1. s.devices \in Nat /\ s.devices = n
    BY <1>1, <1>2
  <2>2. m \in Nat /\ k < m /\ b = m - (k + 1) /\ r = m - k
    <3>1. PICK d : d = s.devices
      OBVIOUS
    <3>2. d \in Nat /\ m = 4 + 3 * d /\ b = 4 + 3 * d - (k + 1) /\ r = 4 + 3 * d - k /\ k < 4 + 3 * d
      BY <1>1, <2>1, <3>1, Zenon
    <3> QED
      BY <3>2
  <2>3. W = m + 1
    <3>1. W = 5 + 3 * s.devices /\ m = 4 + 3 * s.devices
      BY <1>1, Zenon DEF Wide
    <3> QED
      BY <2>1, <3>1
  <2>4. b \in Nat /\ b + 1 = r
    BY <2>2
  <2>5. x \in Nat /\ x >= 1
    BY <1>1
  <2>6. PICK q, p : q = Top(s, i) /\ p = s.hosts[i]
    OBVIOUS
  <2>7. q \in Nat /\ q >= 3 /\ p \in Nat /\ top = q + p /\ y = q + v - 1 /\ l = p - v /\ v \in 1 .. p
    BY <1>1, <1>2, <2>6
  <2>8. y \in Nat /\ y >= 3 /\ top \in Nat /\ y < top /\ l \in Nat
    <3>1. v \in Nat /\ v >= 1 /\ v <= p
      BY <2>7
    <3>2. l \in Nat /\ top \in Nat
      BY <2>7, <3>1
    <3>3. y \in Nat /\ y >= 3 /\ y < top
      BY <2>7, <3>1
    <3> QED
      BY <3>2, <3>3
  <2> QED
    BY <2>2, <2>3, <2>4, <2>5, <2>8
<1>4. Q \in Seq(Items) /\ InVolume(s, i, l, r) = <<<<1, 1, FALSE>>>> \o Q
  <2>1. InVolume(s, i, l, b + 1) = <<Body>> \o InVolume(s, i, l, b) /\ InVolume(s, i, l, b) \in Seq(Items)
    BY <1>3, VolumeIs
  <2> QED
    BY <1>1, <1>3, <2>1 DEF Body
<1>5. At(s, <<<<1, 1, FALSE>>>> \o Q, x, y, W, top, D)
  <2>1. At(s, InVolume(s, i, l, r), x, y, W, top, D)
    BY <1>1, Zenon DEF Stage8
  <2> QED
    BY <1>4, <2>1, Zenon
<1>6. /\ D = [j \in 0 .. m |-> IF j = 0 THEN top ELSE IF j <= k THEN y + 1 ELSE y]
      /\ E = [j \in 0 .. m |-> IF j = 0 THEN top ELSE IF j <= k + 1 THEN y + 1 ELSE y]
  BY <1>1, Zenon DEF SkyVolume
<1>7. \A j \in x .. x + 1 - 1 : D[j] = y
  <2>1. \A j \in x .. x + 1 - 1 : j = x /\ j \in 0 .. m /\ j # 0 /\ ~ (j <= k)
    <3>1. x = 1 + k
      BY <1>1
    <3> QED
      BY <1>3, <3>1
  <2> QED
    BY <1>6, <2>1
<1>8. \A t \in Nat : Proper(s, CellOf(x, y, 1, 1, FALSE, t))
  BY <1>3, ProperBody
<1>9. E = Raise(D, x, 1, 1)
  <2>1. Raise(D, x, 1, 1) = [j \in 0 .. m |-> IF x <= j /\ j < x + 1 THEN D[j] + 1 ELSE D[j]]
    BY <1>6 DEF Raise
  <2>2. ASSUME NEW j \in 0 .. m
        PROVE  (IF x <= j /\ j < x + 1 THEN D[j] + 1 ELSE D[j])
                 = IF j = 0 THEN top ELSE IF j <= k + 1 THEN y + 1 ELSE y
    <3>1. CASE j = x
      <4>1. j \in 0 .. m /\ j # 0 /\ j <= k + 1 /\ ~ (j <= k)
        <5>1. x = 1 + k
          BY <1>1
        <5> QED
          BY <3>1, <5>1
      <4>2. D[j] = y
        BY <1>6, <4>1
      <4> QED
        BY <1>3, <3>1, <4>1, <4>2
    <3>2. CASE j # x
      <4>1. ~ (x <= j /\ j < x + 1) /\ (j <= k + 1 <=> j <= k)
        <5>1. x = 1 + k
          BY <1>1
        <5> QED
          BY <1>3, <3>2, <5>1
      <4>2. D[j] = IF j = 0 THEN top ELSE IF j <= k THEN y + 1 ELSE y
        BY <1>6
      <4> QED
        BY <4>1, <4>2
    <3> QED
      BY <3>1, <3>2
  <2> QED
    BY <1>6, <2>1, <2>2
<1>10. FreeFrom(E, W, x, y, x + 1)
  <2>1. E[x] = y + 1
    <3>1. x \in 0 .. m /\ x # 0 /\ x <= k + 1
      <4>1. x = 1 + k
        BY <1>1
      <4> QED
        BY <1>3, <4>1
    <3> QED
      BY <1>6, <3>1
  <2>2. ASSUME x + 1 < W PROVE E[x + 1] = y
    <3>1. x + 1 \in 0 .. m /\ x + 1 # 0 /\ ~ (x + 1 <= k + 1)
      <4>1. x = 1 + k
        BY <1>1
      <4> QED
        BY <1>3, <2>2, <4>1
    <3> QED
      BY <1>6, <3>1
  <2>3. x + 1 \in x .. W /\ \A j \in x .. x + 1 - 1 : j = x
    <3>1. x = 1 + k
      BY <1>1
    <3> QED
      BY <1>3, <3>1
  <2> QED
    BY <1>3, <2>1, <2>2, <2>3 DEF FreeFrom
<1>11. At(s, Q, x + 1, y, Larger(W, x + 1), Larger(top, y + 1), E)'
  <2>1. 1 \in Nat /\ FALSE \in BOOLEAN /\ x + 1 <= Wide(s)
    <3>1. x = 1 + k /\ Wide(s) = W
      BY <1>1
    <3> QED
      BY <1>3, <3>1
  <2>2. Fitting(s, 1, 1, FALSE, Q, x, y, W, top, D, E, x + 1)
    BY <1>1, <1>3, <1>4, <1>5, <1>7, <1>8, <1>9, <1>10, <2>1, Zenon DEF Fitting
  <2> QED
    BY <2>2, CellFits
<1>12. Larger(W, x + 1) = W /\ Larger(top, y + 1) = top
  <2>1. x = 1 + k
    BY <1>1
  <2> QED
    BY <1>3, <2>1 DEF Larger
<1>13. Stage8(s, i, v, k + 1)' <=> At(s, Q, x + 1, y, W, top, E)'
  <2>1. 1 + (k + 1) = x + 1
    <3>1. x = 1 + k
      BY <1>1
    <3> QED
      BY <3>1
  <2> QED
    BY <1>1, <2>1, Zenon DEF Stage8
<1> QED
  BY <1>11, <1>12, <1>13

(* A volume's row ends: the next volume comes, or the next host.                    *)
LEMMA FromStage8End ==
  ASSUME NEW s, Shaped(s), NEW i \in 1 .. Len(s.hosts), NEW v \in 1 .. s.hosts[i],
         Stage8(s, i, v, 4 + 3 * s.devices), TableNext
  PROVE  IF v = s.hosts[i] THEN Stage7(s, i + 1)' ELSE Stage8(s, i, v + 1, 0)'
<1>1. PICK n, m, l, r, z, top, x, y, W, Q, D, c :
        /\ n = s.devices /\ m = 4 + 3 * s.devices /\ l = s.hosts[i] - v
        /\ r = 4 + 3 * s.devices - (4 + 3 * s.devices) /\ z = 4 + 3 * s.devices - 0
        /\ top = Top(s, i + 1) /\ x = 1 + (4 + 3 * s.devices) /\ y = Top(s, i) + v - 1 /\ W = Wide(s)
        /\ Q = Times(l, VolumeRow(n)) \o FromHost(s, i + 1)
        /\ D = SkyVolume(n, top, y, 4 + 3 * s.devices) /\ c = IF l = 0 THEN 0 ELSE 1
  OBVIOUS
<1>2. s.hosts[i] \in Nat /\ Top(s, i) \in Nat /\ Top(s, i) >= 3 /\ top = Top(s, i) + s.hosts[i]
      /\ n \in Nat
  BY <1>1, HostFacts
<1>3. /\ m \in Nat /\ m >= 4 /\ W = m + 1 /\ l \in Nat /\ x \in Nat /\ r = 0 /\ z = m
      /\ y \in Nat /\ y >= 3 /\ top \in Nat /\ top = y + 1 + l /\ (l = 0 <=> v = s.hosts[i])
  <2>1. s.devices \in Nat /\ s.devices = n
    BY <1>1, <1>2
  <2>2. m \in Nat /\ m >= 4 /\ x \in Nat /\ r = 0 /\ z = m
    <3>1. PICK d : d = s.devices
      OBVIOUS
    <3>2. d \in Nat /\ m = 4 + 3 * d /\ x = 1 + (4 + 3 * d)
          /\ r = 4 + 3 * d - (4 + 3 * d) /\ z = 4 + 3 * d - 0
      BY <1>1, <2>1, <3>1, Zenon
    <3> QED
      BY <3>2
  <2>3. W = m + 1
    <3>1. W = 5 + 3 * s.devices /\ m = 4 + 3 * s.devices
      BY <1>1, Zenon DEF Wide
    <3> QED
      BY <2>1, <3>1
  <2>6. PICK q, p : q = Top(s, i) /\ p = s.hosts[i]
    OBVIOUS
  <2>7. q \in Nat /\ q >= 3 /\ p \in Nat /\ top = q + p /\ y = q + v - 1 /\ l = p - v /\ v \in 1 .. p
    BY <1>1, <1>2, <2>6
  <2>8. y \in Nat /\ y >= 3 /\ top \in Nat /\ top = y + 1 + l /\ l \in Nat /\ (l = 0 <=> v = p)
    BY <2>7
  <2> QED
    BY <2>2, <2>3, <2>6, <2>8
<1>4. Q \in Seq(Items) /\ InVolume(s, i, l, 0) = <<RowEnd>> \o Q
  <2>1. /\ InVolume(s, i, l, 0) = <<RowEnd>> \o (Times(l, VolumeRow(s.devices)) \o FromHost(s, i + 1))
        /\ Times(l, VolumeRow(s.devices)) \o FromHost(s, i + 1) \in Seq(Items)
    BY <1>3, VolumeIs
  <2> QED
    BY <1>1, <2>1, Zenon
<1>5. At(s, <<RowEnd>> \o Q, x, y, W, top, D)
  <2>1. At(s, InVolume(s, i, l, r), x, y, W, top, D)
    BY <1>1, Zenon DEF Stage8
  <2> QED
    BY <1>3, <1>4, <2>1
<1>6. D = [j \in 0 .. m |-> IF j = 0 THEN y + 1 + l ELSE y + 1]
  <2>1. D = [j \in 0 .. m |-> IF j = 0 THEN top ELSE IF j <= m THEN y + 1 ELSE y]
    BY <1>1, Zenon DEF SkyVolume
  <2>2. \A j \in 0 .. m : j <= m
    BY <1>3
  <2> QED
    BY <1>3, <2>1, <2>2
<1>7. FreeFrom(D, W, 0, y + 1, c)
  <2>1. CASE l = 0
    <3>1. c = 0 /\ D[0] = y + 1
      <4>1. 0 \in 0 .. m /\ y + 1 + l = y + 1
        BY <1>3, <2>1
      <4> QED
        BY <1>1, <1>6, <2>1, <4>1
    <3> QED
      BY <1>3, <3>1 DEF FreeFrom
  <2>2. CASE l # 0
    <3>1. c = 1 /\ D[0] = y + 1 + l /\ D[1] = y + 1
      <4>1. 0 \in 0 .. m /\ 1 \in 0 .. m
        BY <1>3
      <4>2. c = 1
        BY <1>1, <2>2
      <4>3. D[0] = y + 1 + l /\ D[1] = y + 1
        BY <1>3, <1>6, <4>1
      <4> QED
        BY <4>2, <4>3
    <3>2. \A j \in 0 .. 1 - 1 : j = 0
      OBVIOUS
    <3> QED
      BY <1>3, <2>2, <3>1, <3>2 DEF FreeFrom
  <2> QED
    BY <2>1, <2>2
<1>8. At(s, Q, c, y + 1, W, top, D)'
  <2>1. Ending(s, Q, x, y, W, top, D, c)
    BY <1>1, <1>3, <1>4, <1>5, <1>7 DEF Ending
  <2> QED
    BY <2>1, RowEnds
<1>9. CASE l = 0
  <2>1. Q = FromHost(s, i + 1)
    <3>1. PICK X, row, F : X = Items /\ row = VolumeRow(n) /\ F = FromHost(s, i + 1)
      OBVIOUS
    <3>2. row \in Seq(X) /\ F \in Seq(X)
      BY <1>2, <3>1, VolumeRowIn, HostFacts
    <3>3. Times(0, row) \o F = F
      BY <3>2, NoTimes
    <3> QED
      BY <1>1, <1>9, <3>1, <3>3
  <2>2. D = SkyRow(n, top)
    <3>1. \A j \in 0 .. m : (IF j = 0 THEN y + 1 + l ELSE y + 1) = top
      BY <1>3, <1>9
    <3> QED
      BY <1>1, <1>6, <3>1 DEF SkyRow
  <2>3. c = 0 /\ y + 1 = top /\ v = s.hosts[i]
    BY <1>1, <1>3, <1>9
  <2>4. At(s, FromHost(s, i + 1), 0, top, W, top, SkyRow(n, top))'
    BY <1>8, <2>1, <2>2, <2>3
  <2>5. Stage7(s, i + 1)' <=> At(s, FromHost(s, i + 1), 0, top, W, top, SkyRow(n, top))'
    BY <1>1, Zenon DEF Stage7
  <2> QED
    BY <2>3, <2>4, <2>5
<1>10. CASE l # 0
  <2>1. l - 1 \in Nat /\ (l - 1) + 1 = l /\ s.hosts[i] - (v + 1) = l - 1 /\ v # s.hosts[i]
        /\ Top(s, i) + (v + 1) - 1 = y + 1 /\ m - 0 = m /\ 1 + 0 = 1 /\ c = 1
    <3>1. PICK q, p : q = Top(s, i) /\ p = s.hosts[i]
      OBVIOUS
    <3>2. q \in Nat /\ p \in Nat /\ y = q + v - 1 /\ l = p - v /\ v \in 1 .. p
      BY <1>1, <1>2, <3>1
    <3>3. l - 1 \in Nat /\ (l - 1) + 1 = l /\ p - (v + 1) = l - 1 /\ v # p
          /\ q + (v + 1) - 1 = y + 1
      BY <1>3, <1>10, <3>2
    <3>4. m - 0 = m /\ 1 + 0 = 1 /\ c = 1
      BY <1>1, <1>3, <1>10
    <3> QED
      BY <3>1, <3>3, <3>4
  <2>2. Q = InVolume(s, i, l - 1, m)
    <3>1. Times((l - 1) + 1, VolumeRow(s.devices)) \o FromHost(s, i + 1)
            = InVolume(s, i, l - 1, 4 + 3 * s.devices)
      BY <2>1, VolumeIs
    <3> QED
      BY <1>1, <2>1, <3>1
  <2>3. D = SkyVolume(n, top, y + 1, 0)
    <3>1. \A j \in 0 .. m :
            (IF j = 0 THEN top ELSE IF j <= 0 THEN (y + 1) + 1 ELSE y + 1)
              = (IF j = 0 THEN y + 1 + l ELSE y + 1)
      BY <1>3
    <3> QED
      BY <1>1, <1>6, <3>1 DEF SkyVolume
  <2>4. At(s, InVolume(s, i, l - 1, m), 1, y + 1, W, top, SkyVolume(n, top, y + 1, 0))'
    BY <1>8, <2>1, <2>2, <2>3
  <2>5. Stage8(s, i, v + 1, 0)'
          <=> At(s, InVolume(s, i, l - 1, m), 1, y + 1, W, top, SkyVolume(n, top, y + 1, 0))'
    <3>1. PICK a, b, e, f : /\ a = s.hosts[i] - (v + 1) /\ b = 4 + 3 * s.devices - 0 /\ e = 1 + 0
                         /\ f = Top(s, i) + (v + 1) - 1
      OBVIOUS
    <3>2. Stage8(s, i, v + 1, 0)'
            <=> At(s, InVolume(s, i, a, b), e, f, W, top, SkyVolume(n, top, f, 0))'
      BY <1>1, <3>1, Zenon DEF Stage8
    <3>3. b = m
      BY <1>1, <1>3, <3>1, Zenon
    <3>4. a = l - 1 /\ e = 1 /\ f = y + 1
      BY <2>1, <3>1
    <3> QED
      BY <3>2, <3>3, <3>4
  <2> QED
    BY <2>1, <2>4, <2>5
<1> QED
  BY <1>9, <1>10

(* Something is still to come.                                                  *)
Pending(R) == \E a \in Items, Q \in Seq(Items) : R = <<a>> \o Q

(* While something is to come the summary is not complete.                    *)
LEMMA MoreToCome ==
  ASSUME NEW s, NEW k, NEW R, Left(s, k, R), Pending(R)
  PROVE  k < Len(SummaryCells[s])
<1>1. PICK a \in Items, Q \in Seq(Items) : R = <<a>> \o Q
  BY DEF Pending
<1>2. Left(s, k, <<a>> \o Q)
  BY <1>1
<1> QED
  BY <1>2, Onward

(* Only after the last host is nothing to come.                               *)
LEMMA AllPending ==
  ASSUME NEW s, Shaped(s)
  PROVE  /\ \A k \in Nat : Pending(InFirst(s, k)) /\ Pending(InSecond(s, k)) /\ Pending(InThird(s, k))
         /\ Pending(<<Heading(1, 2)>> \o (<<RowEnd>> \o InSecond(s, s.devices)))
         /\ Pending(<<RowEnd>> \o InSecond(s, s.devices))
         /\ Pending(<<RowEnd>> \o FromHost(s, 1))
         /\ \A i \in 1 .. Len(s.hosts) : Pending(FromHost(s, i))
         /\ \A i \in 1 .. Len(s.hosts) : \A v, k \in Nat : Pending(InVolume(s, i, v, k))
<1>1. PICK n : n = s.devices
  OBVIOUS
<1>2. n \in Nat /\ 3 * n \in Nat /\ Len(s.hosts) \in Nat /\ 1 \in Nat /\ 2 \in Nat /\ 3 \in Nat
  BY <1>1 DEF Shaped
<1>3. /\ RowEnd \in Items /\ Body \in Items /\ Heading(1, 1) \in Items /\ Heading(1, 2) \in Items
      /\ Heading(1, 3) \in Items /\ Heading(3, 1) \in Items /\ Heading(3 * n, 1) \in Items
  BY <1>2, Kinds
<1>4. \A R, a, Q : a \in Items /\ Q \in Seq(Items) /\ R = <<a>> \o Q => Pending(R)
  BY Zenon DEF Pending
<1>5. \A k \in Nat : k = 0 \/ \E j \in Nat : k = j + 1
  <2> SUFFICES ASSUME NEW k \in Nat, k # 0 PROVE \E j \in Nat : k = j + 1
    OBVIOUS
  <2>1. k - 1 \in Nat /\ k = (k - 1) + 1
    OBVIOUS
  <2> QED
    BY <2>1
<1>6. ASSUME NEW k \in Nat PROVE Pending(InFirst(s, k))
  <2>1. CASE k = 0
    <3>1. PICK Q : Q = <<Heading(1, 2)>> \o (<<RowEnd>> \o InSecond(s, n))
      OBVIOUS
    <3>2. Q \in Seq(Items) /\ InFirst(s, 0) = <<Heading(3 * n, 1)>> \o Q
      BY <1>1, <1>2, <3>1, RestTypes, FirstRow
    <3> QED
      BY <1>3, <1>4, <2>1, <3>2, Zenon
  <2>2. CASE \E j \in Nat : k = j + 1
    <3>1. PICK j \in Nat : k = j + 1
      BY <2>2
    <3>2. InFirst(s, j) \in Seq(Items) /\ InFirst(s, k) = <<Heading(1, 3)>> \o InFirst(s, j)
      BY <3>1, RestTypes, FirstRow
    <3> QED
      BY <1>3, <1>4, <3>2, Zenon
  <2> QED
    BY <1>5, <2>1, <2>2
<1>7. ASSUME NEW k \in Nat PROVE Pending(InSecond(s, k))
  <2>1. CASE k = 0
    <3>1. InThird(s, 3 * n) \in Seq(Items) /\ InSecond(s, 0) = <<RowEnd>> \o InThird(s, 3 * n)
      BY <1>1, <1>2, RestTypes, SecondRow
    <3> QED
      BY <1>3, <1>4, <2>1, <3>1, Zenon
  <2>2. CASE \E j \in Nat : k = j + 1
    <3>1. PICK j \in Nat : k = j + 1
      BY <2>2
    <3>2. InSecond(s, j) \in Seq(Items) /\ InSecond(s, k) = <<Heading(3, 1)>> \o InSecond(s, j)
      BY <3>1, RestTypes, SecondRow
    <3> QED
      BY <1>3, <1>4, <3>2, Zenon
  <2> QED
    BY <1>5, <2>1, <2>2
<1>8. ASSUME NEW k \in Nat PROVE Pending(InThird(s, k))
  <2>1. CASE k = 0
    <3>1. /\ <<RowEnd>> \o FromHost(s, 1) \in Seq(Items)
          /\ InThird(s, 0) = <<Heading(1, 1)>> \o (<<RowEnd>> \o FromHost(s, 1))
      BY RestTypes, ThirdRow
    <3> QED
      BY <1>3, <1>4, <2>1, <3>1, Zenon
  <2>2. CASE \E j \in Nat : k = j + 1
    <3>1. PICK j \in Nat : k = j + 1
      BY <2>2
    <3>2. InThird(s, j) \in Seq(Items) /\ InThird(s, k) = <<Heading(1, 1)>> \o InThird(s, j)
      BY <3>1, RestTypes, ThirdRow
    <3> QED
      BY <1>3, <1>4, <3>2, Zenon
  <2> QED
    BY <1>5, <2>1, <2>2
<1>9. /\ Pending(<<Heading(1, 2)>> \o (<<RowEnd>> \o InSecond(s, n)))
      /\ Pending(<<RowEnd>> \o InSecond(s, n)) /\ Pending(<<RowEnd>> \o FromHost(s, 1))
  <2>1. 1 \in 1 .. Len(s.hosts) + 1
    BY <1>2
  <2>2. /\ InSecond(s, n) \in Seq(Items) /\ <<RowEnd>> \o InSecond(s, n) \in Seq(Items)
        /\ FromHost(s, 1) \in Seq(Items)
    BY <1>2, <2>1, RestTypes
  <2> QED
    BY <1>3, <1>4, <2>2, Zenon
<1>10. ASSUME NEW i \in 1 .. Len(s.hosts) PROVE Pending(FromHost(s, i))
  <2>1. PICK v, Q : v = s.hosts[i] /\ Q = Times(v, VolumeRow(n)) \o FromHost(s, i + 1)
    OBVIOUS
  <2>2. Q \in Seq(Items) /\ FromHost(s, i) = <<<<1, v, FALSE>>>> \o Q
    BY <1>1, <2>1, HostIs
  <2>3. v \in Nat
    BY <2>1, HostFacts
  <2>4. <<1, v, FALSE>> \in Items
    BY <2>3, Kinds
  <2> QED
    BY <1>4, <2>2, <2>4, Zenon
<1>11. ASSUME NEW i \in 1 .. Len(s.hosts), NEW v \in Nat, NEW k \in Nat
       PROVE  Pending(InVolume(s, i, v, k))
  <2>1. CASE k = 0
    <3>1. PICK Q : Q = Times(v, VolumeRow(n)) \o FromHost(s, i + 1)
      OBVIOUS
    <3>2. Q \in Seq(Items) /\ InVolume(s, i, v, 0) = <<RowEnd>> \o Q
      BY <1>1, <3>1, VolumeIs
    <3> QED
      BY <1>3, <1>4, <2>1, <3>2, Zenon
  <2>2. CASE \E j \in Nat : k = j + 1
    <3>1. PICK j \in Nat : k = j + 1
      BY <2>2
    <3>2. InVolume(s, i, v, j) \in Seq(Items) /\ InVolume(s, i, v, k) = <<Body>> \o InVolume(s, i, v, j)
      BY <3>1, VolumeIs
    <3> QED
      BY <1>3, <1>4, <3>2, Zenon
  <2> QED
    BY <1>5, <2>1, <2>2
<1> QED
  BY <1>1, <1>6, <1>7, <1>8, <1>9, <1>10, <1>11

-----------------------------------------------------------------------------
(* The table is always at one of these places.                                   *)
Drawn(s) ==
  \/ \E i \in 0 .. 4 : Stage1(s, i)
  \/ Stage2(s)
  \/ Stage3(s)
  \/ \E i \in 0 .. s.devices : Stage4(s, i)
  \/ \E i \in 0 .. 3 * s.devices : Stage5(s, i)
  \/ Stage6(s)
  \/ \E i \in 1 .. Len(s.hosts) + 1 : Stage7(s, i)
  \/ \E i \in 1 .. Len(s.hosts) : \E v \in 1 .. s.hosts[i] :
       \E k \in 0 .. 4 + 3 * s.devices : Stage8(s, i, v, k)

(* A complete summary is after its last host.                                 *)
LEMMA DrawnAtLast ==
  ASSUME NEW s, Shaped(s), Drawn(s), added = CellCount(shape)
  PROVE  Stage7(s, Len(s.hosts) + 1)
<1>1. \A R, x, y, ex, ey, D : At(s, R, x, y, ex, ey, D) => ~ Pending(R)
  <2> SUFFICES ASSUME NEW R, NEW x, NEW y, NEW ex, NEW ey, NEW D, At(s, R, x, y, ex, ey, D), Pending(R)
               PROVE  FALSE
    BY Zenon
  <2>1. shape = s /\ Left(s, added, R)
    BY DEF At
  <2>2. added < Len(SummaryCells[s])
    BY <2>1, MoreToCome
  <2>3. added \in Nat
    BY <2>1 DEF Left
  <2>4. added = Len(SummaryCells[s])
    BY <2>1 DEF CellCount
  <2> QED
    BY <2>2, <2>3, <2>4
<1>2. s.devices \in Nat /\ Len(s.hosts) \in Nat
  BY DEF Shaped
<1>3. ASSUME NEW i \in 0 .. 4 PROVE ~ Stage1(s, i)
  <2>1. 4 - i \in Nat
    OBVIOUS
  <2>2. Pending(InFirst(s, 4 - i))
    BY <2>1, AllPending
  <2> QED
    BY <1>1, <2>2, Zenon DEF Stage1
<1>4. ~ Stage2(s) /\ ~ Stage3(s) /\ ~ Stage6(s)
  <2>1. /\ Pending(<<Heading(1, 2)>> \o (<<RowEnd>> \o InSecond(s, s.devices)))
        /\ Pending(<<RowEnd>> \o InSecond(s, s.devices))
        /\ Pending(<<RowEnd>> \o FromHost(s, 1))
    BY AllPending
  <2> QED
    BY <1>1, <2>1, Zenon DEF Stage2, Stage3, Stage6
<1>5. ASSUME NEW i \in 0 .. s.devices PROVE ~ Stage4(s, i)
  <2>1. s.devices - i \in Nat
    BY <1>2
  <2>2. Pending(InSecond(s, s.devices - i))
    BY <2>1, AllPending
  <2> QED
    BY <1>1, <2>2, Zenon DEF Stage4
<1>6. ASSUME NEW i \in 0 .. 3 * s.devices PROVE ~ Stage5(s, i)
  <2>1. 3 * s.devices - i \in Nat
    BY <1>2
  <2>2. Pending(InThird(s, 3 * s.devices - i))
    BY <2>1, AllPending
  <2> QED
    BY <1>1, <2>2, Zenon DEF Stage5
<1>7. ASSUME NEW i \in 1 .. Len(s.hosts), NEW v \in 1 .. s.hosts[i], NEW k \in 0 .. 4 + 3 * s.devices
      PROVE  ~ Stage8(s, i, v, k)
  <2>1. s.hosts[i] - v \in Nat
    <3>1. s.hosts[i] \in Nat
      BY HostFacts
    <3> QED
      BY <3>1
  <2>2. 4 + 3 * s.devices - k \in Nat
    BY <1>2
  <2>3. Pending(InVolume(s, i, s.hosts[i] - v, 4 + 3 * s.devices - k))
    BY <2>1, <2>2, AllPending
  <2> QED
    BY <1>1, <2>3, Zenon DEF Stage8
<1>8. PICK i \in 1 .. Len(s.hosts) + 1 : Stage7(s, i)
  BY <1>3, <1>4, <1>5, <1>6, <1>7 DEF Drawn
<1>9. i \notin 1 .. Len(s.hosts)
  <2> SUFFICES ASSUME i \in 1 .. Len(s.hosts) PROVE FALSE
    OBVIOUS
  <2>1. Pending(FromHost(s, i))
    BY AllPending
  <2> QED
    BY <1>1, <1>8, <2>1, Zenon DEF Stage7
<1>10. i = Len(s.hosts) + 1
  BY <1>2, <1>9
<1> QED
  BY <1>8, <1>10

(* Every step goes from one of these places to another.                       *)
LEMMA DrawnNext ==
  ASSUME NEW s, Shaped(s), Drawn(s), TableNext
  PROVE  Drawn(s)'
<1>1. s.devices \in Nat /\ Len(s.hosts) \in Nat
  BY DEF Shaped
<1>2. ASSUME NEW i \in 0 .. 4, Stage1(s, i) PROVE Drawn(s)'
  <2>1. CASE i = 4
    <3>1. Stage2(s)'
      BY <1>2, <2>1, FromStage1End
    <3> QED
      BY <3>1 DEF Drawn
  <2>2. CASE i # 4
    <3>1. i \in 0 .. 3 /\ i + 1 \in 0 .. 4
      BY <2>2
    <3>2. Stage1(s, i + 1)'
      BY <1>2, <3>1, FromStage1
    <3> QED
      BY <3>1, <3>2 DEF Drawn
  <2> QED
    BY <2>1, <2>2
<1>3. ASSUME Stage2(s) PROVE Drawn(s)'
  <2>1. Stage3(s)'
    BY <1>3, FromStage2
  <2> QED
    BY <2>1 DEF Drawn
<1>4. ASSUME Stage3(s) PROVE Drawn(s)'
  <2>1. Stage4(s, 0)'
    BY <1>4, FromStage3
  <2>2. 0 \in 0 .. s.devices
    BY <1>1
  <2> QED
    BY <2>1, <2>2 DEF Drawn
<1>5. ASSUME NEW i \in 0 .. s.devices, Stage4(s, i) PROVE Drawn(s)'
  <2>1. CASE i = s.devices
    <3>1. Stage5(s, 0)'
      BY <1>5, <2>1, FromStage4End
    <3>2. 0 \in 0 .. 3 * s.devices
      BY <1>1
    <3> QED
      BY <3>1, <3>2 DEF Drawn
  <2>2. CASE i # s.devices
    <3>1. i \in Nat /\ i < s.devices /\ i + 1 \in 0 .. s.devices
      BY <1>1, <2>2
    <3>2. Stage4(s, i + 1)'
      BY <1>5, <3>1, FromStage4
    <3> QED
      BY <3>1, <3>2 DEF Drawn
  <2> QED
    BY <2>1, <2>2
<1>6. ASSUME NEW i \in 0 .. 3 * s.devices, Stage5(s, i) PROVE Drawn(s)'
  <2>1. CASE i = 3 * s.devices
    <3>1. Stage6(s)'
      BY <1>6, <2>1, FromStage5End
    <3> QED
      BY <3>1 DEF Drawn
  <2>2. CASE i # 3 * s.devices
    <3>1. i \in Nat /\ i < 3 * s.devices /\ i + 1 \in 0 .. 3 * s.devices
      BY <1>1, <2>2
    <3>2. Stage5(s, i + 1)'
      BY <1>6, <3>1, FromStage5
    <3> QED
      BY <3>1, <3>2 DEF Drawn
  <2> QED
    BY <2>1, <2>2
<1>7. ASSUME Stage6(s) PROVE Drawn(s)'
  <2>1. Stage7(s, 1)'
    BY <1>7, FromStage6
  <2>2. 1 \in 1 .. Len(s.hosts) + 1
    BY <1>1
  <2> QED
    BY <2>1, <2>2 DEF Drawn
<1>8. ASSUME NEW i \in 1 .. Len(s.hosts) + 1, Stage7(s, i) PROVE Drawn(s)'
  <2>1. i \in 1 .. Len(s.hosts)
    <3> SUFFICES ASSUME i = Len(s.hosts) + 1 PROVE FALSE
      BY <1>1
    <3>1. FromHost(s, i) = <<>>
      BY HostByHost DEF Shaped
    <3>2. shape = s /\ Left(s, added, <<>>)
      <4>1. Left(s, added, FromHost(s, i)) /\ shape = s
        BY <1>8 DEF Stage7, At
      <4> QED
        BY <3>1, <4>1
    <3>3. added = Len(SummaryCells[s]) /\ added \in Nat
      <4>1. added = Len(SummaryCells[s])
        BY <3>2, NothingLeft
      <4>2. added \in Nat
        BY <3>2 DEF Left
      <4> QED
        BY <4>1, <4>2
    <3>4. added < Len(SummaryCells[s])
      BY <3>2 DEF TableNext, AddCell, NewRow, CellCount
    <3> QED
      BY <3>3, <3>4
  <2>2. PICK v : v = s.hosts[i]
    OBVIOUS
  <2>3. v \in Nat /\ i + 1 \in 1 .. Len(s.hosts) + 1
    BY <2>1, <2>2, HostFacts
  <2>4. CASE v = 0
    <3>1. Stage7(s, i + 1)'
      BY <1>8, <2>1, <2>2, <2>4, FromStage7
    <3> QED
      BY <2>3, <3>1 DEF Drawn
  <2>5. CASE v # 0
    <3>1. Stage8(s, i, 1, 0)'
      BY <1>8, <2>1, <2>2, <2>5, FromStage7
    <3>2. 1 \in 1 .. s.hosts[i] /\ 0 \in 0 .. 4 + 3 * s.devices
      BY <1>1, <2>2, <2>3, <2>5
    <3> QED
      BY <2>1, <3>1, <3>2 DEF Drawn
  <2> QED
    BY <2>4, <2>5
<1>9. ASSUME NEW i \in 1 .. Len(s.hosts), NEW v \in 1 .. s.hosts[i],
             NEW k \in 0 .. 4 + 3 * s.devices, Stage8(s, i, v, k)
      PROVE  Drawn(s)'
  <2>1. CASE k = 4 + 3 * s.devices
    <3>1. Stage8(s, i, v, 4 + 3 * s.devices)
      BY <1>9, <2>1
    <3>2. IF v = s.hosts[i] THEN Stage7(s, i + 1)' ELSE Stage8(s, i, v + 1, 0)'
      BY <3>1, FromStage8End
    <3>3. CASE v = s.hosts[i]
      <4>1. Stage7(s, i + 1)'
        BY <3>2, <3>3
      <4>2. i + 1 \in 1 .. Len(s.hosts) + 1
        BY <1>1
      <4> QED
        BY <4>1, <4>2 DEF Drawn
    <3>4. CASE v # s.hosts[i]
      <4>1. Stage8(s, i, v + 1, 0)'
        BY <3>2, <3>4
      <4>2. s.hosts[i] \in Nat
        BY HostFacts
      <4>3. v + 1 \in 1 .. s.hosts[i] /\ 0 \in 0 .. 4 + 3 * s.devices
        BY <1>1, <3>4, <4>2
      <4> QED
        BY <4>1, <4>3 DEF Drawn
    <3> QED
      BY <3>3, <3>4
  <2>2. CASE k # 4 + 3 * s.devices
    <3>1. k \in Nat /\ k < 4 + 3 * s.devices /\ k + 1 \in 0 .. 4 + 3 * s.devices
      BY <1>1, <2>2
    <3>2. Stage8(s, i, v, k + 1)'
      BY <1>9, <3>1, FromStage8
    <3> QED
      BY <3>1, <3>2 DEF Drawn
  <2> QED
    BY <2>1, <2>2
<1> QED
  BY <1>2, <1>3, <1>4, <1>5, <1>6, <1>7, <1>8, <1>9 DEF Drawn

(* A table without gaps, of a width and a height.                                *)
Filled(width, height) ==
  /\ width \in Nat /\ height \in Nat /\ width > 0 /\ height > 0
  /\ extent = [x |-> width, y |-> height]
  /\ DOMAIN cellMap = (0 .. width - 1) \X (0 .. height - 1)
  /\ Tiled(cellMap) /\ Measured(cellMap)

(* Each place of a table without gaps has a cell.                             *)
LEMMA CellThere ==
  ASSUME NEW width, NEW height, Filled(width, height),
         NEW x \in 0 .. width - 1, NEW y \in 0 .. height - 1
  PROVE  /\ Taken(cellMap, x, y) /\ IsCell(CellAt(x, y)) /\ CellAt(x, y) \in AllCells
         /\ x \in CellAt(x, y).x .. CellAt(x, y).x + CellAt(x, y).w - 1
         /\ y \in CellAt(x, y).y .. CellAt(x, y).y + CellAt(x, y).h - 1
         /\ CellAt(x, y).w > 0 /\ CellAt(x, y).h > 0
<1>1. PICK p, c : p = <<x, y>> /\ c = CellAt(x, y)
  OBVIOUS
<1>2. p \in DOMAIN cellMap
  BY <1>1 DEF Filled
<1>3. c = cellMap[p]
  BY <1>1 DEF CellAt
<1>4. IsCell(c) /\ p \in PlacesOf(c)
  BY <1>2, <1>3 DEF Filled, Tiled
<1>5. x \in c.x .. c.x + c.w - 1 /\ y \in c.y .. c.y + c.h - 1
  BY <1>1, <1>4, InPlaces
<1>6. c.w > 0 /\ c.h > 0
  BY <1>4, <1>5 DEF IsCell
<1>7. c \in AllCells
  BY <1>2, <1>3 DEF AllCells, Range
<1> QED
  BY <1>1, <1>2, <1>4, <1>5, <1>6, <1>7 DEF Taken

(* A cell is at each of its places, and those are in the table.               *)
LEMMA CellHere ==
  ASSUME NEW width, NEW height, Filled(width, height), NEW c \in AllCells, NEW x, NEW y,
         x \in c.x .. c.x + c.w - 1, y \in c.y .. c.y + c.h - 1
  PROVE  CellAt(x, y) = c /\ x \in 0 .. width - 1 /\ y \in 0 .. height - 1
<1>1. PICK p \in DOMAIN cellMap : c = cellMap[p]
  BY DEF AllCells, Range
<1>2. PICK q : q = <<x, y>>
  OBVIOUS
<1>3. q \in PlacesOf(c)
  BY <1>2, InPlaces
<1>4. q \in DOMAIN cellMap /\ cellMap[q] = c
  BY <1>1, <1>3 DEF Filled, Tiled
<1>5. x \in 0 .. width - 1 /\ y \in 0 .. height - 1
  BY <1>2, <1>4 DEF Filled
<1> QED
  BY <1>2, <1>4, <1>5 DEF CellAt

(* Where a cell is, in all.                                                     *)
LEMMA CellBounds ==
  ASSUME NEW width, NEW height, Filled(width, height), NEW c \in AllCells
  PROVE  /\ IsCell(c) /\ c.w > 0 /\ c.h > 0
         /\ c.x \in 0 .. width - 1 /\ c.y \in 0 .. height - 1 /\ c.x + c.w <= width
         /\ CellAt(c.x, c.y) = c
<1>1. PICK p \in DOMAIN cellMap : c = cellMap[p]
  BY DEF AllCells, Range
<1>2. IsCell(c) /\ p \in PlacesOf(c)
  BY <1>1 DEF Filled, Tiled
<1>3. p[1] \in c.x .. c.x + c.w - 1 /\ p[2] \in c.y .. c.y + c.h - 1
  BY <1>2, PlacesPairs
<1>4. PICK x, y, w, h : x = c.x /\ y = c.y /\ w = c.w /\ h = c.h
  OBVIOUS
<1>5. x \in Nat /\ y \in Nat /\ w \in Nat /\ h \in Nat
  BY <1>2, <1>4 DEF IsCell
<1>6. w > 0 /\ h > 0
  BY <1>3, <1>4, <1>5
<1>7. x \in x .. x + w - 1 /\ y \in y .. y + h - 1 /\ x + w - 1 \in x .. x + w - 1
  BY <1>5, <1>6
<1>8. CellAt(x, y) = c /\ x \in 0 .. width - 1 /\ y \in 0 .. height - 1
  BY <1>4, <1>7, CellHere
<1>9. x + w - 1 \in 0 .. width - 1
  BY <1>4, <1>7, CellHere
<1>10. x + w <= width
  <2>1. width \in Nat
    BY DEF Filled
  <2> QED
    BY <1>5, <1>9, <2>1
<1> QED
  BY <1>2, <1>4, <1>6, <1>8, <1>10

-----------------------------------------------------------------------------
(* How far a line has got when it comes to a column.                             *)
Reach(y, k) ==
  IF k > 0 /\ CellAt(k - 1, y).y = y THEN CellAt(k - 1, y).x + CellAt(k - 1, y).w ELSE k

(* How far a line has got is where the next cell of its own begins.           *)
LEMMA ReachIs ==
  ASSUME NEW width, NEW height, Filled(width, height),
         NEW k \in 0 .. width - 1, NEW y \in 0 .. height - 1, NEW d, d = CellAt(k, y)
  PROVE  /\ d.y # y => Reach(y, k) = k /\ Reach(y, k + 1) = k + 1
         /\ d.y = y /\ d.x = k => Reach(y, k) = k /\ Reach(y, k + 1) = k + d.w
         /\ d.y = y /\ d.x # k =>
              d.x < k /\ k < d.x + d.w /\ Reach(y, k) = d.x + d.w /\ Reach(y, k + 1) = d.x + d.w
<1>1. width \in Nat /\ height \in Nat /\ k \in Nat /\ y \in Nat
  BY DEF Filled
<1>2. PICK dx, dy, dw, dh : dx = d.x /\ dy = d.y /\ dw = d.w /\ dh = d.h
  OBVIOUS
<1>3. /\ d \in AllCells /\ dx \in Nat /\ dy \in Nat /\ dw \in Nat /\ dh \in Nat
      /\ k \in dx .. dx + dw - 1 /\ y \in dy .. dy + dh - 1
  BY <1>2, CellThere DEF IsCell
<1>4. Reach(y, k + 1) = IF dy = y THEN dx + dw ELSE k + 1
  <2>1. (k + 1) - 1 = k /\ k + 1 > 0
    BY <1>1
  <2> QED
    BY <1>2, <2>1 DEF Reach
<1>5. CASE k = 0
  <2>1. Reach(y, k) = 0
    BY <1>5 DEF Reach
  <2>2. dx = 0
    BY <1>3, <1>5
  <2> QED
    BY <1>2, <1>3, <1>4, <1>5, <2>1, <2>2
<1>6. CASE k # 0
  <2>1. PICK j : j = k - 1
    OBVIOUS
  <2>2. j \in 0 .. width - 1 /\ k = j + 1 /\ k > 0 /\ j \in Nat
    BY <1>1, <1>6, <2>1
  <2>3. PICK c, cx, cy, cw, ch :
          c = CellAt(j, y) /\ cx = c.x /\ cy = c.y /\ cw = c.w /\ ch = c.h
    OBVIOUS
  <2>4. /\ c \in AllCells /\ cx \in Nat /\ cy \in Nat /\ cw \in Nat /\ ch \in Nat
        /\ j \in cx .. cx + cw - 1 /\ y \in cy .. cy + ch - 1
    BY <2>2, <2>3, CellThere DEF IsCell
  <2>5. Reach(y, k) = IF cy = y THEN cx + cw ELSE k
    BY <2>1, <2>2, <2>3 DEF Reach
  <2>6. ASSUME cx + cw > k PROVE c = d
    <3>1. k \in cx .. cx + cw - 1
      BY <2>2, <2>4, <2>6
    <3>2. CellAt(k, y) = c
      BY <2>3, <2>4, <3>1, CellHere
    <3> QED
      BY <3>2
  <2>7. ASSUME dx < k PROVE c = d
    <3>1. j \in dx .. dx + dw - 1
      BY <1>3, <2>2, <2>7
    <3>2. CellAt(j, y) = d
      BY <1>2, <1>3, <3>1, CellHere
    <3> QED
      BY <2>3, <3>2
  <2>8. ASSUME dy # y PROVE Reach(y, k) = k
    <3>1. cy = y => cx + cw = k
      <4> SUFFICES ASSUME cy = y, cx + cw # k PROVE FALSE
        OBVIOUS
      <4>1. cx + cw > k
        BY <2>2, <2>4
      <4> QED
        BY <1>2, <2>3, <2>6, <2>8, <4>1
    <3> QED
      BY <2>5, <3>1
  <2>9. ASSUME dx = k PROVE Reach(y, k) = k
    <3>1. cx + cw = k
      <4> SUFFICES ASSUME cx + cw # k PROVE FALSE
        OBVIOUS
      <4>1. cx + cw > k
        BY <2>2, <2>4
      <4>2. cx = dx
        BY <1>2, <2>3, <2>6, <4>1
      <4> QED
        BY <2>2, <2>4, <2>9, <4>2
    <3> QED
      BY <2>5, <3>1
  <2>10. ASSUME dy = y, dx # k PROVE Reach(y, k) = dx + dw /\ dx < k /\ k < dx + dw
    <3>1. dx < k /\ k < dx + dw
      BY <1>1, <1>3, <2>10
    <3>2. c = d
      BY <2>7, <3>1
    <3> QED
      BY <1>2, <2>3, <2>5, <2>10, <3>1, <3>2
  <2> QED
    BY <1>2, <1>4, <2>8, <2>9, <2>10
<1> QED
  BY <1>5, <1>6

(* A line begins at the left and gets to the right.                           *)
LEMMA ReachEnds ==
  ASSUME NEW width, NEW height, Filled(width, height), NEW y \in 0 .. height - 1
  PROVE  Reach(y, 0) = 0 /\ Reach(y, width) = width
<1>1. width \in Nat /\ width > 0
  BY DEF Filled
<1>2. PICK j, c : j = width - 1 /\ c = CellAt(j, y)
  OBVIOUS
<1>3. j \in 0 .. width - 1
  BY <1>1, <1>2
<1>4. c \in AllCells /\ j \in c.x .. c.x + c.w - 1
  BY <1>2, <1>3, CellThere
<1>5. c.x + c.w <= width /\ c.x \in Nat /\ c.w \in Nat
  BY <1>4, CellBounds DEF IsCell
<1>6. c.x + c.w = width
  BY <1>1, <1>2, <1>4, <1>5
<1> QED
  BY <1>1, <1>2, <1>6 DEF Reach

(* What precedes the text of a column.                                           *)
Margin(x) == IF x = 0 THEN 2 ELSE 3

(* What the columns of a cell take up, each with its margin, is what the cell does. *)
LEMMA SpanIs ==
  ASSUME NEW a \in Nat, NEW w \in Nat, w > 0, NEW f, NEW e,
         \A i \in a .. a + w - 1 : f[i] \in Nat,
         \A i \in a .. a + w - 1 : e[i] = Margin(i) + f[i]
  PROVE  SumOver(e, a .. a + w - 1) = Margin(a) + SumOver(f, a .. a + w - 1) + 3 * (w - 1)
<1> DEFINE Same(v) ==
             SumOver(e, a .. a + v - 1) = Margin(a) + SumOver(f, a .. a + v - 1) + 3 * (v - 1)
           Fails == {v \in Nat : v > 0 /\ v <= w /\ ~Same(v)}
<1>0. Margin(a) \in Nat /\ \A i \in a .. a + w - 1 : e[i] \in Nat
  BY DEF Margin
<1> SUFFICES ASSUME Fails # {} PROVE FALSE
  <2>1. w \notin Fails => Same(w)
    <3> HIDE DEF Same
    <3> QED
      OBVIOUS
  <2> HIDE DEF Fails
  <2> QED
    BY <2>1
<1>1. PICK v \in Fails : \A k \in Fails : v <= k
  <2>1. Fails \in SUBSET Nat
    OBVIOUS
  <2> HIDE DEF Fails
  <2> QED
    BY <2>1, LeastNumber
<1>2. v \in Nat /\ v > 0 /\ v <= w /\ ~Same(v)
  <2> HIDE DEF Same
  <2> QED
    BY <1>1
<1>3. PICK b : b = a + v - 1
  OBVIOUS
<1>4. b \in Int /\ a <= b /\ b \in a .. a + w - 1 /\ b - 1 \in Int
  BY <1>2, <1>3
<1>5. \A i \in a .. b : f[i] \in Nat /\ e[i] \in Nat
  BY <1>0, <1>4
<1>6. SumOver(f, a .. b) = SumOver(f, a .. b - 1) + f[b]
  BY <1>4, <1>5, SumNext
<1>7. SumOver(e, a .. b) = SumOver(e, a .. b - 1) + e[b]
  BY <1>4, <1>5, SumNext
<1>8. e[b] = Margin(b) + f[b] /\ f[b] \in Nat
  BY <1>4
<1>9. CASE v = 1
  <2>1. b = a /\ b - 1 < a
    BY <1>3, <1>9
  <2>2. SumOver(f, a .. b - 1) = 0 /\ SumOver(e, a .. b - 1) = 0
    BY <1>4, <2>1, SumNone
  <2>3. Same(v) <=> SumOver(e, a .. b) = Margin(a) + SumOver(f, a .. b) + 3 * (v - 1)
    BY <1>3
  <2> HIDE DEF Same
  <2>4. SumOver(e, a .. b) = e[b] /\ SumOver(f, a .. b) = f[b]
    BY <1>0, <1>4, <1>5, <1>6, <1>7, <2>1, <2>2
  <2> QED
    BY <1>0, <1>2, <1>8, <1>9, <2>1, <2>3, <2>4
<1>10. CASE v # 1
  <2>1. PICK u : u = v - 1
    OBVIOUS
  <2>2. u \in Nat /\ u > 0 /\ u <= w /\ v = u + 1 /\ ~ (v <= u) /\ b - 1 = a + u - 1 /\ b > a
    BY <1>2, <1>3, <1>10, <2>1
  <2>3. Same(u)
    <3> HIDE DEF Same
    <3> QED
      BY <1>1, <2>2
  <2>4. SumOver(e, a .. b - 1) = Margin(a) + SumOver(f, a .. b - 1) + 3 * (u - 1)
    BY <2>2, <2>3
  <2>5. Same(v) <=> SumOver(e, a .. b) = Margin(a) + SumOver(f, a .. b) + 3 * (v - 1)
    BY <1>3
  <2>6. SumOver(f, a .. b - 1) \in Nat
    <3>1. \A i \in a .. b - 1 : f[i] \in Nat
      BY <1>4, <1>5
    <3> QED
      BY <1>4, <3>1, SumInterval
  <2>7. Margin(b) = 3
    BY <2>2 DEF Margin
  <2> HIDE DEF Same
  <2>8. PICK r, t, q, m :
          r = SumOver(e, a .. b) /\ t = SumOver(f, a .. b) /\ q = SumOver(f, a .. b - 1)
          /\ m = Margin(a)
    OBVIOUS
  <2>9. r = m + q + 3 * (u - 1) + (3 + f[b]) /\ t = q + f[b] /\ q \in Nat /\ m \in Nat
    BY <1>0, <1>6, <1>7, <1>8, <2>4, <2>6, <2>7, <2>8
  <2>10. r = m + t + 3 * (v - 1)
    BY <1>8, <2>2, <2>9
  <2> QED
    BY <1>2, <2>5, <2>8, <2>10
<1> QED
  BY <1>9, <1>10

(* The widths that the columns have.                                             *)
WidthsOf(width) == [0 .. width - 1 -> Nat]

(* The width of a cell is a sum of the widths of columns.                     *)
LEMMA TotalIs ==
  ASSUME NEW width, NEW height, Filled(width, height), NEW c \in AllCells,
         NEW widths \in WidthsOf(width)
  PROVE  Total(widths, c) \in Nat
         /\ Total(widths, c) = SumOver(widths, c.x .. c.x + c.w - 1) + 3 * (c.w - 1)
         /\ SumOver(widths, c.x .. c.x + c.w - 1) \in Nat
         /\ \A i \in c.x .. c.x + c.w - 1 : widths[i] \in Nat
<1>1. /\ c.x \in Nat /\ c.w \in Nat /\ c.w > 0 /\ c.x + c.w <= width /\ width \in Nat
  BY CellBounds DEF IsCell, Filled
<1>2. PICK b : b = c.x + c.w - 1
  OBVIOUS
<1>3. b \in Int /\ b < width /\ c.x \in Int
  BY <1>1, <1>2
<1>4. \A i \in c.x .. b : widths[i] \in Nat
  BY <1>1, <1>3 DEF WidthsOf
<1>5. SumOver(widths, c.x .. b) \in Nat
  BY <1>3, <1>4, SumInterval
<1>6. Total(widths, c) = SumOver(widths, c.x .. b) + 3 * (c.w - 1)
  BY <1>2 DEF Total, SumOver
<1> QED
  BY <1>1, <1>2, <1>4, <1>5, <1>6

(* A line up to a column is as long as the columns are that it has reached.          *)
LEMMA LinesAlike ==
  ASSUME NEW width, NEW height, Filled(width, height),
         NEW widths \in WidthsOf(width), NEW y \in 0 .. height - 1
  PROVE  LineLength(widths, y)
           = SumOver([x \in 0 .. width - 1 |-> Margin(x) + widths[x]], 0 .. width - 1) + 1
<1>1. width \in Nat /\ height \in Nat /\ width > 0 /\ Columns = 0 .. width - 1
  BY DEF Filled, Columns
<1>2. PICK e : e = [x \in 0 .. width - 1 |-> Margin(x) + widths[x]]
  OBVIOUS
<1>3. PICK p : p = [x \in Columns |-> Printed(widths, x, y)]
  OBVIOUS
<1>4. \A i \in 0 .. width - 1 :
        widths[i] \in Nat /\ e[i] = Margin(i) + widths[i] /\ e[i] \in Nat
  BY <1>2 DEF Margin, WidthsOf
<1>5. \A k \in 0 .. width - 1 : \A d : d = CellAt(k, y) =>
        /\ d.y # y => p[k] = e[k]
        /\ d.y = y /\ d.x = k => p[k] = Margin(k) + Total(widths, d)
        /\ d.y = y /\ d.x # k => p[k] = 0
  <2> SUFFICES ASSUME NEW k \in 0 .. width - 1, NEW d, d = CellAt(k, y)
               PROVE  /\ d.y # y => p[k] = e[k]
                      /\ d.y = y /\ d.x = k => p[k] = Margin(k) + Total(widths, d)
                      /\ d.y = y /\ d.x # k => p[k] = 0
    OBVIOUS
  <2>1. Taken(cellMap, k, y)
    BY CellThere
  <2>2. p[k] = IF d.y = y THEN IF d.x = k THEN Margin(k) + Total(widths, d) ELSE 0
               ELSE Margin(k) + widths[k]
    BY <1>1, <1>3, <2>1, Zenon DEF Printed, Margin
  <2> QED
    BY <1>4, <2>2
<1>6. \A k \in 0 .. width - 1 : p[k] \in Nat
  <2> SUFFICES ASSUME NEW k \in 0 .. width - 1 PROVE p[k] \in Nat
    OBVIOUS
  <2>1. PICK d : d = CellAt(k, y)
    OBVIOUS
  <2>2. d \in AllCells
    BY <2>1, CellThere
  <2>3. Total(widths, d) \in Nat
    BY <2>2, TotalIs
  <2>4. Margin(k) \in Nat
    BY DEF Margin
  <2> QED
    BY <1>4, <1>5, <2>1, <2>3, <2>4
<1> DEFINE Same(k) == SumOver(p, 0 .. k - 1) = SumOver(e, 0 .. Reach(y, k) - 1)
           Fails == {k \in Nat : k <= width /\ ~Same(k)}
<1>7. Same(0)
  <2>1. Reach(y, 0) = 0 /\ 0 \in Int /\ 0 - 1 \in Int /\ 0 - 1 < 0
    BY ReachEnds
  <2>2. SumOver(p, 0 .. 0 - 1) = 0 /\ SumOver(e, 0 .. 0 - 1) = 0
    BY <2>1, SumNone
  <2> QED
    BY <2>1, <2>2
<1>8. ASSUME NEW k \in 0 .. width - 1, Same(k)
      PROVE  Same(k + 1)
  <2>1. PICK d, r, q : d = CellAt(k, y) /\ r = Reach(y, k) /\ q = Reach(y, k + 1)
    OBVIOUS
  <2>2. k \in Nat /\ k < width /\ (k + 1) - 1 = k /\ 0 <= k /\ 0 \in Int /\ k \in Int
    BY <1>1
  <2>3. SumOver(p, 0 .. k) = SumOver(p, 0 .. k - 1) + p[k]
    <3>1. \A i \in 0 .. k : p[i] \in Nat
      BY <1>1, <1>6, <2>2
    <3> QED
      BY <2>2, <3>1, SumNext
  <2>4. SumOver(p, 0 .. k - 1) = SumOver(e, 0 .. r - 1)
    BY <1>8, <2>1
  <2>5. Same(k + 1) <=> SumOver(p, 0 .. k) = SumOver(e, 0 .. q - 1)
    BY <2>1, <2>2
  <2> HIDE DEF Same
  <2>6. PICK u, v : u = SumOver(p, 0 .. k) /\ v = SumOver(e, 0 .. q - 1)
    OBVIOUS
  <2>7. CASE d.y # y
    <3>1. r = k /\ q = k + 1
      BY <2>1, <2>7, ReachIs
    <3>2. SumOver(e, 0 .. k) = SumOver(e, 0 .. k - 1) + e[k]
      <4>1. \A i \in 0 .. k : e[i] \in Nat
        BY <1>1, <1>4, <2>2
      <4> QED
        BY <2>2, <4>1, SumNext
    <3>3. p[k] = e[k]
      BY <1>5, <2>1, <2>7
    <3> QED
      BY <2>2, <2>3, <2>4, <2>5, <3>1, <3>2, <3>3, Zenon
  <2>8. CASE d.y = y /\ d.x = k
    <3>1. PICK w : w = d.w
      OBVIOUS
    <3>2. r = k /\ q = k + w
      BY <2>1, <2>8, <3>1, ReachIs
    <3>3. d \in AllCells
      BY <2>1, CellThere
    <3>4. w \in Nat /\ w > 0 /\ k + w <= width
      BY <2>8, <3>1, <3>3, CellBounds DEF IsCell
    <3>5. PICK j, b : j = k - 1 /\ b = k + w - 1
      OBVIOUS
    <3>6. j \in Int /\ b \in Int /\ 0 <= j + 1 /\ j <= b /\ j + 1 = k /\ b < width
      BY <1>1, <2>2, <3>4, <3>5
    <3>7. SumOver(e, 0 .. b) = SumOver(e, 0 .. j) + SumOver(e, j + 1 .. b)
      <4>1. \A i \in 0 .. b : e[i] \in Nat
        BY <1>1, <1>4, <3>6
      <4> QED
        BY <2>2, <3>6, <4>1, SumConcat
    <3>8. SumOver(e, k .. b) = Margin(k) + SumOver(widths, k .. b) + 3 * (w - 1)
      <4>1. \A i \in k .. k + w - 1 : widths[i] \in Nat /\ e[i] = Margin(i) + widths[i]
        BY <1>1, <1>4, <2>2, <3>4
      <4> QED
        BY <2>2, <3>4, <3>5, <4>1, SpanIs
    <3>9. /\ Total(widths, d) = SumOver(widths, k .. b) + 3 * (w - 1)
          /\ SumOver(widths, k .. b) \in Nat
      BY <2>8, <3>1, <3>3, <3>5, TotalIs
    <3>10. p[k] = Margin(k) + Total(widths, d)
      BY <1>5, <2>1, <2>8
    <3>11. p[k] = SumOver(e, k .. b)
      <4>1. Margin(k) \in Nat
        BY DEF Margin
      <4>2. PICK t, m : t = SumOver(widths, k .. b) /\ m = Margin(k)
        OBVIOUS
      <4>3. t \in Nat /\ m \in Nat /\ p[k] = m + (t + 3 * (w - 1))
            /\ SumOver(e, k .. b) = m + t + 3 * (w - 1)
        BY <3>8, <3>9, <3>10, <4>1, <4>2
      <4> QED
        BY <3>4, <4>3
    <3>12. u = SumOver(e, 0 .. j) + p[k]
      BY <2>3, <2>4, <2>6, <3>2, <3>5
    <3>13. v = SumOver(e, 0 .. b)
      <4>1. q - 1 = b
        BY <2>2, <3>2, <3>4, <3>5
      <4> QED
        BY <2>6, <4>1, Zenon
    <3> QED
      BY <2>5, <2>6, <3>6, <3>7, <3>11, <3>12, <3>13
  <2>9. CASE d.y = y /\ d.x # k
    <3>1. r = q
      BY <2>1, <2>9, ReachIs
    <3>2. p[k] = 0
      BY <1>5, <2>1, <2>9
    <3>3. SumOver(p, 0 .. k - 1) \in Nat
      <4>1. \A i \in 0 .. k - 1 : p[i] \in Nat
        BY <1>1, <1>6, <2>2
      <4>2. k - 1 \in Int
        BY <2>2
      <4> QED
        BY <2>2, <4>1, <4>2, SumInterval
    <3> QED
      BY <2>3, <2>4, <2>5, <3>1, <3>2, <3>3
  <2> QED
    BY <2>7, <2>8, <2>9
<1>9. Same(width)
  <2> HIDE DEF Same
  <2> SUFFICES ASSUME ~Same(width) PROVE FALSE
    OBVIOUS
  <2>1. PICK k \in Fails : \A j \in Fails : k <= j
    <3>1. Fails \in SUBSET Nat /\ Fails # {}
      BY <1>1
    <3> HIDE DEF Fails
    <3> QED
      BY <3>1, LeastNumber
  <2>2. k \in Nat /\ k <= width /\ ~Same(k) /\ k # 0
    BY <1>7, <2>1
  <2>3. PICK j : j = k - 1
    OBVIOUS
  <2>4. j \in 0 .. width - 1 /\ j \in Nat /\ j <= width /\ ~ (k <= j) /\ k = j + 1
    BY <1>1, <2>2, <2>3
  <2>5. Same(j)
    BY <2>1, <2>4
  <2> QED
    BY <1>8, <2>2, <2>4, <2>5
<1>10. SumOver(p, 0 .. width - 1) = SumOver(e, 0 .. width - 1)
  <2>1. Reach(y, width) = width
    BY ReachEnds
  <2> QED
    BY <1>9, <2>1
<1>11. LineLength(widths, y) = SumOver(p, Columns) + 1
  <2>1. IsFiniteSet(Columns)
    <3>1. 0 \in Int /\ width - 1 \in Int
      BY <1>1
    <3> QED
      BY <1>1, <3>1, IntervalFinite
  <2>2. \A x \in Columns : Printed(widths, x, y) \in Nat
    BY <1>1, <1>3, <1>6
  <2> QED
    BY <1>3, <2>1, <2>2, LineIs
<1> QED
  BY <1>1, <1>2, <1>10, <1>11

(* A row of the HTML, from column to column.                                     *)
Cover(row, x, y) ==
  IF row.next # x - 1 THEN row
  ELSE IF Taken(cellMap, x - 1, y) /\ CellAt(x - 1, y).x = x - 1 /\ CellAt(x - 1, y).y = y
       THEN [cells |-> row.cells \cup {CellAt(x - 1, y)},
             next |-> row.next + CellAt(x - 1, y).w]
       ELSE [cells |-> row.cells, next |-> row.next + 1]

Covered == [cells : SUBSET AllCells, next : Nat]
Nought == [cells |-> {}, next |-> 0]

(* A step along a row of the HTML.                                            *)
LEMMA CoverType ==
  ASSUME NEW width, NEW height, Filled(width, height),
         NEW y \in 0 .. height - 1, NEW i \in 1 .. width, NEW t \in Covered
  PROVE  Cover(t, i, y) \in Covered
<1>1. width \in Nat
  BY DEF Filled
<1>2. PICK k, d : k = i - 1 /\ d = CellAt(k, y)
  OBVIOUS
<1>3. k \in 0 .. width - 1
  BY <1>1, <1>2
<1>4. d \in AllCells /\ d.w \in Nat
  BY <1>2, <1>3, CellThere DEF IsCell
<1>5. t.cells \in SUBSET AllCells /\ t.next \in Nat
  BY DEF Covered
<1>6. /\ t \in Covered
      /\ [cells |-> t.cells \cup {d}, next |-> t.next + d.w] \in Covered
      /\ [cells |-> t.cells, next |-> t.next + 1] \in Covered
  BY <1>4, <1>5 DEF Covered
<1> QED
  BY <1>2, <1>6, Zenon DEF Cover

(* A row of the HTML is what steps along it give.                             *)
LEMMA RowSteps ==
  ASSUME NEW width, NEW height, Filled(width, height), NEW y \in 0 .. height - 1
  PROVE  \E h : /\ h[0] = Nought
                /\ \A k \in 1 .. width : h[k] = Cover(h[k - 1], k, y)
                /\ HtmlRow(y) = h[width].cells
<1> DEFINE n == width
           T == Covered
           base == [cells |-> {}, next |-> 0]
           step == [p \in T \X (1 .. n) |-> Cover(p[1], p[2], y)]
           seq == [i \in 1 .. n |-> i]
           Rule(g) == g = [s \in SUBSET (1 .. n) |->
                             IF s = {} THEN base ELSE Cover(g[s \ {Max(s)}], seq[Max(s)], y)]
<1>1. n \in Nat /\ extent.x = n
  BY DEF Filled
<1>2. step \in [T \X (1 .. n) -> T]
  <2>1. ASSUME NEW p \in T \X (1 .. n) PROVE Cover(p[1], p[2], y) \in T
    <3>1. p[1] \in T /\ p[2] \in 1 .. n
      OBVIOUS
    <3> HIDE DEF T
    <3> QED
      BY <3>1, CoverType DEF T
  <2> QED
    BY <2>1
<1>3. \A t \in T, i \in 1 .. n : step[<<t, i>>] = Cover(t, i, y)
  OBVIOUS
<1>4. base \in T
  BY DEF Covered
<1>5. \A i \in 1 .. n : seq[i] = i
  OBVIOUS
<1> HIDE DEF T, step, n, seq
<1>6. PICK g \in [SUBSET (1 .. n) -> T] :
        \A s \in SUBSET (1 .. n) :
          g[s] = IF s = {} THEN base ELSE step[<<g[s \ {Max(s)}], Max(s)>>]
  <2>1. Foldable(n, T, base, step)
    BY <1>1, <1>2, <1>4, FoldExists
  <2> QED
    BY <2>1 DEF Foldable
<1>7. \A s \in SUBSET (1 .. n) : s # {} => Max(s) \in 1 .. n
  BY <1>1, MaxIsIn
<1>8. Rule(g)
  <2>1. ASSUME NEW s \in SUBSET (1 .. n)
        PROVE  g[s] = IF s = {} THEN base ELSE Cover(g[s \ {Max(s)}], seq[Max(s)], y)
    <3>1. s # {} => g[s \ {Max(s)}] \in T /\ Max(s) \in 1 .. n
      BY <1>6, <1>7
    <3> QED
      BY <1>3, <1>5, <1>6, <3>1
  <2> QED
    BY <1>6, <2>1
<1>9. HtmlRow(y) = (CHOOSE f : Rule(f))[1 .. n].cells
  BY <1>1 DEF HtmlRow, FoldLeft, MapThenFoldSet, Cover, seq
<1> DEFINE iter == CHOOSE f : Rule(f)
<1>10. \A s \in SUBSET (1 .. n) :
        iter[s] = IF s = {} THEN base ELSE Cover(iter[s \ {Max(s)}], seq[Max(s)], y)
  <2>1. Rule(iter)
    <3> HIDE DEF Rule
    <3> QED
      BY <1>8
  <2> HIDE DEF iter
  <2> QED
    BY <2>1
<1> HIDE DEF iter, Rule
<1> DEFINE h == [k \in 0 .. n |-> iter[1 .. k]]
<1>11. h[0] = base
  <2>1. 1 .. 0 = {} /\ {} \in SUBSET (1 .. n) /\ 0 \in 0 .. n
    BY <1>1
  <2> QED
    BY <1>10, <2>1
<1>12. ASSUME NEW k \in 1 .. n
       PROVE  h[k] = Cover(h[k - 1], k, y)
  <2>1. 1 .. k \in SUBSET (1 .. n) /\ 1 .. k # {} /\ (1 .. k) \ {k} = 1 .. k - 1
    BY <1>1
  <2>2. Max(1 .. k) = k
    BY <1>1 DEF Max
  <2>3. k \in 0 .. n /\ k - 1 \in 0 .. n
    BY <1>1
  <2> QED
    BY <1>5, <1>10, <2>1, <2>2, <2>3
<1>13. HtmlRow(y) = h[n].cells
  BY <1>1, <1>9 DEF iter
<1> HIDE DEF h
<1> QED
  BY <1>11, <1>12, <1>13 DEF n, Nought

(* A row of the HTML has each cell that begins there.                         *)
LEMMA RowIsCells ==
  ASSUME NEW width, NEW height, Filled(width, height), NEW y \in 0 .. height - 1
  PROVE  HtmlRow(y) = {c \in AllCells : c.y = y}
<1>1. PICK h : /\ h[0] = Nought
               /\ \A k \in 1 .. width : h[k] = Cover(h[k - 1], k, y)
               /\ HtmlRow(y) = h[width].cells
  BY RowSteps, Zenon
<1>2. width \in Nat /\ height \in Nat
  BY DEF Filled
<1> DEFINE Part(k) == {c \in AllCells : c.y = y /\ c.x < k}
           Same(k) == h[k] = [cells |-> Part(k), next |-> Reach(y, k)]
           Fails == {k \in Nat : k <= width /\ ~Same(k)}
<1>3. Same(0)
  <2>1. Part(0) = {}
    <3>1. \A c \in AllCells : c.x \in Nat
      BY CellBounds DEF IsCell
    <3> QED
      BY <3>1
  <2>2. Reach(y, 0) = 0
    BY ReachEnds
  <2> HIDE DEF Part
  <2> QED
    BY <1>1, <2>1, <2>2 DEF Nought
<1>4. ASSUME NEW k \in 0 .. width - 1, Same(k)
      PROVE  Same(k + 1)
  <2>1. PICK d, r, q : d = CellAt(k, y) /\ r = Reach(y, k) /\ q = Reach(y, k + 1)
    OBVIOUS
  <2>2. k \in Nat /\ (k + 1) - 1 = k /\ k + 1 \in 1 .. width
    BY <1>2
  <2>3. PICK A, B : A = Part(k) /\ B = Part(k + 1)
    OBVIOUS
  <2>4. h[k] = [cells |-> A, next |-> r]
    BY <1>4, <2>1, <2>3
  <2>5. h[k + 1] = Cover([cells |-> A, next |-> r], k + 1, y)
    BY <1>1, <2>2, <2>4
  <2>6. Taken(cellMap, k, y) /\ d \in AllCells
    BY <2>1, CellThere
  <2>7. h[k + 1] = IF r # k THEN [cells |-> A, next |-> r]
                   ELSE IF d.x = k /\ d.y = y
                        THEN [cells |-> A \cup {d}, next |-> r + d.w]
                        ELSE [cells |-> A, next |-> r + 1]
    BY <2>1, <2>2, <2>5, <2>6 DEF Cover
  <2>8. ASSUME NEW c \in AllCells, c.y = y, c.x = k PROVE c = d
    <3>1. CellAt(c.x, c.y) = c
      BY CellBounds
    <3> QED
      BY <2>1, <2>8, <3>1
  <2>9. \A c \in AllCells : c.x \in Nat
    BY CellBounds DEF IsCell
  <2>10. \A c \in AllCells : c.x < k + 1 <=> c.x < k \/ c.x = k
    BY <2>2, <2>9
  <2>11. d.y = y /\ d.x = k => B = A \cup {d}
    BY <2>2, <2>3, <2>6, <2>8, <2>10
  <2>12. ~ (d.y = y /\ d.x = k) => B = A
    <3>1. B = {c \in AllCells : c.y = y /\ c.x < k + 1} /\ A = {c \in AllCells : c.y = y /\ c.x < k}
      BY <2>3
    <3> HIDE DEF Part
    <3> QED
      BY <2>8, <2>10, <3>1
  <2>13. Same(k + 1) <=> h[k + 1] = [cells |-> B, next |-> q]
    BY <2>1, <2>3
  <2> HIDE DEF Same, Part
  <2>14. CASE d.y # y
    <3>1. r = k /\ q = k + 1
      BY <2>1, <2>14, ReachIs
    <3> QED
      BY <2>7, <2>12, <2>13, <2>14, <3>1
  <2>15. CASE d.y = y /\ d.x = k
    <3>1. r = k /\ q = k + d.w
      BY <2>1, <2>15, ReachIs
    <3> QED
      BY <2>7, <2>11, <2>13, <2>15, <3>1
  <2>16. CASE d.y = y /\ d.x # k
    <3>1. r = d.x + d.w /\ q = d.x + d.w /\ k < d.x + d.w
      BY <2>1, <2>16, ReachIs
    <3>2. r # k
      <4>1. d.x \in Nat /\ d.w \in Nat
        BY <2>6, CellBounds DEF IsCell
      <4> QED
        BY <2>2, <3>1, <4>1
    <3> QED
      BY <2>7, <2>12, <2>13, <2>16, <3>1, <3>2
  <2> QED
    BY <2>14, <2>15, <2>16
<1>5. Same(width)
  <2> HIDE DEF Same
  <2> SUFFICES ASSUME ~Same(width) PROVE FALSE
    OBVIOUS
  <2>1. PICK k \in Fails : \A j \in Fails : k <= j
    <3>1. Fails \in SUBSET Nat /\ Fails # {}
      BY <1>2
    <3> HIDE DEF Fails
    <3> QED
      BY <3>1, LeastNumber
  <2>2. k \in Nat /\ k <= width /\ ~Same(k) /\ k # 0
    BY <1>3, <2>1
  <2>3. PICK j : j = k - 1
    OBVIOUS
  <2>4. j \in 0 .. width - 1 /\ j \in Nat /\ j <= width /\ ~ (k <= j) /\ k = j + 1
    BY <1>2, <2>2, <2>3
  <2>5. Same(j)
    BY <2>1, <2>4
  <2> QED
    BY <1>4, <2>2, <2>4, <2>5
<1>6. HtmlRow(y) = Part(width)
  <2> HIDE DEF Part
  <2> QED
    BY <1>1, <1>5
<1>7. \A c \in AllCells : c.x < width
  <2> SUFFICES ASSUME NEW c \in AllCells PROVE c.x < width
    OBVIOUS
  <2>1. c.x \in 0 .. width - 1
    BY CellBounds
  <2> QED
    BY <1>2, <2>1
<1> QED
  BY <1>6, <1>7

(* The greatest of finitely many numbers.                                        *)
LEMMA GreatestOfThem ==
  ASSUME NEW S \in SUBSET Nat, IsFiniteSet(S), S # {}
  PROVE  Max(S) \in S /\ \A x \in S : x <= Max(S)
<1> DEFINE f == [x \in S |-> x]
<1>1. \A x \in S : f[x] \in Nat /\ f[x] = x
  OBVIOUS
<1> HIDE DEF f
<1>2. PICK n : n = SumOver(f, S)
  OBVIOUS
<1>3. n \in Nat
  BY <1>1, <1>2, SumType
<1>4. ASSUME NEW x \in S PROVE x \in 0 .. n
  <2>1. n = f[x] + SumOver(f, S \ {x})
    BY <1>1, <1>2, SumSplit
  <2>2. IsFiniteSet(S \ {x}) /\ \A z \in S \ {x} : f[z] \in Nat
    BY <1>1, FS_Subset
  <2>3. SumOver(f, S \ {x}) \in Nat
    BY <2>2, SumType
  <2>4. f[x] = x /\ x \in Nat
    BY <1>1
  <2> QED
    BY <1>3, <2>1, <2>3, <2>4
<1>5. \E x \in S : \A z \in S : z <= x
  BY <1>3, <1>4, GreatestNumber
<1>6. \E x \in S : \A z \in S : x >= z
  BY <1>5
<1> QED
  BY <1>6 DEF Max

(* Widths at least as great as others.                                           *)
Widens(width, u, w) == \A x \in 0 .. width - 1 : u[x] <= w[x]

(* Where columns are wider so are cells.                                      *)
LEMMA TotalGrows ==
  ASSUME NEW width, NEW height, Filled(width, height), NEW c \in AllCells,
         NEW u \in WidthsOf(width), NEW w \in WidthsOf(width), Widens(width, u, w)
  PROVE  Total(u, c) <= Total(w, c)
<1>1. /\ c.x \in Nat /\ c.w \in Nat /\ c.w > 0 /\ c.x + c.w <= width /\ width \in Nat
  BY CellBounds DEF IsCell, Filled
<1>2. PICK a, b : a = c.x /\ b = c.x + c.w - 1
  OBVIOUS
<1>3. a \in Int /\ b \in Int /\ a >= 0 /\ b < width
  BY <1>1, <1>2
<1>4. \A i \in a .. b : u[i] \in Nat /\ w[i] \in Nat /\ u[i] <= w[i]
  BY <1>1, <1>3 DEF WidthsOf, Widens
<1>5. IsFiniteSet(a .. b)
  BY <1>3, IntervalFinite
<1>6. SumOver(u, a .. b) <= SumOver(w, a .. b)
  BY <1>4, <1>5, SumMonotone
<1>7. /\ Total(u, c) = SumOver(u, a .. b) + 3 * (c.w - 1)
      /\ Total(w, c) = SumOver(w, a .. b) + 3 * (c.w - 1)
      /\ SumOver(u, a .. b) \in Nat /\ SumOver(w, a .. b) \in Nat
  BY <1>2, TotalIs
<1>8. PICK p, q, m : p = SumOver(u, a .. b) /\ q = SumOver(w, a .. b) /\ m = c.w
  OBVIOUS
<1> QED
  BY <1>1, <1>6, <1>7, <1>8

(* A cell over several columns has its first widened until its text fits.          *)
LEMMA WidenFits ==
  ASSUME NEW width, NEW height, Filled(width, height),
         NEW u \in WidthsOf(width), NEW x \in 0 .. width - 1, NEW y \in 0 .. height - 1,
         NEW c, c = CellAt(x, y)
  PROVE  /\ Widen(u, x, y) \in WidthsOf(width)
         /\ Widens(width, u, Widen(u, x, y))
         /\ c.x = x /\ c.w > 1 => c.text <= Total(Widen(u, x, y), c)
<1>1. Taken(cellMap, x, y) /\ c \in AllCells /\ IsCell(c) /\ c.w > 0
  BY CellThere
<1>2. width \in Nat /\ x \in Nat /\ c.x \in Nat /\ c.w \in Nat /\ c.text \in Nat
  BY <1>1 DEF Filled, IsCell
<1>3. \A i \in 0 .. width - 1 : u[i] \in Nat
  BY DEF WidthsOf
<1>4. CASE ~ (c.x = x /\ c.w > 1)
  <2>1. Widen(u, x, y) = u
    BY <1>4 DEF Widen
  <2>2. Widens(width, u, u)
    BY <1>3 DEF Widens
  <2> QED
    BY <1>4, <2>1, <2>2
<1>5. CASE c.x = x /\ c.w > 1
  <2>1. PICK t, d : t = Total(u, c) /\ d = Larger(0, c.text - t)
    OBVIOUS
  <2>2. t \in Nat
    BY <1>1, <2>1, TotalIs
  <2>3. d \in Nat /\ c.text <= t + d
    BY <1>2, <2>1, <2>2 DEF Larger
  <2>4. PICK w : w = Widen(u, x, y)
    OBVIOUS
  <2>5. w = [u EXCEPT ![x] = u[x] + d]
    BY <1>1, <1>5, <2>1, <2>4, Zenon DEF Widen
  <2>6. u \in [0 .. width - 1 -> Nat]
    BY DEF WidthsOf
  <2>7. u[x] + d \in Nat
    BY <1>3, <2>3
  <2>8. w \in [0 .. width - 1 -> Nat]
    BY <2>5, <2>6, <2>7
  <2>9. w[x] = u[x] + d /\ \A i \in 0 .. width - 1 : i # x => w[i] = u[i]
    BY <2>5, <2>6
  <2>10. Widens(width, u, w)
    <3> SUFFICES ASSUME NEW i \in 0 .. width - 1 PROVE u[i] <= w[i]
      BY DEF Widens
    <3>1. u[i] \in Nat
      BY <1>3
    <3> QED
      BY <2>3, <2>9, <3>1
  <2>11. PICK b : b = c.x + c.w - 1
    OBVIOUS
  <2>12. c.x + c.w <= width
    BY <1>1, CellBounds
  <2>13. x \in x .. b /\ \A i \in x .. b : i \in 0 .. width - 1
    BY <1>2, <1>5, <2>11, <2>12
  <2>14. SumOver(w, x .. b) = SumOver(u, x .. b) + d
    <3>1. IsFiniteSet(x .. b)
      <4>1. x \in Int /\ b \in Int
        BY <1>2, <2>11
      <4> QED
        BY <4>1, IntervalFinite
    <3>2. \A i \in x .. b : u[i] \in Nat
      BY <1>3, <2>13
    <3>3. \A i \in x .. b : i # x => w[i] = u[i]
      BY <2>9, <2>13
    <3> QED
      BY <2>3, <2>9, <2>13, <3>1, <3>2, <3>3, SumGrows
  <2>15. w \in WidthsOf(width)
    BY <2>8 DEF WidthsOf
  <2>16. /\ Total(w, c) = SumOver(w, x .. b) + 3 * (c.w - 1)
         /\ t = SumOver(u, x .. b) + 3 * (c.w - 1)
         /\ SumOver(u, x .. b) \in Nat
    BY <1>1, <1>5, <2>1, <2>11, <2>15, TotalIs
  <2>17. PICK r, q, m : r = SumOver(w, x .. b) /\ q = SumOver(u, x .. b) /\ m = c.w
    OBVIOUS
  <2>18. Total(w, c) = t + d
    BY <1>2, <2>3, <2>14, <2>16, <2>17
  <2> QED
    BY <2>3, <2>4, <2>10, <2>15, <2>18
<1> QED
  BY <1>4, <1>5

(* Steps that each widen.                                                       *)
LEMMA StepsWiden ==
  ASSUME NEW width, NEW n \in Nat, NEW h, h[0] \in WidthsOf(width),
         \A k \in 1 .. n : h[k - 1] \in WidthsOf(width) =>
           h[k] \in WidthsOf(width) /\ Widens(width, h[k - 1], h[k])
  PROVE  \A k \in 0 .. n : h[k] \in WidthsOf(width) /\ Widens(width, h[k], h[n])
<1> DEFINE Bad == {k \in Nat : k <= n /\ h[k] \notin WidthsOf(width)}
           Short == {m \in Nat : m <= n /\ ~ Widens(width, h[n - m], h[n])}
<1>1. \A k \in 0 .. n : h[k] \in WidthsOf(width)
  <2> SUFFICES ASSUME Bad # {} PROVE FALSE
    OBVIOUS
  <2>1. PICK k \in Bad : \A j \in Bad : k <= j
    <3>1. Bad \in SUBSET Nat
      OBVIOUS
    <3> HIDE DEF Bad
    <3> QED
      BY <3>1, LeastNumber
  <2>2. k \in Nat /\ k <= n /\ h[k] \notin WidthsOf(width) /\ k # 0
    BY <2>1
  <2>3. k \in 1 .. n /\ k - 1 \in Nat /\ k - 1 <= n /\ ~ (k <= k - 1)
    BY <2>2
  <2>4. h[k - 1] \in WidthsOf(width)
    BY <2>1, <2>3
  <2> QED
    BY <2>2, <2>3, <2>4
<1>2. \A k \in 0 .. n, x \in 0 .. width - 1 : h[k][x] \in Nat
  <2> SUFFICES ASSUME NEW k \in 0 .. n, NEW x \in 0 .. width - 1 PROVE h[k][x] \in Nat
    OBVIOUS
  <2>1. h[k] \in [0 .. width - 1 -> Nat]
    BY <1>1 DEF WidthsOf
  <2> QED
    BY <2>1
<1>3. ASSUME NEW m \in Nat, m <= n PROVE Widens(width, h[n - m], h[n])
  <2> SUFFICES ASSUME Short # {} PROVE FALSE
    BY <1>3
  <2>1. PICK k \in Short : \A j \in Short : k <= j
    <3>1. Short \in SUBSET Nat
      OBVIOUS
    <3> HIDE DEF Short
    <3> QED
      BY <3>1, LeastNumber
  <2>2. k \in Nat /\ k <= n /\ ~ Widens(width, h[n - k], h[n])
    BY <2>1
  <2>3. k # 0
    <3> SUFFICES ASSUME k = 0 PROVE FALSE
      OBVIOUS
    <3>1. n - k = n /\ n \in 0 .. n
      OBVIOUS
    <3>2. Widens(width, h[n], h[n])
      BY <1>2, <3>1 DEF Widens
    <3> QED
      BY <2>2, <3>1, <3>2
  <2>4. PICK i : i = n - k
    OBVIOUS
  <2>5. k - 1 \in Nat /\ k - 1 <= n /\ ~ (k <= k - 1) /\ n - (k - 1) = i + 1
        /\ i + 1 \in 1 .. n /\ (i + 1) - 1 = i /\ i \in 0 .. n /\ i + 1 \in 0 .. n /\ n \in 0 .. n
    BY <2>2, <2>3, <2>4
  <2>6. Widens(width, h[i + 1], h[n])
    BY <2>1, <2>5
  <2>7. Widens(width, h[i], h[i + 1])
    BY <1>1, <2>5
  <2>8. ASSUME NEW x \in 0 .. width - 1 PROVE h[i][x] <= h[n][x]
    <3>1. h[i][x] <= h[i + 1][x] /\ h[i + 1][x] <= h[n][x]
      BY <2>6, <2>7 DEF Widens
    <3>2. h[i][x] \in Nat /\ h[i + 1][x] \in Nat /\ h[n][x] \in Nat
      BY <1>2, <2>5
    <3> QED
      BY <3>1, <3>2
  <2>9. Widens(width, h[i], h[n])
    BY <2>8 DEF Widens
  <2> QED
    BY <2>2, <2>4, <2>9
<1>4. ASSUME NEW k \in 0 .. n PROVE Widens(width, h[k], h[n])
  <2>1. n - k \in Nat /\ n - k <= n /\ n - (n - k) = k
    OBVIOUS
  <2> QED
    BY <1>3, <2>1
<1> QED
  BY <1>1, <1>4

(* The texts of one column fit at first.                                      *)
LEMMA NarrowFits ==
  ASSUME NEW width, NEW height, Filled(width, height)
  PROVE  /\ NarrowWidths \in WidthsOf(width)
         /\ \A x \in 0 .. width - 1, y \in 0 .. height - 1 :
              CellAt(x, y).w = 1 => CellAt(x, y).text <= NarrowWidths[x]
<1>1. width \in Nat /\ height \in Nat /\ Columns = 0 .. width - 1 /\ Lines = 0 .. height - 1
  BY DEF Filled, Columns, Lines
<1> DEFINE L(x) == {l \in Lines : Taken(cellMap, x, l) /\ CellAt(x, l).w = 1}
           S(x) == {0} \cup {CellAt(x, y).text : y \in L(x)}
<1>2. ASSUME NEW x \in 0 .. width - 1
      PROVE  /\ Max(S(x)) \in Nat
             /\ \A y \in 0 .. height - 1 : CellAt(x, y).w = 1 => CellAt(x, y).text <= Max(S(x))
  <2> DEFINE f == [y \in L(x) |-> CellAt(x, y).text]
             T == {CellAt(x, y).text : y \in L(x)}
  <2>1. IsFiniteSet(L(x))
    <3>1. IsFiniteSet(0 .. height - 1)
      <4>1. 0 \in Int /\ height - 1 \in Int
        BY <1>1
      <4> QED
        BY <4>1, IntervalFinite
    <3>2. L(x) \in SUBSET (0 .. height - 1)
      BY <1>1
    <3> QED
      BY <3>1, <3>2, FS_Subset
  <2>2. f \in [L(x) -> T] /\ \A t \in T : \E y \in L(x) : f[y] = t
    <3> HIDE DEF L
    <3> QED
      OBVIOUS
  <2>3. T \in SUBSET Nat
    <3>1. ASSUME NEW y \in L(x) PROVE CellAt(x, y).text \in Nat
      <4>1. y \in 0 .. height - 1
        BY <1>1
      <4> QED
        BY <4>1, CellThere DEF IsCell
    <3> HIDE DEF L
    <3> QED
      BY <3>1
  <2>4. IsFiniteSet(T)
    <3> HIDE DEF L, T, f
    <3>1. f \in Surjection(L(x), T)
      BY <2>2 DEF Surjection
    <3> QED
      BY <2>1, <3>1, FS_Surjection
  <2>5. S(x) = {0} \cup T
    OBVIOUS
  <2>6. ASSUME NEW y \in 0 .. height - 1, CellAt(x, y).w = 1 PROVE CellAt(x, y).text \in S(x)
    <3>1. y \in L(x)
      BY <1>1, <2>6, CellThere
    <3> HIDE DEF L
    <3> QED
      BY <3>1
  <2> HIDE DEF S, T, L, f
  <2>7. S(x) \in SUBSET Nat /\ S(x) # {} /\ IsFiniteSet(S(x))
    <3>1. IsFiniteSet({0})
      BY FS_Singleton
    <3>2. IsFiniteSet({0} \cup T)
      BY <2>4, <3>1, FS_Union
    <3> QED
      BY <2>3, <2>5, <3>2
  <2>8. Max(S(x)) \in S(x) /\ \A z \in S(x) : z <= Max(S(x))
    BY <2>7, GreatestOfThem
  <2> QED
    BY <2>6, <2>7, <2>8
<1>3. NarrowWidths = [x \in 0 .. width - 1 |-> Max(S(x))]
  BY <1>1 DEF NarrowWidths
<1> HIDE DEF S
<1>4. NarrowWidths \in [0 .. width - 1 -> Nat]
  BY <1>2, <1>3
<1> QED
  BY <1>2, <1>3, <1>4 DEF WidthsOf

-----------------------------------------------------------------------------
(* One column widened for each of its lines.                                     *)
WidenAll(widths, x) ==
  FoldLeft(LAMBDA w, y : Widen(w, x, y - 1), widths, [i \in 1 .. extent.y |-> i])

(* A column is widened line by line.                                          *)
LEMMA LineSteps ==
  ASSUME NEW width, NEW height, Filled(width, height),
         NEW u \in WidthsOf(width), NEW x \in 0 .. width - 1
  PROVE  \E h : /\ h[0] = u
                /\ \A k \in 1 .. height : h[k] = Widen(h[k - 1], x, k - 1)
                /\ WidenAll(u, x) = h[height]
<1> DEFINE n == height
           T == WidthsOf(width)
           step == [p \in T \X (1 .. n) |-> Widen(p[1], x, p[2] - 1)]
           seq == [i \in 1 .. n |-> i]
           Rule(g) == g = [s \in SUBSET (1 .. n) |->
                             IF s = {} THEN u ELSE Widen(g[s \ {Max(s)}], x, seq[Max(s)] - 1)]
<1>1. n \in Nat /\ extent.y = n
  BY DEF Filled
<1>2. step \in [T \X (1 .. n) -> T]
  <2>1. ASSUME NEW p \in T \X (1 .. n) PROVE Widen(p[1], x, p[2] - 1) \in T
    <3>1. p[1] \in T /\ p[2] \in 1 .. n
      OBVIOUS
    <3>2. p[2] - 1 \in 0 .. height - 1
      BY <1>1, <3>1
    <3> HIDE DEF T
    <3> QED
      BY <3>1, <3>2, WidenFits DEF T
  <2> QED
    BY <2>1
<1>3. \A t \in T, i \in 1 .. n : step[<<t, i>>] = Widen(t, x, i - 1)
  OBVIOUS
<1>4. u \in T
  OBVIOUS
<1>5. \A i \in 1 .. n : seq[i] = i
  OBVIOUS
<1> HIDE DEF T, step, n, seq
<1>6. PICK g \in [SUBSET (1 .. n) -> T] :
        \A s \in SUBSET (1 .. n) :
          g[s] = IF s = {} THEN u ELSE step[<<g[s \ {Max(s)}], Max(s)>>]
  <2>1. Foldable(n, T, u, step)
    BY <1>1, <1>2, <1>4, FoldExists
  <2> QED
    BY <2>1 DEF Foldable
<1>7. \A s \in SUBSET (1 .. n) : s # {} => Max(s) \in 1 .. n
  BY <1>1, MaxIsIn
<1>8. Rule(g)
  <2>1. ASSUME NEW s \in SUBSET (1 .. n)
        PROVE  g[s] = IF s = {} THEN u ELSE Widen(g[s \ {Max(s)}], x, seq[Max(s)] - 1)
    <3>1. s # {} => g[s \ {Max(s)}] \in T /\ Max(s) \in 1 .. n
      BY <1>6, <1>7
    <3> QED
      BY <1>3, <1>5, <1>6, <3>1
  <2> QED
    BY <1>6, <2>1
<1>9. WidenAll(u, x) = (CHOOSE f : Rule(f))[1 .. n]
  BY <1>1 DEF WidenAll, FoldLeft, MapThenFoldSet, seq
<1> DEFINE iter == CHOOSE f : Rule(f)
<1>10. \A s \in SUBSET (1 .. n) :
        iter[s] = IF s = {} THEN u ELSE Widen(iter[s \ {Max(s)}], x, seq[Max(s)] - 1)
  <2>1. Rule(iter)
    <3> HIDE DEF Rule
    <3> QED
      BY <1>8
  <2> HIDE DEF iter
  <2> QED
    BY <2>1
<1> HIDE DEF iter, Rule
<1> DEFINE h == [k \in 0 .. n |-> iter[1 .. k]]
<1>11. h[0] = u
  <2>1. 1 .. 0 = {} /\ {} \in SUBSET (1 .. n) /\ 0 \in 0 .. n
    BY <1>1
  <2> QED
    BY <1>10, <2>1
<1>12. ASSUME NEW k \in 1 .. n
       PROVE  h[k] = Widen(h[k - 1], x, k - 1)
  <2>1. 1 .. k \in SUBSET (1 .. n) /\ 1 .. k # {} /\ (1 .. k) \ {k} = 1 .. k - 1
    BY <1>1
  <2>2. Max(1 .. k) = k
    BY <1>1 DEF Max
  <2>3. k \in 0 .. n /\ k - 1 \in 0 .. n
    BY <1>1
  <2> QED
    BY <1>5, <1>10, <2>1, <2>2, <2>3
<1>13. WidenAll(u, x) = h[n]
  BY <1>1, <1>9 DEF iter
<1> HIDE DEF h
<1> QED
  BY <1>11, <1>12, <1>13 DEF n

(* A column once widened has the texts of all cells that begin there fit.     *)
LEMMA ColumnFits ==
  ASSUME NEW width, NEW height, Filled(width, height),
         NEW u \in WidthsOf(width), NEW x \in 0 .. width - 1
  PROVE  /\ WidenAll(u, x) \in WidthsOf(width)
         /\ Widens(width, u, WidenAll(u, x))
         /\ \A c \in AllCells : c.x = x /\ c.w > 1 => c.text <= Total(WidenAll(u, x), c)
<1>1. PICK h : /\ h[0] = u
               /\ \A k \in 1 .. height : h[k] = Widen(h[k - 1], x, k - 1)
               /\ WidenAll(u, x) = h[height]
  BY LineSteps
<1>2. height \in Nat
  BY DEF Filled
<1>3. \A k \in 1 .. height : k - 1 \in 0 .. height - 1 /\ k - 1 \in 0 .. height
  BY <1>2
<1>4. \A k \in 1 .. height : h[k - 1] \in WidthsOf(width) =>
        h[k] \in WidthsOf(width) /\ Widens(width, h[k - 1], h[k])
  BY <1>1, <1>3, WidenFits
<1>5. \A k \in 0 .. height : h[k] \in WidthsOf(width) /\ Widens(width, h[k], h[height])
  BY <1>1, <1>2, <1>4, StepsWiden
<1>6. ASSUME NEW c \in AllCells, c.x = x, c.w > 1 PROVE c.text <= Total(h[height], c)
  <2>1. PICK y, k : y = c.y /\ k = y + 1
    OBVIOUS
  <2>2. y \in 0 .. height - 1 /\ CellAt(x, y) = c /\ c.text \in Nat
    BY <1>6, <2>1, CellBounds DEF IsCell
  <2>3. k \in 1 .. height /\ k - 1 = y /\ k \in 0 .. height /\ height \in 0 .. height
    BY <1>2, <2>1, <2>2
  <2>4. h[k] = Widen(h[k - 1], x, y) /\ h[k - 1] \in WidthsOf(width) /\ h[k] \in WidthsOf(width)
        /\ Widens(width, h[k], h[height]) /\ h[height] \in WidthsOf(width)
    BY <1>1, <1>3, <1>5, <2>3
  <2>5. c.text <= Total(h[k], c)
    BY <1>6, <2>2, <2>4, WidenFits
  <2>6. Total(h[k], c) <= Total(h[height], c)
    BY <2>4, TotalGrows
  <2>7. Total(h[k], c) \in Nat /\ Total(h[height], c) \in Nat
    BY <2>4, TotalIs
  <2> QED
    BY <2>2, <2>5, <2>6, <2>7
<1>7. 0 \in 0 .. height /\ height \in 0 .. height
  BY <1>2
<1> QED
  BY <1>1, <1>5, <1>6, <1>7

(* The columns are widened one after another.                                 *)
LEMMA ColumnSteps ==
  ASSUME NEW width, NEW height, Filled(width, height)
  PROVE  \E h : /\ h[0] = NarrowWidths
                /\ \A k \in 1 .. width : h[k] = WidenAll(h[k - 1], k - 1)
                /\ ColumnWidths = h[width]
<1> DEFINE n == width
           T == WidthsOf(width)
           step == [p \in T \X (1 .. n) |-> WidenAll(p[1], p[2] - 1)]
           seq == [i \in 1 .. n |-> i]
           Rule(g) == g = [s \in SUBSET (1 .. n) |->
                             IF s = {} THEN NarrowWidths
                             ELSE WidenAll(g[s \ {Max(s)}], seq[Max(s)] - 1)]
<1>1. n \in Nat /\ extent.x = n
  BY DEF Filled
<1>2. step \in [T \X (1 .. n) -> T]
  <2>1. ASSUME NEW p \in T \X (1 .. n) PROVE WidenAll(p[1], p[2] - 1) \in T
    <3>1. p[1] \in T /\ p[2] \in 1 .. n
      OBVIOUS
    <3>2. p[2] - 1 \in 0 .. width - 1
      BY <1>1, <3>1
    <3> HIDE DEF T
    <3> QED
      BY <3>1, <3>2, ColumnFits DEF T
  <2> QED
    BY <2>1
<1>3. \A t \in T, i \in 1 .. n : step[<<t, i>>] = WidenAll(t, i - 1)
  OBVIOUS
<1>4. NarrowWidths \in T
  BY NarrowFits
<1>5. \A i \in 1 .. n : seq[i] = i
  OBVIOUS
<1> HIDE DEF T, step, n, seq
<1>6. PICK g \in [SUBSET (1 .. n) -> T] :
        \A s \in SUBSET (1 .. n) :
          g[s] = IF s = {} THEN NarrowWidths ELSE step[<<g[s \ {Max(s)}], Max(s)>>]
  <2>1. Foldable(n, T, NarrowWidths, step)
    BY <1>1, <1>2, <1>4, FoldExists
  <2> QED
    BY <2>1 DEF Foldable
<1>7. \A s \in SUBSET (1 .. n) : s # {} => Max(s) \in 1 .. n
  BY <1>1, MaxIsIn
<1>8. Rule(g)
  <2>1. ASSUME NEW s \in SUBSET (1 .. n)
        PROVE  g[s] = IF s = {} THEN NarrowWidths
                      ELSE WidenAll(g[s \ {Max(s)}], seq[Max(s)] - 1)
    <3>1. s # {} => g[s \ {Max(s)}] \in T /\ Max(s) \in 1 .. n
      BY <1>6, <1>7
    <3> QED
      BY <1>3, <1>5, <1>6, <3>1
  <2> QED
    BY <1>6, <2>1
<1>9. ColumnWidths = (CHOOSE f : Rule(f))[1 .. n]
  <2>1. ColumnWidths = FoldLeft(LAMBDA w, x : WidenAll(w, x - 1), NarrowWidths, seq)
    BY <1>1 DEF ColumnWidths, WidenAll, seq
  <2> QED
    BY <1>1, <2>1 DEF FoldLeft, MapThenFoldSet, seq
<1>0. ASSUME NEW k \in 1 .. n
      PROVE  /\ k \in 0 .. n /\ k - 1 \in 0 .. n
             /\ 1 .. k \in SUBSET (1 .. n) /\ 1 .. k # {} /\ (1 .. k) \ {k} = 1 .. k - 1
  <2>1. n \in Nat
    BY <1>1
  <2>2. k \in 0 .. n /\ k - 1 \in 0 .. n
    BY <2>1
  <2>3. k \in Nat /\ k >= 1 /\ k <= n
    BY <2>1
  <2>4. 1 .. k \in SUBSET (1 .. n)
    BY <2>1, <2>3
  <2>5. 1 .. k # {}
    BY <2>3
  <2>6. (1 .. k) \ {k} = 1 .. k - 1
    BY <2>3
  <2> QED
    BY <2>2, <2>4, <2>5, <2>6
<1> DEFINE iter == CHOOSE f : Rule(f)
<1>10. \A s \in SUBSET (1 .. n) :
        iter[s] = IF s = {} THEN NarrowWidths
                  ELSE WidenAll(iter[s \ {Max(s)}], seq[Max(s)] - 1)
  <2>1. Rule(iter)
    <3> HIDE DEF Rule
    <3> QED
      BY <1>8
  <2> HIDE DEF iter
  <2> QED
    BY <2>1
<1> HIDE DEF iter, Rule
<1> DEFINE h == [k \in 0 .. n |-> iter[1 .. k]]
<1>11. h[0] = NarrowWidths
  <2>1. 1 .. 0 = {} /\ {} \in SUBSET (1 .. n) /\ 0 \in 0 .. n
    BY <1>1
  <2> QED
    BY <1>10, <2>1
<1>12. ASSUME NEW k \in 1 .. n
       PROVE  h[k] = WidenAll(h[k - 1], k - 1)
  <2>1. 1 .. k \in SUBSET (1 .. n) /\ 1 .. k # {} /\ (1 .. k) \ {k} = 1 .. k - 1
    BY <1>0
  <2>2. Max(1 .. k) = k
    BY <1>1 DEF Max
  <2>3. k \in 0 .. n /\ k - 1 \in 0 .. n
    BY <1>0
  <2> QED
    BY <1>5, <1>10, <2>1, <2>2, <2>3
<1>13. ColumnWidths = h[n]
  BY <1>1, <1>9 DEF iter
<1> HIDE DEF h
<1> QED
  BY <1>11, <1>12, <1>13 DEF n

(* Every text fits in the columns of its cell.                                    *)
LEMMA TextsFit ==
  ASSUME NEW width, NEW height, Filled(width, height)
  PROVE  /\ ColumnWidths \in WidthsOf(width)
         /\ \A c \in AllCells : c.text <= Total(ColumnWidths, c)
<1>1. PICK h : /\ h[0] = NarrowWidths
               /\ \A k \in 1 .. width : h[k] = WidenAll(h[k - 1], k - 1)
               /\ ColumnWidths = h[width]
  BY ColumnSteps
<1>2. width \in Nat
  BY DEF Filled
<1>3. \A k \in 1 .. width : k - 1 \in 0 .. width - 1 /\ k - 1 \in 0 .. width
  BY <1>2
<1>4. \A k \in 1 .. width : h[k - 1] \in WidthsOf(width) =>
        h[k] \in WidthsOf(width) /\ Widens(width, h[k - 1], h[k])
  BY <1>1, <1>3, ColumnFits
<1>5. \A k \in 0 .. width : h[k] \in WidthsOf(width) /\ Widens(width, h[k], h[width])
  <2>1. h[0] \in WidthsOf(width)
    BY <1>1, NarrowFits
  <2> QED
    BY <1>2, <1>4, <2>1, StepsWiden
<1>6. 0 \in 0 .. width /\ width \in 0 .. width
  BY <1>2
<1>7. ASSUME NEW c \in AllCells PROVE c.text <= Total(h[width], c)
  <2>1. PICK x, y, k : x = c.x /\ y = c.y /\ k = x + 1
    OBVIOUS
  <2>2. /\ x \in 0 .. width - 1 /\ y \in 0 .. height - 1 /\ CellAt(x, y) = c
        /\ c.text \in Nat /\ c.w \in Nat /\ c.w > 0
    BY <2>1, CellBounds DEF IsCell
  <2>3. k \in 1 .. width /\ k - 1 = x /\ k \in 0 .. width
    BY <1>2, <2>1, <2>2
  <2>4. CASE c.w > 1
    <3>1. h[k] = WidenAll(h[k - 1], x) /\ h[k - 1] \in WidthsOf(width)
          /\ h[k] \in WidthsOf(width) /\ Widens(width, h[k], h[width])
          /\ h[width] \in WidthsOf(width)
      BY <1>1, <1>3, <1>5, <1>6, <2>3
    <3>2. c.text <= Total(h[k], c)
      BY <2>1, <2>2, <2>4, <3>1, ColumnFits
    <3>3. Total(h[k], c) <= Total(h[width], c)
      BY <3>1, TotalGrows
    <3>4. Total(h[k], c) \in Nat /\ Total(h[width], c) \in Nat
      BY <3>1, TotalIs
    <3> QED
      BY <2>2, <3>2, <3>3, <3>4
  <2>5. CASE ~ (c.w > 1)
    <3>1. c.w = 1
      BY <2>2, <2>5
    <3>2. c.text <= h[0][x] /\ h[0][x] <= h[width][x]
      <4>1. c.text <= NarrowWidths[x]
        BY <2>2, <3>1, NarrowFits
      <4> QED
        BY <1>1, <1>5, <1>6, <2>2, <4>1 DEF Widens
    <3>3. h[0][x] \in Nat /\ h[width][x] \in Nat
      <4>1. h[0] \in [0 .. width - 1 -> Nat] /\ h[width] \in [0 .. width - 1 -> Nat]
        BY <1>5, <1>6 DEF WidthsOf
      <4> QED
        BY <2>2, <4>1
    <3>4. PICK b, w, m : b = c.x + c.w - 1 /\ w = h[width] /\ m = c.w - 1
      OBVIOUS
    <3>5. b = x /\ x \in Int /\ m = 0 /\ x - 1 \in Int /\ x - 1 < x
      BY <1>2, <2>1, <2>2, <3>1, <3>4
    <3>6. Total(w, c) = SumOver(w, x .. x) + 3 * m
      <4>1. w \in WidthsOf(width)
        BY <1>5, <1>6, <3>4
      <4>2. Total(w, c) = SumOver(w, c.x .. b) + 3 * m
        BY <3>4, <4>1, TotalIs
      <4> QED
        BY <2>1, <3>5, <4>2
    <3>7. SumOver(w, x .. x) = SumOver(w, x .. x - 1) + w[x]
      <4>1. \A i \in x .. x : w[i] \in Nat
        BY <3>3, <3>4, <3>5
      <4>2. x <= x /\ x \in Int
        BY <3>5
      <4> QED
        BY <4>1, <4>2, SumNext
    <3>8. SumOver(w, x .. x - 1) = 0
      BY <3>5, SumNone
    <3>9. PICK v, z : v = w[x] /\ z = h[0][x]
      OBVIOUS
    <3>10. Total(w, c) = v
      BY <3>3, <3>4, <3>5, <3>6, <3>7, <3>8, <3>9
    <3>11. c.text <= v
      BY <2>2, <3>2, <3>3, <3>4, <3>9
    <3> QED
      BY <3>4, <3>10, <3>11
  <2> QED
    BY <2>4, <2>5
<1> QED
  BY <1>1, <1>5, <1>6, <1>7

(* The volumes of the first hosts.                                               *)
LEMMA VolumesAre ==
  ASSUME NEW s, Shaped(s)
  PROVE  /\ Top(s, Len(s.hosts) + 1) = 3 + VolumesOf(s.hosts)
         /\ \A i \in 1 .. Len(s.hosts) :
              Top(s, i) = 3 + VolumesOf(SubSeq(s.hosts, 1, i - 1))
<1>1. PICK f, m : f = s.hosts /\ m = Len(f)
  OBVIOUS
<1>2. f \in Seq(Nat) /\ m \in Nat /\ DOMAIN f = 1 .. m /\ \A i \in 1 .. m : f[i] \in Nat
  BY <1>1 DEF Shaped
<1>3. \A e : VolumesOf(e) = SumOver(e, DOMAIN e)
  BY DEF VolumesOf, SumFunction, SumOver
<1>4. Top(s, m + 1) = 3 + VolumesOf(f)
  <2>1. (m + 1) - 1 = m
    BY <1>2
  <2> QED
    BY <1>1, <1>2, <1>3, <2>1 DEF Top
<1>5. ASSUME NEW i \in 1 .. m
      PROVE  Top(s, i) = 3 + VolumesOf(SubSeq(f, 1, i - 1))
  <2>1. PICK n, e : n = i - 1 /\ e = SubSeq(f, 1, n)
    OBVIOUS
  <2>2. n \in Nat /\ n \in Int /\ n < m /\ 1 \in Int
    BY <1>2, <2>1
  <2>3. \A j \in 1 .. n : f[j] \in Nat
    BY <1>2, <2>2
  <2>4. /\ e \in Seq(Nat) /\ Len(e) = IF 1 <= n THEN n - 1 + 1 ELSE 0
        /\ \A j \in 1 .. n - 1 + 1 : e[j] = f[1 + j - 1]
    BY <2>1, <2>2, <2>3, SubSeqProperties
  <2>5. Len(e) = n /\ DOMAIN e = 1 .. n
    BY <2>2, <2>4
  <2>6. \A j \in 1 .. n : e[j] = f[j]
    <3> SUFFICES ASSUME NEW j \in 1 .. n PROVE e[j] = f[j]
      OBVIOUS
    <3>1. j \in 1 .. n - 1 + 1 /\ 1 + j - 1 = j
      BY <2>2
    <3> QED
      BY <2>4, <3>1
  <2>7. IsFiniteSet(1 .. n)
    BY <2>2, IntervalFinite
  <2>8. SumOver(f, 1 .. n) = SumOver(e, 1 .. n)
    BY <2>3, <2>6, <2>7, SumSame
  <2>9. Top(s, i) = 3 + SumOver(f, 1 .. n)
    BY <1>1, <2>1 DEF Top
  <2> QED
    BY <1>3, <2>1, <2>5, <2>8, <2>9
<1> QED
  BY <1>1, <1>4, <1>5

(* The rows of a host with volumes are in the table.                             *)
LEMMA TopInside ==
  ASSUME NEW s, Shaped(s), NEW i \in DOMAIN s.hosts, s.hosts[i] > 0
  PROVE  Top(s, i) \in 0 .. Top(s, Len(s.hosts) + 1) - 1
<1>1. PICK f, m : f = s.hosts /\ m = Len(f)
  OBVIOUS
<1>2. f \in Seq(Nat) /\ m \in Nat /\ DOMAIN f = 1 .. m /\ \A j \in 1 .. m : f[j] \in Nat
  BY <1>1 DEF Shaped
<1>3. i \in 1 .. m /\ m \in 1 .. m /\ i \in 1 .. m + 1 /\ m + 1 \in 1 .. m + 1 /\ m \in 1 .. m + 1
  BY <1>1, <1>2
<1>4. PICK a, b, c : a = Top(s, i) /\ b = Top(s, m) /\ c = Top(s, m + 1)
  OBVIOUS
<1>5. a \in Nat /\ b \in Nat /\ c \in Nat
  BY <1>1, <1>3, <1>4, TopsGrow
<1>6. c = b + f[m] /\ f[m] \in Nat /\ f[i] \in Nat /\ f[i] > 0
  BY <1>1, <1>2, <1>3, <1>4, TopsGrow
<1>7. CASE i = m
  BY <1>1, <1>4, <1>5, <1>6, <1>7
<1>8. CASE i # m
  <2>1. i < m
    BY <1>2, <1>3, <1>8
  <2>2. a + f[i] <= b
    BY <1>1, <1>3, <1>4, <2>1, TopsGrow
  <2> QED
    BY <1>1, <1>4, <1>5, <1>6, <2>2
<1> QED
  BY <1>7, <1>8

-----------------------------------------------------------------------------
(* A summary that has all its cells.                                             *)
Ready(s, width, height) ==
  /\ Shaped(s) /\ shape = s
  /\ width = 5 + 3 * s.devices /\ height = Top(s, Len(s.hosts) + 1)
  /\ Filled(width, height)
  /\ \A p \in DOMAIN cellMap : Proper(s, cellMap[p])

(* After the last host the table has no gaps and its full extent.             *)
LEMMA EndIsReady ==
  ASSUME NEW s, Shaped(s), Stage7(s, Len(s.hosts) + 1)
  PROVE  \E width, height : Ready(s, width, height)
<1>1. PICK width, height, n, m :
        /\ width = Wide(s) /\ height = Top(s, m) /\ n = s.devices /\ m = Len(s.hosts) + 1
  OBVIOUS
<1>2. At(s, FromHost(s, m), 0, height, width, height, SkyRow(n, height))
  BY <1>1, Zenon DEF Stage7
<1>3. n \in Nat /\ width = 5 + 3 * n /\ width \in Nat /\ width > 0
  BY <1>1 DEF Shaped, Wide
<1>4. height \in Nat /\ height > 0
  <2>1. m \in 1 .. Len(s.hosts) + 1
    BY <1>1 DEF Shaped
  <2>2. height \in Nat /\ height >= 3
    BY <1>1, <2>1, TopsGrow
  <2> QED
    BY <2>2
<1>5. /\ shape = s /\ extent = [x |-> width, y |-> height]
      /\ Skyline(cellMap, width, SkyRow(n, height)) /\ Sound(s, cellMap)
  BY <1>1, <1>2 DEF At
<1>6. PICK D : D = SkyRow(n, height)
  OBVIOUS
<1>7. \A k \in 0 .. width - 1 : D[k] = height
  BY <1>3, <1>6 DEF SkyRow
<1>8. DOMAIN cellMap = (0 .. width - 1) \X (0 .. height - 1)
  <2>1. ASSUME NEW p \in DOMAIN cellMap PROVE p \in (0 .. width - 1) \X (0 .. height - 1)
    <3>1. /\ p = <<p[1], p[2]>>
          /\ p[1] \in 0 .. width - 1 /\ p[2] \in Nat /\ p[2] < D[p[1]]
      BY <1>5, <1>6 DEF Skyline
    <3>2. p[2] \in 0 .. height - 1
      BY <1>4, <1>7, <3>1
    <3> QED
      BY <3>1, <3>2
  <2>2. ASSUME NEW p \in (0 .. width - 1) \X (0 .. height - 1) PROVE p \in DOMAIN cellMap
    <3>1. PICK x \in 0 .. width - 1, y \in 0 .. height - 1 : p = <<x, y>>
      OBVIOUS
    <3>2. y \in Nat /\ y < D[x]
      BY <1>4, <1>7, <3>1
    <3>3. <<x, y>> \in DOMAIN cellMap
      BY <1>5, <1>6, <3>2 DEF Skyline
    <3> QED
      BY <3>1, <3>3
  <2> QED
    BY <2>1, <2>2
<1>9. Filled(width, height)
  BY <1>3, <1>4, <1>5, <1>8 DEF Filled, Sound
<1>10. Ready(s, width, height)
  BY <1>1, <1>3, <1>5, <1>9 DEF Ready, Sound
<1> QED
  BY <1>10

(* The cells of a table without gaps have the area of the table.              *)
LEMMA AreaIsAll ==
  ASSUME NEW width, NEW height, Filled(width, height)
  PROVE  Area(AllCells) = width * height
<1>1. width \in Nat /\ height \in Nat /\ 0 \in Int /\ width - 1 \in Int /\ height - 1 \in Int
  BY DEF Filled
<1>2. PICK X, Y : X = 0 .. width - 1 /\ Y = 0 .. height - 1
  OBVIOUS
<1>3. IsFiniteSet(X) /\ Cardinality(X) = width
  <2>1. IsFiniteSet(X) /\ Cardinality(X) = IF 0 > width - 1 THEN 0 ELSE width - 1 - 0 + 1
    BY <1>1, <1>2, FS_Interval
  <2> QED
    BY <1>1, <2>1
<1>4. IsFiniteSet(Y) /\ Cardinality(Y) = height
  <2>1. IsFiniteSet(Y) /\ Cardinality(Y) = IF 0 > height - 1 THEN 0 ELSE height - 1 - 0 + 1
    BY <1>1, <1>2, FS_Interval
  <2> QED
    BY <1>1, <2>1
<1>5. Cardinality(X \X Y) = width * height
  BY <1>3, <1>4, FS_Product, Zenon
<1>6. DOMAIN cellMap = X \X Y /\ Area(Range(cellMap)) = Cardinality(DOMAIN cellMap)
  BY <1>2 DEF Filled, Measured
<1> QED
  BY <1>5, <1>6, Zenon DEF AllCells

(* What is in a place is what it has to be.                                       *)
ProperAt(s, x, y) ==
  /\ x > 0 /\ y >= 3 => CellAt(x, y).h = 1
  /\ \A d \in 1 .. s.devices :
       x = 4 + 3 * (d - 1) /\ y = 1 =>
         CellAt(x, y).heading = TRUE /\ CellAt(x, y).w = 3 /\ CellAt(x, y).x = x
  /\ \A i \in DOMAIN s.hosts :
       s.hosts[i] > 0 /\ x = 0 /\ y = Top(s, i) =>
         CellAt(x, y).y = y /\ CellAt(x, y).h = s.hosts[i]

(* Each place of a complete summary has the cell that it should.              *)
LEMMA PlaceIsProper ==
  ASSUME NEW s, NEW width, NEW height, Ready(s, width, height),
         NEW x \in 0 .. width - 1, NEW y \in 0 .. height - 1
  PROVE  ProperAt(s, x, y)
<1>1. PICK c : c = CellAt(x, y)
  OBVIOUS
<1>2. Filled(width, height)
  BY DEF Ready
<1>3. x \in c.x .. c.x + c.w - 1 /\ y \in c.y .. c.y + c.h - 1 /\ Taken(cellMap, x, y)
  BY <1>1, <1>2, CellThere
<1>4. Proper(s, c)
  <2>1. <<x, y>> \in DOMAIN cellMap /\ c = cellMap[<<x, y>>]
    BY <1>1, <1>3 DEF Taken, CellAt
  <2> QED
    BY <2>1 DEF Ready
<1>5. <<x, y>> \in PlacesOf(c)
  BY <1>3, InPlaces
<1>6. x \in Nat /\ y \in Nat
  BY <1>2 DEF Filled
<1> QED
  BY <1>1, <1>4, <1>5, <1>6 DEF Proper, ProperAt

(* A complete summary is what a report is to have.                            *)
LEMMA ReadyIsSet ==
  ASSUME NEW s, NEW width, NEW height, Ready(s, width, height)
  PROVE  SummarySet
<1>1. Filled(width, height) /\ Shaped(s) /\ shape = s
  BY DEF Ready
<1>2. /\ width \in Nat /\ height \in Nat /\ width > 0 /\ height > 0
      /\ Columns = 0 .. width - 1 /\ Lines = 0 .. height - 1
      /\ DOMAIN cellMap = (0 .. width - 1) \X (0 .. height - 1)
      /\ extent.x = width /\ extent.y = height
  BY <1>1 DEF Filled, Columns, Lines
<1>3. PICK n : n = s.devices
  OBVIOUS
<1>4. n \in Nat /\ width = 5 + 3 * n
  BY <1>1, <1>3 DEF Ready, Shaped
<1>5. DOMAIN cellMap = Columns \X Lines
  BY <1>2
<1>6. Area(AllCells) = extent.x * extent.y
  BY <1>1, <1>2, AreaIsAll, Zenon
<1>7. extent.x = 5 + 3 * shape.devices
  BY <1>1, <1>2, <1>3, <1>4
<1>8. height = 3 + VolumesOf(s.hosts)
  BY <1>1, VolumesAre DEF Ready
<1>9. \A x \in Columns \ {0} : \A y \in Lines : y >= 3 => CellAt(x, y).h = 1
  <2> SUFFICES ASSUME NEW x \in Columns \ {0}, NEW y \in Lines, y >= 3
               PROVE  CellAt(x, y).h = 1
    OBVIOUS
  <2>1. x \in 0 .. width - 1 /\ y \in 0 .. height - 1 /\ x > 0
    BY <1>2
  <2>2. ProperAt(s, x, y)
    BY <2>1, PlaceIsProper
  <2> QED
    BY <2>1, <2>2 DEF ProperAt
<1>10. ASSUME NEW d \in 1 .. s.devices
       PROVE  LET c == CellAt(4 + 3 * (d - 1), 1)
              IN  c.heading /\ c.w = 3 /\ c.x = 4 + 3 * (d - 1)
  <2>1. PICK x, y : x = 4 + 3 * (d - 1) /\ y = 1
    OBVIOUS
  <2>2. d \in Nat /\ d >= 1 /\ d <= n
    BY <1>3, <1>4
  <2>3. x \in 0 .. width - 1
    BY <1>4, <2>1, <2>2
  <2>4. y \in 0 .. height - 1
    <3>1. 1 \in 1 .. Len(s.hosts) + 1 /\ Len(s.hosts) + 1 \in 1 .. Len(s.hosts) + 1
      BY <1>1 DEF Shaped
    <3>2. height >= 3
      BY <1>1, <3>1, TopsGrow DEF Ready
    <3> QED
      BY <1>2, <2>1, <3>2
  <2>5. ProperAt(s, x, y)
    BY <2>3, <2>4, PlaceIsProper
  <2>6. CellAt(x, y).heading = TRUE /\ CellAt(x, y).w = 3 /\ CellAt(x, y).x = x
    BY <2>1, <2>5, Zenon DEF ProperAt
  <2> QED
    BY <2>1, <2>6
<1>11. ASSUME NEW i \in DOMAIN s.hosts, s.hosts[i] > 0
       PROVE  LET first == 3 + VolumesOf(SubSeq(s.hosts, 1, i - 1))
              IN  CellAt(0, first).y = first /\ CellAt(0, first).h = s.hosts[i]
  <2>1. PICK x, y : x = 0 /\ y = Top(s, i)
    OBVIOUS
  <2>2. y = 3 + VolumesOf(SubSeq(s.hosts, 1, i - 1))
    <3>1. i \in 1 .. Len(s.hosts)
      BY <1>1 DEF Shaped
    <3> QED
      BY <1>1, <2>1, <3>1, VolumesAre
  <2>3. x \in 0 .. width - 1
    BY <1>2, <2>1
  <2>4. y \in 0 .. height - 1
    BY <1>1, <1>11, <2>1, TopInside DEF Ready
  <2>5. ProperAt(s, x, y)
    BY <2>3, <2>4, PlaceIsProper
  <2>6. CellAt(x, y).y = y /\ CellAt(x, y).h = s.hosts[i]
    BY <1>11, <2>1, <2>5, Zenon DEF ProperAt
  <2> QED
    BY <2>1, <2>2, <2>6
<1>12. ColumnWidths \in WidthsOf(width) /\ \A c \in AllCells : c.text <= Total(ColumnWidths, c)
  BY <1>1, TextsFit
<1>13. \A y \in Lines : LineLength(ColumnWidths, y) = LineLength(ColumnWidths, 0)
  <2> SUFFICES ASSUME NEW y \in Lines
               PROVE  LineLength(ColumnWidths, y) = LineLength(ColumnWidths, 0)
    OBVIOUS
  <2>1. PICK w : w = ColumnWidths
    OBVIOUS
  <2>2. y \in 0 .. height - 1 /\ 0 \in 0 .. height - 1 /\ w \in WidthsOf(width)
    BY <1>2, <1>12, <2>1
  <2>3. LineLength(w, y)
          = SumOver([x \in 0 .. width - 1 |-> Margin(x) + w[x]], 0 .. width - 1) + 1
    BY <1>1, <2>2, LinesAlike
  <2>4. LineLength(w, 0)
          = SumOver([x \in 0 .. width - 1 |-> Margin(x) + w[x]], 0 .. width - 1) + 1
    BY <1>1, <2>2, LinesAlike
  <2> QED
    BY <2>1, <2>3, <2>4
<1>14. \A y \in Lines : HtmlRow(y) = {c \in AllCells : c.y = y}
  BY <1>1, <1>2, RowIsCells
<1> QED
  BY <1>1, <1>2, <1>5, <1>6, <1>7, <1>8, <1>9, <1>10, <1>11, <1>12, <1>13, <1>14, Zenon
  DEF SummarySet

Drawing == \E s : Shaped(s) /\ Drawn(s)

(* The table before its first cell.                                           *)
LEMMA NothingDrawn ==
  /\ DOMAIN <<>> = {} /\ Range(<<>>) = {} /\ Area({}) = 0
  /\ IsFiniteSet({}) /\ Cardinality({}) = 0
BY AreaOfNone, FS_EmptySet DEF Range

(* At first nothing is drawn and all is left.                                 *)
LEMMA DrawingInit == TableInit => Drawing
<1> SUFFICES ASSUME TableInit PROVE Drawing
  OBVIOUS
<1>1. PICK s : s = shape
  OBVIOUS
<1>2. Shaped(s)
  BY <1>1, TableAssumption DEF TableInit, Shaped
<1>3. PICK map, n, width, D :
        /\ map = cellMap /\ n = s.devices /\ width = Wide(s) /\ D = SkyFirst(n, 0)
  OBVIOUS
<1>4. n \in Nat /\ width = 5 + 3 * n /\ width \in Nat
  BY <1>2, <1>3 DEF Shaped, Wide
<1>5. /\ map = <<>> /\ added = 0
      /\ cursor = [x |-> 0, y |-> 0] /\ extent = [x |-> 0, y |-> 0]
      /\ texts.length \in Nat
  <2>1. \E j \in 1 .. CellCount(shape), k \in Columned(shape), l \in Lengths :
          texts = [cells |-> {j, k}, length |-> l]
    BY DEF TableInit
  <2> QED
    BY <1>3, <2>1, TableAssumption DEF TableInit
<1>6. Left(s, 0, InFirst(s, 4))
  <2>1. PICK R : R = InFirst(s, 4)
    OBVIOUS
  <2>2. R \in Seq(Items)
    BY <1>2, <2>1, RestTypes
  <2>3. SummaryCells[s] = R
    BY <1>2, <2>1, AllOfIt
  <2>4. PICK X : X = Items
    OBVIOUS
  <2>5. <<>> \in Seq(X) /\ Len(<<>>) = 0 /\ <<>> \o R = R
    BY <2>2, <2>4, ConcatEmptySeq
  <2>6. \E P \in Seq(Items) : Len(P) = 0 /\ SummaryCells[s] = P \o R
    BY <2>3, <2>4, <2>5
  <2> QED
    BY <2>1, <2>2, <2>6 DEF Left
<1>7. Skyline(map, width, D)
  <2>1. D = [k \in 0 .. 4 + 3 * n |-> IF k < 0 THEN 3 ELSE 0]
    BY <1>3 DEF SkyFirst
  <2>2. D \in [0 .. width - 1 -> Nat] /\ \A k \in 0 .. width - 1 : D[k] = 0
    BY <1>4, <2>1
  <2>3. DOMAIN map = {}
    BY <1>5
  <2> QED
    BY <1>4, <2>2, <2>3 DEF Skyline
<1>8. Sound(s, map)
  <2>1. DOMAIN map = {} /\ Range(map) = {}
    BY <1>5, NothingDrawn
  <2>2. Tiled(map) /\ Measured(map)
    BY <2>1, NothingDrawn DEF Tiled, Measured
  <2> QED
    BY <2>1, <2>2 DEF Sound
<1>9. At(s, InFirst(s, 4), 0, 0, 0, 0, D)
  BY <1>1, <1>3, <1>5, <1>6, <1>7, <1>8 DEF At
<1>10. Stage1(s, 0)
  <2>1. 4 - 0 = 4
    OBVIOUS
  <2> QED
    BY <1>3, <1>9, <2>1 DEF Stage1
<1>11. Drawn(s)
  <2>1. 0 \in 0 .. 4
    OBVIOUS
  <2> QED
    BY <1>10, <2>1 DEF Drawn
<1> QED
  BY <1>2, <1>11 DEF Drawing

(* Whatever is done, the table is at one of the places.                       *)
LEMMA DrawingNext == Drawing /\ [TableNext]_table => Drawing'
<1> SUFFICES ASSUME Drawing, [TableNext]_table PROVE Drawing'
  OBVIOUS
<1>1. PICK s : Shaped(s) /\ Drawn(s)
  BY DEF Drawing
<1>2. CASE TableNext
  <2>1. Drawn(s)'
    BY <1>1, <1>2, DrawnNext
  <2> QED
    BY <1>1, <2>1 DEF Drawing
<1>3. CASE UNCHANGED table
  <2>1. /\ shape' = shape /\ texts' = texts /\ added' = added /\ cursor' = cursor
        /\ extent' = extent /\ cellMap' = cellMap
    BY <1>3 DEF table
  <2>2. Drawn(s)'
    BY <1>1, <2>1 DEF Drawn, Stage1, Stage2, Stage3, Stage4, Stage5, Stage6, Stage7, Stage8, At
  <2> QED
    BY <1>1, <2>2 DEF Drawing
<1> QED
  BY <1>2, <1>3

(* And at the last of them it is complete.                                    *)
LEMMA DrawingSet == Drawing => SummarySet
<1> SUFFICES ASSUME Drawing PROVE SummarySet
  OBVIOUS
<1>1. PICK s : Shaped(s) /\ Drawn(s)
  BY DEF Drawing
<1>2. CASE added = CellCount(shape)
  <2>1. Stage7(s, Len(s.hosts) + 1)
    BY <1>1, <1>2, DrawnAtLast
  <2>2. PICK width, height : Ready(s, width, height)
    BY <1>1, <2>1, EndIsReady
  <2> QED
    BY <2>2, ReadyIsSet
<1>3. CASE added # CellCount(shape)
  BY <1>3 DEF SummarySet
<1> QED
  BY <1>2, <1>3

(* Whatever devices and volumes a configuration has and however long the      *)
(* texts of its summary are, the finished table covers each place once,       *)
(* with each volume in its row and each device under its heading; the         *)
(* texts fit in their columns, the lines of the text rendering are of one     *)
(* length, and each row of the HTML has its cells.                            *)
THEOREM SummariesSet == TableSpec => []SummarySet
<1>1. TableInit => Drawing
  BY DrawingInit
<1>2. Drawing /\ [TableNext]_table => Drawing'
  BY DrawingNext
<1>3. Drawing => SummarySet
  BY DrawingSet
<1> QED
  BY <1>1, <1>2, <1>3, PTL DEF TableSpec

=============================================================================

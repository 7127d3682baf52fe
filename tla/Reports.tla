------------------------------- MODULE Reports -------------------------------
(***************************************************************************)
(* What rsbackup says of its records: the records that Conf::readState() loads, *)
(* in whatever order the database returns them, and the statistics of volumes  *)
(* that backups and prunings of the same run keep up to date (Conf.cc,          *)
(* Volume.cc, Backup.cc), the report made of them (Report.cc, CompressTable.h), *)
(* --latest (Latest.cc) and --check-unexpected (CheckBackups.cc).               *)
(*                                                                         *)
(* A record has the second of its backup for its id, and its log is a sequence  *)
(* of lines. Days are counted as Dates says they should be.                   *)
(***************************************************************************)
EXTENDS Integers, Sequences, FiniteSets, SequencesExt

CONSTANTS
  DeviceNames,  \* the names of devices, in their order
  KnownVolumes,     \* <<host, volume>>, as configured
  FirstRows,        \* what the database may hold at first
  AtFirst,     \* the most rows that it holds
  MaxAge,      \* max-age, in days
  DaySeconds,      \* seconds in a day
  ReportAge,   \* the days of prune-logs
  Since,       \* the clock at first
  LastSecond,  \* and its bound
  MaxChanges   \* the bound of backups, prunings and runs after the first

KnownDevices == ToSet(DeviceNames)
KnownHosts == {v[1] : v \in KnownVolumes}

Incomplete == {"UNKNOWN", "UNDERWAY", "FAILED"}

(* What the records hold.                                                    *)
RecordType ==
  [host : {r.host : r \in FirstRows} \cup KnownHosts,
   device : {r.device : r \in FirstRows} \cup KnownDevices,
   volume : {r.volume : r \in FirstRows} \cup {v[2] : v \in KnownVolumes},
   time : 1 .. LastSecond, pruned : 0 .. LastSecond,
   status : Incomplete \cup {"COMPLETE", "PRUNING", "PRUNED"},
   contents : {r.contents : r \in FirstRows}
              \cup {<<>>, <<"1M">>, <<"text", "2M">>, <<"text">>, <<"policy">>, <<"status">>}]

ASSUME ReportAssumption ==
  /\ DeviceNames \in Seq(KnownDevices) /\ IsInjective(DeviceNames) /\ DeviceNames # <<>>
  /\ IsFiniteSet(KnownVolumes) /\ IsFiniteSet(FirstRows)
  /\ KnownVolumes \subseteq KnownHosts \X {v[2] : v \in KnownVolumes}
  /\ FirstRows \subseteq RecordType
  /\ DaySeconds \in Nat \ {0} /\ MaxAge \in Nat /\ ReportAge \in Nat
  /\ Since \in 1 .. LastSecond /\ LastSecond \in Nat
  /\ MaxChanges \in Nat /\ AtFirst \in Nat

VARIABLES
  clock,              \* the time
  rows,             \* the table "backup"
  unread,           \* what SELECT has still to return
  loading,          \* "no", "reading", or "done": logsRead
  backups,          \* Volume::backups
  statistics,       \* Volume::completed, oldest, newest and perDevice
  unknownDevices, unknownHosts, unknownVolumes,
  underway,         \* the record of the backup being made
  changes           \* how many there were

mem == <<backups, statistics, unknownDevices, unknownHosts, unknownVolumes>>
records == <<clock, rows, unread, loading, mem, underway, changes>>

-----------------------------------------------------------------------------
(* Backup::getSize(): the total that rsync has logged.                        *)
GetSize(log) ==
  IF \E i \in DOMAIN log : log[i] \notin {"text", "policy", "status"}
  THEN log[CHOOSE i \in DOMAIN log : log[i] \notin {"text", "policy", "status"}]
  ELSE "unknown"

First(B) == CHOOSE b \in B : \A c \in B : b.time <= c.time
Newest(B) == CHOOSE b \in B : \A c \in B : c.time <= b.time
Done(B) == {b \in B : b.status = "COMPLETE"}
On(B, d) == {b \in B : b.device = d}

NoStatistics ==
  [completed |-> 0, oldest |-> 0, newest |-> 0, perDevice |-> [d \in {} |-> 0]]

(* Volume::calculate(). Without complete backups oldest and newest stay as they *)
(* were.                                                                    *)
Calculate(old, B) ==
  LET done == Done(B)
      figures(S) == [count |-> Cardinality(S), oldest |-> First(S).time,
                     newest |-> Newest(S).time, size |-> GetSize(Newest(S).contents)]
  IN  [completed |-> Cardinality(done),
       oldest |-> IF done = {} THEN old.oldest ELSE First(done).time,
       newest |-> IF done = {} THEN old.newest ELSE Newest(done).time,
       perDevice |-> [d \in {b.device : b \in done} |-> figures(On(done, d))]]

Keep(v, B) ==
  /\ backups' = [backups EXCEPT ![v] = B]
  /\ statistics' = [statistics EXCEPT ![v] = Calculate(statistics[v], B)]

(* Backups of a volume are told apart by time and device only.                *)
SamePlace(b, c) == b.time = c.time /\ b.device = c.device

Insert(v, b) ==
  IF \E c \in backups[v] : SamePlace(b, c)
  THEN UNCHANGED <<backups, statistics>>
  ELSE Keep(v, backups[v] \cup {b})

VolumeOf(r) == <<r.host, r.volume>>

RecordsInit ==
  /\ clock = Since
  /\ rows \in SUBSET FirstRows /\ Cardinality(rows) <= AtFirst
  /\ \A r, s \in rows : SamePlace(r, s) /\ VolumeOf(r) = VolumeOf(s) => r = s
  /\ unread = {} /\ loading = "no"
  /\ backups = [v \in KnownVolumes |-> {}]
  /\ statistics = [v \in KnownVolumes |-> NoStatistics]
  /\ unknownDevices = {} /\ unknownHosts = {} /\ unknownVolumes = {}
  /\ underway = {} /\ changes = 0

-----------------------------------------------------------------------------
(* Conf::readState(), when the first command or the report needs it.           *)
StartReading ==
  /\ loading = "no"
  /\ loading' = "reading" /\ unread' = rows
  /\ UNCHANGED <<clock, rows, mem, underway, changes>>

(* Conf::addBackup(): a record of an unknown device is not asked for its host.  *)
AddBackup(r) ==
  \/ r.status = "PRUNED" /\ UNCHANGED mem
  \/ /\ r.status # "PRUNED" /\ r.device \notin KnownDevices
     /\ unknownDevices' = unknownDevices \cup {r.device}
     /\ UNCHANGED <<backups, statistics, unknownHosts, unknownVolumes>>
  \/ /\ r.status # "PRUNED" /\ r.device \in KnownDevices /\ r.host \notin KnownHosts
     /\ unknownHosts' = unknownHosts \cup {<<r.host, r.device>>}
     /\ UNCHANGED <<backups, statistics, unknownDevices, unknownVolumes>>
  \/ /\ r.status # "PRUNED" /\ r.device \in KnownDevices
     /\ r.host \in KnownHosts /\ VolumeOf(r) \notin KnownVolumes
     /\ unknownVolumes' = unknownVolumes \cup {<<r.host, r.volume, r.device>>}
     /\ UNCHANGED <<backups, statistics, unknownDevices, unknownHosts>>
  \/ /\ r.status # "PRUNED" /\ r.device \in KnownDevices /\ VolumeOf(r) \in KnownVolumes
     /\ Insert(VolumeOf(r), r)
     /\ UNCHANGED <<unknownDevices, unknownHosts, unknownVolumes>>

ReadRow(r) ==
  /\ loading = "reading" /\ r \in unread
  /\ AddBackup(r)
  /\ unread' = unread \ {r}
  /\ UNCHANGED <<clock, rows, loading, underway, changes>>

ReadingEnds ==
  /\ loading = "reading" /\ unread = {}
  /\ loading' = "done"
  /\ UNCHANGED <<clock, rows, unread, mem, underway, changes>>

-----------------------------------------------------------------------------
(* MakeBackup::performBackup(): a row first, the volume and the row when rsync   *)
(* has ended. No two backups to a device begin in one second.                 *)
BackupBegins(v, d) ==
  /\ loading = "done" /\ underway = {} /\ changes < MaxChanges
  /\ LET r == [host |-> v[1], volume |-> v[2], device |-> d, time |-> clock,
               status |-> "UNDERWAY", contents |-> <<>>, pruned |-> 0]
     IN  /\ \A s \in rows : VolumeOf(s) = v => ~SamePlace(r, s)
         /\ rows' = rows \cup {r}
         /\ underway' = {r}
  /\ changes' = changes + 1
  /\ UNCHANGED <<clock, unread, loading, mem>>

BackupEnds(status, log) ==
  /\ underway # {}
  /\ LET r == CHOOSE s \in underway : TRUE
         outcome == [r EXCEPT !.status = status, !.contents = log]
     IN  /\ Insert(VolumeOf(r), outcome)
         /\ rows' = (rows \ {r}) \cup {outcome}
  /\ underway' = {}
  /\ UNCHANGED <<clock, unread, loading, unknownDevices, unknownHosts, unknownVolumes, changes>>

ToPrune(b) ==
  [b EXCEPT !.status = "PRUNING", !.pruned = clock,
            !.contents = IF b.status = "COMPLETE" THEN <<"policy">> ELSE <<"status">>]

(* Faulty: the status is set behind the back of the volume.                    *)
MarkQuietly(B) ==
  /\ loading = "done" /\ underway = {}
  /\ B # {} /\ \A b \in B : b.status # "PRUNING"
  /\ changes < MaxChanges /\ changes' = changes + 1
  /\ rows' = (rows \ B) \cup {ToPrune(b) : b \in B}
  /\ backups' = [v \in KnownVolumes |-> (backups[v] \ B) \cup {ToPrune(b) : b \in backups[v] \cap B}]
  /\ UNCHANGED <<clock, unread, loading, statistics, unknownDevices, unknownHosts,
                 unknownVolumes, underway>>

(* markObsoleteBackups(): what the policies or --prune-incomplete have chosen.  *)
(* setStatus() has each volume calculate again.                               *)
MarkObsolete(B) ==
  /\ loading = "done" /\ underway = {}
  /\ B # {} /\ \A b \in B : b.status # "PRUNING"
  /\ changes < MaxChanges /\ changes' = changes + 1
  /\ rows' = (rows \ B) \cup {ToPrune(b) : b \in B}
  /\ LET after(v) == (backups[v] \ B) \cup {ToPrune(b) : b \in backups[v] \cap B}
     IN  /\ backups' = [v \in KnownVolumes |-> after(v)]
         /\ statistics' = [v \in KnownVolumes |->
              IF backups[v] \cap B = {} THEN statistics[v]
              ELSE Calculate(statistics[v], after(v))]
  /\ UNCHANGED <<clock, unread, loading, unknownDevices, unknownHosts, unknownVolumes,
                 underway>>

(* RemovableBackup::completed(), the tree being gone.                         *)
Removed(b) ==
  /\ loading = "done" /\ underway = {} /\ b.status = "PRUNING"
  /\ changes < MaxChanges /\ changes' = changes + 1
  /\ rows' = (rows \ {b}) \cup {[b EXCEPT !.status = "PRUNED", !.pruned = clock]}
  /\ Keep(VolumeOf(b), backups[VolumeOf(b)] \ {b})
  /\ UNCHANGED <<clock, unread, loading, unknownDevices, unknownHosts, unknownVolumes,
                 underway>>

(* The run is over, of itself or not, and another will read what it has left. A  *)
(* run that ends while it reads has changed nothing.                          *)
NextRun ==
  /\ loading = "done" /\ changes < MaxChanges /\ changes' = changes + 1
  /\ loading' = "no" /\ unread' = {} /\ underway' = {}
  /\ backups' = [v \in KnownVolumes |-> {}]
  /\ statistics' = [v \in KnownVolumes |-> NoStatistics]
  /\ unknownDevices' = {} /\ unknownHosts' = {} /\ unknownVolumes' = {}
  /\ UNCHANGED <<clock, rows>>

(* Nothing looks at the clock while the records are read.                     *)
Elapse ==
  /\ loading = "done" /\ clock < LastSecond /\ clock' = clock + 1
  /\ UNCHANGED <<rows, unread, loading, mem, underway, changes>>

RecordsNext ==
  \/ StartReading \/ ReadingEnds \/ NextRun \/ Elapse
  \/ \E r \in unread : ReadRow(r)
  \/ \E v \in KnownVolumes, d \in KnownDevices : BackupBegins(v, d)
  \/ \E log \in {<<>>, <<"1M">>, <<"text", "2M">>} : BackupEnds("COMPLETE", log)
  \/ BackupEnds("FAILED", <<"text">>)
  \/ \E B \in SUBSET UNION {backups[v] : v \in KnownVolumes} : MarkObsolete(B)
  \/ \E v \in KnownVolumes : \E b \in backups[v] : Removed(b)

RecordsSpec == RecordsInit /\ [][RecordsNext]_records

-----------------------------------------------------------------------------
(* Report::compute()                                                         *)
DayOf(t) == t \div DaySeconds
PerDevice(v) == statistics[v].perDevice
DevicesUsed(v) == KnownDevices \cap DOMAIN PerDevice(v)
Fresh(v, d) == DayOf(clock) - DayOf(PerDevice(v)[d].newest) <= MaxAge
OutOfDate(v) == \A d \in DevicesUsed(v) : ~Fresh(v, d)

BackupsMissing == {v \in KnownVolumes : DevicesUsed(v) = {}}
BackupsPartial == {v \in KnownVolumes : DevicesUsed(v) \notin {{}, KnownDevices}}
BackupsOutOfDate == {v \in KnownVolumes : DevicesUsed(v) = KnownDevices /\ OutOfDate(v)}

(* Report::warningCount(). backups_failed is never counted, because only        *)
(* complete backups are looked at.                                            *)
WarningCount ==
  Cardinality(unknownDevices) + Cardinality(unknownHosts) + Cardinality(unknownVolumes)
  + Cardinality({S \in {<<"missing", BackupsMissing>>, <<"partial", BackupsPartial>>,
                        <<"stale", BackupsOutOfDate>>} : S[2] # {}})

(* Report::section(): the condition that a section of the report may have.      *)
Shown(condition) == condition = "warnings" => WarningCount > 0

(* The subject of the mail names what is not 0.                               *)
Subject ==
  {c \in {<<"missing", Cardinality(BackupsMissing)>>, <<"partial", Cardinality(BackupsPartial)>>,
          <<"stale", Cardinality(BackupsOutOfDate)>>,
          <<"unknown", Cardinality(unknownDevices) + Cardinality(unknownHosts)
                       + Cardinality(unknownVolumes)>>} : c[2] # 0}

(* Report::summary(), a row: the oldest backup, their number, and for each       *)
(* device the day of the newest, whether it is too old, their number and size.  *)
SummaryOf(v, d) ==
  IF d \in DevicesUsed(v)
  THEN [newest |-> DayOf(PerDevice(v)[d].newest), bad |-> ~Fresh(v, d),
        count |-> PerDevice(v)[d].count, size |-> PerDevice(v)[d].size]
  ELSE [newest |-> "none", bad |-> TRUE, count |-> 0, size |-> "unknown"]

Summary(v) ==
  [oldest |-> IF statistics[v].oldest # 0 THEN DayOf(statistics[v].oldest) ELSE "none",
   total |-> statistics[v].completed,
   bad |-> \E d \in KnownDevices : d \notin DOMAIN PerDevice(v),
   on |-> [d \in KnownDevices |-> SummaryOf(v, d)]]

(* Volume::mostRecentBackup() and mostRecentFailedBackup()                    *)
MostRecent(B, b) == b \in B /\ b = Newest(On(B, b.device))
Failures(v) == {b \in backups[v] : b.status \in Incomplete}

(* Report::suitableLog()                                                     *)
Verbosities == {"all", "errors", "recent", "latest", "failed"}

SuitableLog(v, b, verbosity) ==
  /\ b.contents # <<>>
  /\ \/ verbosity = "all"
     \/ verbosity = "errors" /\ b.status # "COMPLETE"
     \/ verbosity = "recent" /\ MostRecent(Failures(v), b)
     \/ verbosity = "latest" /\ MostRecent(backups[v], b)
     \/ verbosity = "failed" /\ b.status \in Incomplete /\ MostRecent(backups[v], b)

Logs(v, verbosity) == {b \in backups[v] : SuitableLog(v, b, verbosity)}

(* findLatest(): the last in the order of backups, which is by time and then by  *)
(* the name of the device, among the complete ones on the given devices.       *)
Earlier(b, c) ==
  \/ b.time < c.time
  \/ /\ b.time = c.time
     /\ \E i, j \in DOMAIN DeviceNames :
          i < j /\ DeviceNames[i] = b.device /\ DeviceNames[j] = c.device

Latest(v, present) ==
  LET found == {b \in Done(backups[v]) : b.device \in present}
  IN  {b \in found : \A c \in found : b = c \/ Earlier(c, b)}

(* checkUnexpected(): the trees and markers of a volume that a device may hold.  *)
ExpectedTrees(v, d) == {b.time : b \in On(backups[v], d)}
ExpectedMarkers(v, d) == {b.time : b \in On(backups[v], d) \ Done(backups[v])}

-----------------------------------------------------------------------------
(* Report::pruneLogs() and CompressTable.h: a row for each backup that has been  *)
(* condemned of late, the latest first, each cell with the values that rows     *)
(* differing in no other cell have there.                                     *)
PruneRow(r) == <<{DayOf(r.time)}, {DayOf(r.pruned)}, {r.host}, {r.volume}, {r.device}, {r.contents}>>

PrunedLately ==
  {r \in rows : r.status \in {"PRUNING", "PRUNED"} /\ r.pruned >= clock - DaySeconds * ReportAge}

(* Faulty: it merges rows that differ in two cells.                            *)
MergeableIfAlike(a, b) == Cardinality({i \in DOMAIN a : a[i] # b[i]}) <= 2

Mergeable(a, b) == Cardinality({i \in DOMAIN a : a[i] # b[i]}) <= 1
Merge(a, b) == [i \in DOMAIN a |-> a[i] \cup b[i]]

CompressOnce(table) ==
  LET take(done, r) ==
        IF done # <<>> /\ Mergeable(Last(done), r)
        THEN Append(Front(done), Merge(Last(done), r))
        ELSE Append(done, r)
  IN  FoldLeft(take, <<>>, table)

(* As often as it changes anything, and each time it has fewer rows.            *)
Compress(table) == FoldLeft(LAMBDA t, r : CompressOnce(t), table, table)

(* The orders in which the database may return them.                          *)
PruneOrders ==
  {[i \in DOMAIN s |-> PruneRow(s[i])] :
     s \in {t \in SetToSeqs(PrunedLately) :
            \A i \in 1 .. Len(t) - 1 : t[i].pruned >= t[i + 1].pruned}}

-----------------------------------------------------------------------------
(* A report can be made.                                                     *)
Reporting == loading = "done" /\ underway = {}

(* What the database has, of what is configured; and what is not.              *)
Kept == {r \in rows : r.status # "PRUNED"}
Of(v) == {r \in Kept : VolumeOf(r) = v /\ r.device \in KnownDevices}
Recent(B) == {b \in B : DayOf(clock) - DayOf(b.time) <= MaxAge}

NothingUnknown ==
  \A r \in Kept : r.device \in KnownDevices /\ VolumeOf(r) \in KnownVolumes

(* A report made at the end of a run of backups and prunings says what one made   *)
(* by another run from the database would say: each volume is missing, partial  *)
(* or out of date as the records have it, its row of the summary counts them,    *)
(* the logs are those that the verbosity asks for, --latest finds the newest     *)
(* complete backup on the devices at hand, --check-unexpected expects exactly   *)
(* the trees with a record, and there are no warnings, and no word of them in    *)
(* the subject, if and only if every volume has a backup on every device, one     *)
(* of them recent, and nothing is unknown. What "Oldest" says of a volume         *)
(* without backups is left out: it may be the day of one that is pruned.        *)
VolumeReported(v) ==
  LET done == Done(Of(v))
      lacking == {d \in KnownDevices : On(done, d) = {}}
  IN  /\ v \in BackupsMissing <=> done = {}
      /\ v \in BackupsPartial <=> done # {} /\ lacking # {}
      /\ v \in BackupsOutOfDate <=> lacking = {} /\ Recent(done) = {}
      /\ Summary(v).total = Cardinality(done)
      /\ done # {} =>
           \E b \in done : Summary(v).oldest = DayOf(b.time) /\ \A c \in done : b.time <= c.time
      /\ Summary(v).bad <=> lacking # {}
      /\ \A d \in KnownDevices :
           /\ Summary(v).on[d].count = Cardinality(On(done, d))
           /\ Summary(v).on[d].bad <=> Recent(On(done, d)) = {}
           /\ d \notin lacking =>
                \E b \in On(done, d) :
                  /\ \A c \in On(done, d) : c.time <= b.time
                  /\ Summary(v).on[d].newest = DayOf(b.time)
                  /\ Summary(v).on[d].size = GetSize(b.contents)

LogsReported(v) ==
  \A b \in Of(v) :
    LET after == {c \in On(Of(v), b.device) : c.time > b.time}
        failed == b.status \in Incomplete
    IN  \A verbosity \in Verbosities :
          b \in Logs(v, verbosity) <=>
            /\ b.contents # <<>>
            /\ verbosity = "errors" => b.status # "COMPLETE"
            /\ verbosity = "recent" =>
                 failed /\ \A c \in after : c.status \notin Incomplete
            /\ verbosity \in {"latest", "failed"} => after = {}
            /\ verbosity = "failed" => failed

PathsReported(v) ==
  /\ \A present \in SUBSET KnownDevices :
       LET found == {b \in Done(Of(v)) : b.device \in present}
       IN  /\ Latest(v, present) \subseteq found
           /\ found # {} => Cardinality(Latest(v, present)) = 1
           /\ \A b \in found, c \in Latest(v, present) : b.time <= c.time
  /\ \A d \in KnownDevices :
       /\ ExpectedTrees(v, d) = {r.time : r \in On(Of(v), d)}
       /\ ExpectedMarkers(v, d) = {r.time : r \in {s \in On(Of(v), d) : s.status # "COMPLETE"}}

ReportRight ==
  Reporting =>
    /\ rows \subseteq RecordType
    /\ \A v \in KnownVolumes : VolumeReported(v) /\ LogsReported(v) /\ PathsReported(v)
    /\ unknownDevices = {r.device : r \in Kept} \ KnownDevices
    /\ Shown("warnings") <=> Subject # {}
    /\ Subject = {} <=>
         /\ NothingUnknown
         /\ \A v \in KnownVolumes :
              /\ \A d \in KnownDevices : On(Done(Of(v)), d) # {}
              /\ Recent(Done(Of(v))) # {}

(* The compressed table of prunings says exactly what its rows said, whatever   *)
(* their order among those of one second, and no two neighbours in it are left  *)
(* that could be merged.                                                     *)
Said(table) ==
  UNION {{<<a, b, c, d, e, f>> :
            a \in table[i][1], b \in table[i][2], c \in table[i][3],
            d \in table[i][4], e \in table[i][5], f \in table[i][6]} : i \in DOMAIN table}

PruneTableExact ==
  \A table \in PruneOrders :
    /\ Said(Compress(table)) = Said(table)
    /\ \A i \in 1 .. Len(Compress(table)) - 1 :
         ~Mergeable(Compress(table)[i], Compress(table)[i + 1])

=============================================================================

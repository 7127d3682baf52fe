--------------------------- MODULE BackupLifecycle ---------------------------
(***************************************************************************)
(* The backups of a volume through runs of rsbackup: made (MakeBackup.cc),  *)
(* pruned (Prune.cc), retired (RetireVolumes.cc, RetireDevices.cc).  What    *)
(* lasts is the database row, the tree and the .incomplete marker of each;  *)
(* a run can be killed between any two of the changes it makes to them, and  *)
(* another program can have the database locked at any of them.             *)
(***************************************************************************)
EXTENDS Naturals

CONSTANTS
  Backup,     \* the backups ever attempted: each has its device and its time
  Device,     \* globalConfig.devices
  DeviceOf,   \* Backup::deviceName
  Nothing,    \* no backup
  CommandLines, \* the sets of commands rsbackup is run with
  TimeLimit,  \* whether prune-timeout is set
  MaxTrouble  \* bound: crashes, locked databases, failed removals, lost disks

Retirements == {"retire", "forget", "retireDevice"}

Prunings == {"prune", "pruneIncomplete"}

(* Command::parse() refuses to back up and retire in one run.               *)
ASSUME LifecycleAssumption ==
  /\ \A line \in CommandLines :
       /\ line \subseteq {"backup"} \cup Retirements \cup Prunings
       /\ \/ line \cap Retirements = {}
          \/ "backup" \notin line /\ \E r \in Retirements :
                                      line \cap Retirements = {r}
  /\ DeviceOf \in [Backup -> Device]
  /\ Nothing \notin Backup
  /\ TimeLimit \in BOOLEAN
  /\ MaxTrouble \in Nat

VARIABLES
  db,       \* Backup::status in the database, committed
  open,     \* the connection has a transaction open
  tree,     \* what is in the backup's directory
  marker,   \* the backups with a .incomplete file
  mem,      \* Volume::backups
  loaded,   \* Conf::logsRead
  online,   \* the devices whose store is found
  command,  \* the parts of the command line not yet executed
  pc,       \* where the run is
  cur,      \* the backup being made
  removal,  \* the state of the removal of each backup in this run
  orphans,  \* backups that an rm no run waits for is removing
  ended,    \* how the latest run ended
  tried,    \* history: the backups attempted
  retired,  \* history: the backups retired
  trouble   \* how much has gone wrong

durable == <<db, tree, marker>>

history == <<tried, retired>>

vars == <<durable, open, mem, loaded, online, command, pc, cur, removal,
          orphans, ended, history, trouble>>

Status ==
  {"absent", "UNDERWAY", "COMPLETE", "FAILED", "PRUNING", "PRUNED"}

TypeOK ==
  /\ db \in [Backup -> Status]
  /\ open \in BOOLEAN
  /\ tree \in [Backup -> {"none", "partial", "full"}]
  /\ marker \subseteq Backup
  /\ mem \in [Backup -> Status \ {"PRUNED"}]
  /\ loaded \in BOOLEAN
  /\ online \subseteq Device
  /\ command \subseteq {"backup", "logs"} \cup Retirements \cup Prunings
  /\ pc \in {"off", "main", "volume", "mark", "mkdir", "rsync", "unmark",
             "record", "flag", "remove", "erase", "forget"}
  /\ cur \in Backup \cup {Nothing}
  /\ removal \in [Backup -> {"no", "flagging", "queued", "removing", "removed",
                             "unmarked", "failed"}]
  /\ orphans \subseteq Backup
  /\ ended \in {"running", "exit", "killed", "busy", "transaction"}
  /\ tried \subseteq Backup
  /\ retired \subseteq Backup
  /\ trouble \in 0..MaxTrouble

Init ==
  /\ db = [b \in Backup |-> "absent"]
  /\ open = FALSE
  /\ tree = [b \in Backup |-> "none"]
  /\ marker = {}
  /\ mem = [b \in Backup |-> "absent"]
  /\ loaded = FALSE
  /\ online = {}
  /\ command = {}
  /\ pc = "off"
  /\ cur = Nothing
  /\ removal = [b \in Backup |-> "no"]
  /\ orphans = {}
  /\ ended = "exit"
  /\ tried = {}
  /\ retired = {}
  /\ trouble = 0

-----------------------------------------------------------------------------
(* Something goes wrong that need not.                                      *)
Trouble ==
  /\ trouble < MaxTrouble
  /\ trouble' = trouble + 1

(* The rows readState() keeps: it drops those that are PRUNED.               *)
Rows == [b \in Backup |-> IF db[b] = "PRUNED" THEN "absent" ELSE db[b]]

(* The process is gone: what it had in memory, and a transaction it had not  *)
(* committed.  "running" removals go on without it unless it was killed.    *)
End(how) ==
  /\ pc' = "off"
  /\ ended' = how
  /\ open' = FALSE
  /\ mem' = [b \in Backup |-> "absent"]
  /\ loaded' = FALSE
  /\ command' = {}
  /\ cur' = Nothing
  /\ removal' = [b \in Backup |-> "no"]

Running == {b \in Backup : removal[b] = "removing"}

(* The session or the machine goes down, with the commands it was running.   *)
Crash ==
  /\ pc # "off" \/ orphans # {}
  /\ Trouble
  /\ End("killed")
  /\ orphans' = {}
  /\ UNCHANGED <<durable, online, history>>

(* A statement finds the database locked: DatabaseBusy goes up to main(), or *)
(* out of a thread. An rm that is running is not waited for.                *)
Busy ==
  /\ Trouble
  /\ End("busy")
  /\ orphans' = orphans \cup Running
  /\ UNCHANGED <<durable, online, history>>

OrphanEnds(b) ==
  /\ b \in orphans
  /\ orphans' = orphans \ {b}
  /\ tree' = [tree EXCEPT ![b] = "none"]
  /\ UNCHANGED <<db, open, marker, mem, loaded, online, command, pc, cur,
                 removal, ended, history, trouble>>

(* main() with a command line, and the stores it will find.                  *)
StartRun(line, stores) ==
  /\ pc = "off"
  /\ IF stores = Device THEN UNCHANGED trouble ELSE Trouble
  /\ command' = line
  /\ online' = stores
  /\ pc' = "main"
  /\ ended' = "running"
  /\ UNCHANGED <<durable, open, mem, loaded, cur, removal, orphans, history>>

FinishRun ==
  /\ pc = "main"
  /\ command = {}
  /\ End("exit")
  /\ UNCHANGED <<durable, online, orphans, history, trouble>>

(* Where the run goes next, when nothing else of it changes.                 *)
Goto(place) ==
  /\ pc' = place
  /\ UNCHANGED <<open, loaded, online, command, orphans, ended, history>>

-----------------------------------------------------------------------------
(* makeBackups() reads the state, and the volume's thread goes round.        *)
MakeBackups ==
  /\ pc = "main"
  /\ "backup" \in command
  /\ mem' = Rows
  /\ loaded' = TRUE
  /\ command' = command \ {"backup"}
  /\ pc' = "volume"
  /\ UNCHANGED <<durable, open, online, cur, removal, orphans, ended, history,
                 trouble>>

LeaveVolumes ==
  /\ pc = "volume"
  /\ Goto("main")
  /\ UNCHANGED <<durable, mem, cur, removal, trouble>>

(* performBackup(): a row says that the backup is underway, first of all.     *)
StartBackup(b) ==
  /\ pc = "volume"
  /\ b \notin tried
  /\ DeviceOf[b] \in online
  /\ \/ /\ tried' = tried \cup {b}
        /\ db' = [db EXCEPT ![b] = "UNDERWAY"]
        /\ cur' = b
        /\ pc' = "mark"
        /\ UNCHANGED <<tree, marker, open, mem, loaded, online, command, removal,
                       orphans, ended, retired, trouble>>
     \/ Busy

(* The backup has an outcome: it joins the volume's backups, and the database *)
(* is to know.                                                              *)
Attach(outcome) ==
  /\ mem' = [mem EXCEPT ![cur] = outcome]
  /\ Goto("record")
  /\ UNCHANGED <<db, cur, removal>>

(* BeforeBackup::go(): the marker before the directory.                      *)
Mark ==
  /\ pc = "mark"
  /\ marker' = marker \cup {cur}
  /\ Goto("mkdir")
  /\ UNCHANGED <<db, tree, mem, cur, removal, trouble>>

MakeDirectory ==
  /\ pc = "mkdir"
  /\ tree' = [tree EXCEPT ![cur] = "partial"]
  /\ Goto("rsync")
  /\ UNCHANGED <<db, marker, mem, cur, removal, trouble>>

BeforeBackupFails ==
  /\ pc \in {"mark", "mkdir"}
  /\ Trouble
  /\ Attach("FAILED")
  /\ UNCHANGED <<tree, marker>>

RsyncSucceeds ==
  /\ pc = "rsync"
  /\ tree' = [tree EXCEPT ![cur] = "full"]
  /\ Goto("unmark")
  /\ UNCHANGED <<db, marker, mem, cur, removal, trouble>>

RsyncFails ==
  /\ pc = "rsync"
  /\ Attach("FAILED")
  /\ UNCHANGED <<tree, marker, trouble>>

(* The marker goes only when rsync has succeeded.                           *)
Unmark ==
  /\ pc = "unmark"
  /\ marker' = marker \ {cur}
  /\ Attach("COMPLETE")
  /\ UNCHANGED <<tree, trouble>>

(* Faulty: a marker that cannot be removed is left alone.                    *)
UnmarkFailureIgnored ==
  /\ pc = "unmark"
  /\ Trouble
  /\ Attach("COMPLETE")
  /\ UNCHANGED <<tree, marker>>

(* Removing the marker, or the .nolink file after it, fails: so does the      *)
(* backup.                                                                  *)
UnmarkFails ==
  /\ pc = "unmark"
  /\ Trouble
  /\ \E m \in {marker, marker \ {cur}} : marker' = m
  /\ Attach("FAILED")
  /\ UNCHANGED tree

(* The loop that records the outcome. A busy database leaves the transaction *)
(* open, and the next BEGIN in it is not a busy error: it ends the program.  *)
Record ==
  /\ pc = "record"
  /\ ~ open
  /\ db' = [db EXCEPT ![cur] = mem[cur]]
  /\ cur' = Nothing
  /\ Goto("volume")
  /\ UNCHANGED <<tree, marker, mem, removal, trouble>>

RecordBusy ==
  /\ pc = "record"
  /\ ~ open
  /\ Trouble
  /\ open' = TRUE
  /\ UNCHANGED <<durable, mem, loaded, online, command, pc, cur, removal,
                 orphans, ended, history>>

RecordAgain ==
  /\ pc = "record"
  /\ open
  /\ End("transaction")
  /\ UNCHANGED <<durable, online, orphans, history, trouble>>

-----------------------------------------------------------------------------
(* Faulty: what an earlier run was pruning is passed over.                   *)
ObsoleteAnew(known, chosen) ==
  chosen
  \cup IF "pruneIncomplete" \in command
         THEN {b \in Backup : known[b] \in {"UNDERWAY", "FAILED"}}
         ELSE {}

(* findObsoleteBackups(): what is already being pruned, what is incomplete,   *)
(* and what the volume's policy chooses among the complete backups.          *)
Obsolete(known, chosen) ==
  {b \in Backup : known[b] = "PRUNING"} \cup chosen
  \cup IF "pruneIncomplete" \in command
         THEN {b \in Backup : known[b] \in {"UNDERWAY", "FAILED"}}
         ELSE {}

(* pruneBackups() up to findRemovableBackups(): all that is obsolete becomes  *)
(* PRUNING in one transaction, and what is on a device that is there is to   *)
(* be removed.                                                              *)
PruneBackups ==
  LET known == IF loaded THEN mem ELSE Rows IN
  /\ pc = "main"
  /\ command \cap Prunings # {}
  /\ command \subseteq Prunings
  /\ \/ \E chosen \in SUBSET {b \in Backup : known[b] = "COMPLETE"} :
          LET S == Obsolete(known, chosen)
          IN /\ chosen # {} => "prune" \in command
             /\ db' = [b \in Backup |-> IF b \in S THEN "PRUNING" ELSE db[b]]
             /\ mem' = [b \in Backup |-> IF b \in S THEN "PRUNING" ELSE known[b]]
             /\ removal' = [b \in Backup |->
                              IF b \in S /\ DeviceOf[b] \in online
                                THEN "flagging" ELSE "no"]
             /\ loaded' = TRUE
             /\ command' = IF "prune" \in command THEN {"logs"} ELSE {}
             /\ pc' = "flag"
             /\ UNCHANGED <<tree, marker, open, online, cur, orphans, ended,
                            history, trouble>>
     \/ Busy

(* Faulty: a backup whose marker cannot be created is removed all the same.   *)
FlagIfPossible(b) ==
  /\ pc = "flag"
  /\ removal[b] = "flagging"
  /\ \/ marker' = marker \cup {b} /\ UNCHANGED trouble
     \/ Trouble /\ UNCHANGED marker
  /\ removal' = [removal EXCEPT ![b] = "queued"]
  /\ Goto(pc)
  /\ UNCHANGED <<db, tree, mem, cur>>

(* findRemovableBackups(): a marker before anything is removed, or no        *)
(* removal.                                                                 *)
Flag(b) ==
  /\ pc = "flag"
  /\ removal[b] = "flagging"
  /\ \/ /\ marker' = marker \cup {b}
        /\ removal' = [removal EXCEPT ![b] = "queued"]
        /\ UNCHANGED trouble
     \/ /\ Trouble
        /\ removal' = [removal EXCEPT ![b] = "no"]
        /\ UNCHANGED marker
  /\ Goto(pc)
  /\ UNCHANGED <<db, tree, mem, cur>>

StartRemovals ==
  /\ pc = "flag"
  /\ \A b \in Backup : removal[b] # "flagging"
  /\ Goto("remove")
  /\ UNCHANGED <<durable, mem, cur, removal, trouble>>

(* Faulty: removal does not wait for the markers.                            *)
RemoveStartsAtOnce(b) ==
  /\ pc \in {"flag", "remove", "erase"}
  /\ removal[b] \in {"flagging", "queued"}
  /\ \A r \in Running : DeviceOf[r] # DeviceOf[b]
  /\ removal' = [removal EXCEPT ![b] = "removing"]
  /\ tree' = [tree EXCEPT ![b] = IF @ = "none" THEN "none" ELSE "partial"]
  /\ Goto(pc)
  /\ UNCHANGED <<db, marker, mem, cur, trouble>>

(* BulkRemove: rm -rf, one at a time on a device.                            *)
RemoveStarts(b) ==
  /\ pc \in {"remove", "erase"}
  /\ removal[b] = "queued"
  /\ \A r \in Running : DeviceOf[r] # DeviceOf[b]
  /\ removal' = [removal EXCEPT ![b] = "removing"]
  /\ tree' = [tree EXCEPT ![b] = IF @ = "none" THEN "none" ELSE "partial"]
  /\ Goto(pc)
  /\ UNCHANGED <<db, marker, mem, cur, trouble>>

RemoveEnds(b) ==
  /\ pc \in {"remove", "erase"}
  /\ removal[b] = "removing"
  /\ \/ /\ removal' = [removal EXCEPT ![b] = "removed"]
        /\ tree' = [tree EXCEPT ![b] = "none"]
        /\ UNCHANGED trouble
     \/ /\ Trouble
        /\ removal' = [removal EXCEPT ![b] = "failed"]
        /\ UNCHANGED tree
  /\ Goto(pc)
  /\ UNCHANGED <<db, marker, mem, cur>>

(* RemovableBackup::completed() and Retirable::retired() unlink the marker    *)
(* when the tree has gone; if that fails the first goes on, the second not.  *)
Unlink(b) ==
  /\ pc \in {"remove", "forget"}
  /\ removal[b] = "removed"
  /\ \/ /\ marker' = marker \ {b}
        /\ removal' = [removal EXCEPT ![b] = "unmarked"]
        /\ UNCHANGED trouble
     \/ /\ Trouble
        /\ removal' = [removal EXCEPT ![b] = IF pc = "remove" THEN "unmarked"
                                                              ELSE "failed"]
        /\ UNCHANGED marker
  /\ Goto(pc)
  /\ UNCHANGED <<db, tree, mem, cur>>

(* Faulty: rm's status is not looked at.                                     *)
CompletedAnyhow(b) ==
  /\ pc = "remove"
  /\ removal[b] \in {"unmarked", "failed"}
  /\ db' = [db EXCEPT ![b] = "PRUNED"]
  /\ mem' = [mem EXCEPT ![b] = "absent"]
  /\ removal' = [removal EXCEPT ![b] = "no"]
  /\ Goto(pc)
  /\ UNCHANGED <<tree, marker, cur, trouble>>

(* Faulty: the backup stays among the volume's.                              *)
CompletedInDatabase(b) ==
  /\ pc = "remove"
  /\ removal[b] = "unmarked"
  /\ db' = [db EXCEPT ![b] = "PRUNED"]
  /\ removal' = [removal EXCEPT ![b] = "no"]
  /\ Goto(pc)
  /\ UNCHANGED <<tree, marker, mem, cur, trouble>>

(* RemovableBackup::completed() goes on: the backup is PRUNED.               *)
Completed(b) ==
  /\ pc = "remove"
  /\ removal[b] = "unmarked"
  /\ \/ /\ db' = [db EXCEPT ![b] = "PRUNED"]
        /\ mem' = [mem EXCEPT ![b] = "absent"]
        /\ removal' = [removal EXCEPT ![b] = "no"]
        /\ Goto(pc)
        /\ UNCHANGED <<tree, marker, cur, trouble>>
     \/ Busy

FinishPrune ==
  /\ pc = "remove"
  /\ \A b \in Backup : removal[b] \in {"no", "failed"}
  /\ removal' = [b \in Backup |-> "no"]
  /\ Goto("main")
  /\ UNCHANGED <<durable, mem, cur, trouble>>

(* prune-timeout: an rm that runs is terminated, the rest never runs. When    *)
(* go() says so, the removals that ended are completed all the same; when an  *)
(* rm was the last to run and ended late, it does not (see LimitReported of   *)
(* ActionList), and they are not.                                           *)
GiveUp ==
  /\ TimeLimit
  /\ pc = "remove"
  /\ \A b \in Backup : removal[b] # "unmarked"
  /\ Trouble
  /\ \/ removal' = [b \in Backup |->
                       IF removal[b] = "removed" THEN "removed" ELSE "no"]
     \/ /\ Running = {}
        /\ \E b \in Backup : removal[b] \in {"removed", "failed"}
        /\ removal' = [b \in Backup |-> "no"]
  /\ Goto(pc)
  /\ UNCHANGED <<durable, mem, cur>>

(* prunePruneLogs(): rows that have been PRUNED for long go.                 *)
PrunePruneLogs ==
  /\ pc = "main"
  /\ command = {"logs"}
  /\ \/ \E old \in SUBSET {b \in Backup : db[b] = "PRUNED"} :
          /\ db' = [b \in Backup |-> IF b \in old THEN "absent" ELSE db[b]]
          /\ command' = {}
          /\ UNCHANGED <<tree, marker, open, mem, loaded, online, pc, cur,
                         removal, orphans, ended, history, trouble>>
     \/ Busy

-----------------------------------------------------------------------------
(* retireVolumes(): the rows of the volume on the devices that are there; the *)
(* trees are removed first, or only forgotten.                              *)
RetireVolumes ==
  LET rows == {b \in Backup : /\ db[b] \notin {"absent", "PRUNED"}
                              /\ DeviceOf[b] \in online}
  IN /\ pc = "main"
     /\ command \cap {"retire", "forget"} # {}
     /\ retired' = retired \cup rows
     /\ removal' = [b \in Backup |->
                      IF b \notin rows THEN "no"
                      ELSE IF "retire" \in command THEN "queued" ELSE "unmarked"]
     /\ pc' = IF "retire" \in command THEN "erase" ELSE "forget"
     /\ command' = command \ {"retire", "forget"}
     /\ UNCHANGED <<durable, open, mem, loaded, online, cur, orphans, ended,
                    tried, trouble>>

Erased ==
  /\ pc = "erase"
  /\ \A b \in Backup : removal[b] \notin {"queued", "removing"}
  /\ Goto("forget")
  /\ UNCHANGED <<durable, mem, cur, removal, trouble>>

Forget(b) ==
  /\ pc = "forget"
  /\ removal[b] = "unmarked"
  /\ \/ /\ db' = [db EXCEPT ![b] = "absent"]
        /\ removal' = [removal EXCEPT ![b] = "no"]
        /\ Goto(pc)
        /\ UNCHANGED <<tree, marker, mem, cur, trouble>>
     \/ Busy

FinishRetire ==
  /\ pc = "forget"
  /\ \A b \in Backup : removal[b] \in {"no", "failed"}
  /\ removal' = [b \in Backup |-> "no"]
  /\ Goto("main")
  /\ UNCHANGED <<durable, mem, cur, trouble>>

(* retireDevice(): all the rows of a device go, in one transaction.          *)
RetireDevice(d) ==
  /\ pc = "main"
  /\ "retireDevice" \in command
  /\ \/ /\ db' = [b \in Backup |-> IF DeviceOf[b] = d THEN "absent" ELSE db[b]]
        /\ retired' = retired \cup {b \in Backup : DeviceOf[b] = d
                                                 /\ db[b] # "absent"}
        /\ command' = command \ {"retireDevice"}
        /\ UNCHANGED <<tree, marker, open, mem, loaded, online, pc, cur, removal,
                       orphans, ended, tried, trouble>>
     \/ Busy

-----------------------------------------------------------------------------
BackupStep ==
  \/ MakeBackups \/ LeaveVolumes
  \/ \E b \in Backup : StartBackup(b)
  \/ Mark \/ MakeDirectory \/ BeforeBackupFails
  \/ RsyncSucceeds \/ RsyncFails
  \/ Unmark \/ UnmarkFails
  \/ Record \/ RecordBusy \/ RecordAgain

PruneStep ==
  \/ PruneBackups \/ StartRemovals \/ FinishPrune \/ GiveUp \/ PrunePruneLogs
  \/ \E b \in Backup : Flag(b) \/ Completed(b)

RetireStep ==
  \/ RetireVolumes \/ Erased \/ FinishRetire
  \/ \E b \in Backup : Forget(b)
  \/ \E d \in Device : RetireDevice(d)

RemoveStep ==
  \E b \in Backup : RemoveStarts(b) \/ RemoveEnds(b) \/ Unlink(b)

Step == BackupStep \/ PruneStep \/ RetireStep \/ RemoveStep \/ FinishRun

Next ==
  \/ Step
  \/ \E line \in CommandLines, stores \in SUBSET Device : StartRun(line, stores)
  \/ \E b \in Backup : OrphanEnds(b)
  \/ Crash

Spec == Init /\ [][Next]_vars

(* rsbackup is run again and again (by cron), with --prune-incomplete among   *)
(* others and all the disks now and then; runs go on, commands end.          *)
Fairness ==
  /\ WF_vars(Step)
  /\ \A b \in Backup : WF_vars(OrphanEnds(b))
  /\ SF_vars(\E line \in CommandLines :
               "pruneIncomplete" \in line /\ StartRun(line, Device))

FairSpec == Spec /\ Fairness

-----------------------------------------------------------------------------
(* "Until a backup is completed, or while one is being pruned, a             *)
(* corresponding .incomplete file will exist" (rsbackup.1): whatever          *)
(* interrupts a run, a tree that is not whole has its marker, which warns an  *)
(* operator about to restore from it. Retiring a backup makes no marker.     *)
PartialMarked ==
  \A b \in Backup \ retired : tree[b] = "partial" => b \in marker

(* A backup the database calls complete is: its tree is whole and has no     *)
(* marker. Reports, policies and --link-dest all rely on it.                 *)
CompleteIsWhole ==
  \A b \in Backup \ retired :
    db[b] = "COMPLETE" => tree[b] = "full" /\ b \notin marker

(* What is on a disk is in the database, so that it will be pruned one day    *)
(* and --check-unexpected has nothing to say (CheckBackups.cc).              *)
TreesKnown ==
  \A b \in Backup \ retired :
    tree[b] # "none" => db[b] \notin {"absent", "PRUNED"}

(* The volume's backups in memory are those of the database, between one     *)
(* operation of a run and the next.                                         *)
MemoryAgrees == loaded /\ cur = Nothing => mem = Rows

(* A whole tree is not touched until the decision to prune it is in the      *)
(* database and the marker is there for the operator.                       *)
RemovedInOrder ==
  [][\A b \in Backup \ retired :
       tree[b] = "full" /\ tree'[b] # "full" =>
         db[b] = "PRUNING" /\ b \in marker]_vars

(* What every reachable state satisfies: the strengthening of the            *)
(* invariants above that each step preserves.                               *)
Making ==
  /\ pc \in {"mark", "mkdir", "rsync", "unmark", "record"} <=> cur # Nothing
  /\ cur # Nothing => /\ cur \in tried \ retired
                      /\ db[cur] = "UNDERWAY"
                      /\ loaded
  /\ pc \in {"mark", "mkdir"} => tree[cur] = "none"
  /\ pc \in {"mkdir", "rsync", "unmark"} => cur \in marker
  /\ pc = "unmark" => tree[cur] = "full"
  /\ pc = "record" =>
       /\ mem[cur] \in {"COMPLETE", "FAILED"}
       /\ mem[cur] = "COMPLETE" => tree[cur] = "full" /\ cur \notin marker

Removing ==
  \A b \in Backup : removal[b] # "no" =>
    \/ pc = "erase" /\ b \in retired
    \/ pc = "forget" /\ b \in retired /\ removal[b] \notin {"queued", "removing"}
    \/ /\ pc \in {"flag", "remove"}
       /\ db[b] = "PRUNING"
       /\ removal[b] \in {"queued", "removing"} => b \in marker
       /\ removal[b] \in {"removing", "failed"} => tree[b] # "full"
       /\ removal[b] \in {"removed", "unmarked"} => tree[b] = "none"

Untried ==
  \A b \in Backup \ tried :
    /\ db[b] = "absent" /\ tree[b] = "none"
    /\ b \notin marker /\ b \notin retired /\ b \notin orphans

Orphaned ==
  \A b \in orphans :
    tree[b] # "full" /\ db[b] \in {"PRUNING", "PRUNED", "absent"}

Remembering ==
  /\ IF loaded
       THEN /\ \A b \in Backup : b # cur => mem[b] = Rows[b]
            /\ command \cap Retirements = {}
            /\ pc \notin {"off", "erase", "forget"}
       ELSE /\ \A b \in Backup : mem[b] = "absent"
            /\ pc \in {"off", "main", "erase", "forget"}
  /\ "backup" \in command => command \cap Retirements = {}
  /\ pc \in {"erase", "forget"} => "backup" \notin command

Consistent ==
  /\ TypeOK /\ Making /\ Removing /\ Untried /\ Orphaned /\ Remembering
  /\ PartialMarked /\ CompleteIsWhole /\ TreesKnown

(* What a crash, a busy database, a failed rm or an absent disk leaves behind *)
(* is cleared up by later runs.                                             *)
Cleared ==
  \A b \in Backup :
    db[b] \in {"UNDERWAY", "FAILED", "PRUNING"} ~>
      db[b] \in {"COMPLETE", "PRUNED", "absent"}

(* "We really care about 'busy' errors - the backup has been made, we must    *)
(* record this fact" (MakeBackup.cc): a busy database does not end the loop   *)
(* that records it.                                                         *)
BusyIsRetried == ended # "transaction"
=============================================================================

------------------------ MODULE BackupLifecycleProofs ------------------------
(***************************************************************************)
(* Proofs about BackupLifecycle, for any number of backups and devices, any  *)
(* command lines and any amount of trouble.                                 *)
(*                                                                         *)
(* The argument: a backup that is being made has its marker from before the  *)
(* directory until its tree is whole, and one that is being removed is       *)
(* PRUNING and has its marker from before the first rm until the tree is     *)
(* gone. Making and Removing say this of the places where a run can be       *)
(* stopped; nothing else touches a tree but an orphaned rm, which only goes  *)
(* on with a removal that was under way (Orphaned).                         *)
(***************************************************************************)
EXTENDS BackupLifecycle, TLAPS

USE LifecycleAssumption
    DEF Consistent, TypeOK, Making, Removing, Untried, Orphaned, Remembering,
        PartialMarked, CompleteIsWhole, TreesKnown, Rows, Status, Goto, Trouble,
        End, durable, history, Running, Prunings, Retirements, Attach

(* No run has begun: nothing is in the database, on the disks or in memory.  *)
LEMMA InitConsistent == Init => Consistent
<1> SUFFICES ASSUME Init PROVE Consistent
  OBVIOUS
<1>1. trouble \in 0..MaxTrouble
  BY DEF Init
<1>2. TypeOK
  BY <1>1 DEF Init
<1>3. Making /\ Removing /\ Untried /\ Orphaned /\ Remembering
  BY DEF Init
<1>4. PartialMarked /\ CompleteIsWhole /\ TreesKnown
  BY DEF Init
<1> QED
  BY <1>2, <1>3, <1>4

-----------------------------------------------------------------------------
(* The ways a run can end before its time.                                  *)

(* Wherever the database is found locked: of the backup that was being made  *)
(* the row stays UNDERWAY and the marker stays, and only a removal recorded  *)
(* as PRUNING goes on as an orphan.                                         *)
LEMMA BusyConsistent ==
  ASSUME Consistent, Busy, pc \notin {"off", "erase"}
  PROVE  Consistent'
<1>1. trouble' \in 0..MaxTrouble
  BY DEF Busy
<1>2. TypeOK'
  BY <1>1 DEF Busy
<1>3. Making'
  BY DEF Busy
<1>4. Removing'
  BY DEF Busy
<1>5. Untried'
  BY DEF Busy
<1>6. Orphaned'
  BY DEF Busy
<1>7. Remembering'
  BY DEF Busy
<1>8. PartialMarked'
  BY DEF Busy
<1>9. CompleteIsWhole'
  BY DEF Busy
<1>10. TreesKnown'
  BY DEF Busy
<1> QED
  BY <1>2, <1>3, <1>4, <1>5, <1>6, <1>7, <1>8, <1>9, <1>10

(* A crash, likewise, and it takes the commands that were running with it.   *)
LEMMA CrashConsistent == ASSUME Consistent, Crash PROVE Consistent'
<1>1. trouble' \in 0..MaxTrouble
  BY DEF Crash
<1>2. TypeOK'
  BY <1>1 DEF Crash
<1>3. Making'
  BY DEF Crash
<1>4. Removing'
  BY DEF Crash
<1>5. Untried'
  BY DEF Crash
<1>6. Orphaned'
  BY DEF Crash
<1>7. Remembering'
  BY DEF Crash
<1>8. PartialMarked'
  BY DEF Crash
<1>9. CompleteIsWhole'
  BY DEF Crash
<1>10. TreesKnown'
  BY DEF Crash
<1> QED
  BY <1>2, <1>3, <1>4, <1>5, <1>6, <1>7, <1>8, <1>9, <1>10

-----------------------------------------------------------------------------
(* Making a backup.                                                         *)
LEMMA BackupConsistent == ASSUME Consistent, BackupStep PROVE Consistent'
<1>1. CASE MakeBackups
  BY <1>1 DEF MakeBackups
<1>2. CASE LeaveVolumes
  BY <1>2 DEF LeaveVolumes
<1>3. ASSUME NEW b \in Backup, StartBackup(b)
      PROVE  Consistent'
  <2>1. CASE Busy
    BY <2>1, <1>3, BusyConsistent DEF StartBackup
  <2>2. CASE ~ Busy
    <3>1. TypeOK'
      BY ZenonT(30), <2>2, <1>3 DEF StartBackup
    <3>2. Making' /\ Removing' /\ Remembering'
      BY <2>2, <1>3 DEF StartBackup
    <3>3. Untried' /\ Orphaned'
      BY <2>2, <1>3 DEF StartBackup
    <3>4. PartialMarked' /\ CompleteIsWhole' /\ TreesKnown'
      BY <2>2, <1>3 DEF StartBackup
    <3> QED
      BY <3>1, <3>2, <3>3, <3>4
  <2> QED
    BY <2>1, <2>2
<1>4. CASE Mark
  BY <1>4 DEF Mark
<1>5. CASE MakeDirectory
  BY <1>5 DEF MakeDirectory
<1>6. CASE BeforeBackupFails
  BY <1>6 DEF BeforeBackupFails
<1>7. CASE RsyncSucceeds
  BY <1>7 DEF RsyncSucceeds
<1>8. CASE RsyncFails
  BY <1>8 DEF RsyncFails
<1>9. CASE Unmark
  BY <1>9 DEF Unmark
<1>10. CASE UnmarkFails
  BY <1>10 DEF UnmarkFails
<1>11. CASE Record
  BY <1>11 DEF Record
<1>12. CASE RecordBusy
  BY <1>12 DEF RecordBusy
<1>13. CASE RecordAgain
  <2>1. TypeOK'
    BY <1>13 DEF RecordAgain
  <2> QED
    BY <2>1, <1>13 DEF RecordAgain
<1> QED
  BY <1>1, <1>2, <1>3, <1>4, <1>5, <1>6, <1>7, <1>8, <1>9, <1>10, <1>11,
     <1>12, <1>13 DEF BackupStep

(* Pruning.                                                                 *)
LEMMA PruneConsistent == ASSUME Consistent, PruneStep PROVE Consistent'
<1>1. CASE PruneBackups
  <2>1. CASE Busy
    BY <2>1, <1>1, BusyConsistent DEF PruneBackups
  <2>2. CASE ~ Busy
    <3> DEFINE known == IF loaded THEN mem ELSE Rows
    <3>1. cur = Nothing /\ \A b \in Backup : known[b] = Rows[b]
      BY <1>1 DEF PruneBackups
    <3>2. PICK chosen \in SUBSET {b \in Backup : known[b] = "COMPLETE"} :
            LET S == Obsolete(known, chosen)
            IN /\ db' = [b \in Backup |-> IF b \in S THEN "PRUNING" ELSE db[b]]
               /\ mem' = [b \in Backup |->
                            IF b \in S THEN "PRUNING" ELSE known[b]]
               /\ removal' = [b \in Backup |->
                                IF b \in S /\ DeviceOf[b] \in online
                                  THEN "flagging" ELSE "no"]
      BY <1>1, <2>2, Zenon DEF PruneBackups
    <3> DEFINE S == Obsolete(known, chosen)
    <3>3. \A b \in S : /\ b \in Backup
                      /\ db[b] \in {"PRUNING", "COMPLETE", "UNDERWAY", "FAILED"}
      <4> HIDE DEF known
      <4> QED
        BY <3>1, <3>2 DEF Obsolete
    <3>4. /\ db' = [b \in Backup |-> IF b \in S THEN "PRUNING" ELSE db[b]]
           /\ mem' = [b \in Backup |-> IF b \in S THEN "PRUNING" ELSE known[b]]
           /\ removal' = [b \in Backup |->
                            IF b \in S /\ DeviceOf[b] \in online
                              THEN "flagging" ELSE "no"]
      BY <3>2
    <3> HIDE DEF S
    <3>5. \A b \in Backup :
            \/ /\ db'[b] = "PRUNING" /\ mem'[b] = "PRUNING"
               /\ db[b] \in {"PRUNING", "COMPLETE", "UNDERWAY", "FAILED"}
               /\ removal'[b] \in {"no", "flagging"}
            \/ /\ db'[b] = db[b] /\ mem'[b] = Rows[b]
               /\ removal'[b] = "no"
      BY <3>1, <3>3, <3>4
    <3>6. /\ pc' = "flag" /\ pc = "main" /\ loaded' = TRUE
          /\ command' \subseteq {"logs"}
          /\ UNCHANGED <<tree, marker, open, online, cur, orphans, ended,
                         history, trouble>>
      BY <1>1, <2>2 DEF PruneBackups
    <3>7. TypeOK'
      BY <3>5, <3>6, <3>4
    <3>8. Making' /\ Removing' /\ Remembering'
      BY <3>1, <3>5, <3>6
    <3>9. Untried' /\ Orphaned'
      BY <3>5, <3>6
    <3>10. PartialMarked' /\ CompleteIsWhole' /\ TreesKnown'
      BY <3>5, <3>6
    <3> QED
      BY <3>7, <3>8, <3>9, <3>10
  <2> QED
    BY <2>1, <2>2
<1>2. CASE StartRemovals
  BY <1>2 DEF StartRemovals
<1>3. CASE FinishPrune
  BY <1>3 DEF FinishPrune
<1>4. CASE GiveUp
  BY <1>4 DEF GiveUp
<1>5. CASE PrunePruneLogs
  <2>1. CASE Busy
    BY <2>1, <1>5, BusyConsistent DEF PrunePruneLogs
  <2>2. CASE ~ Busy
    <3>1. TypeOK'
      BY <2>2, <1>5 DEF PrunePruneLogs
    <3> QED
      BY <3>1, <2>2, <1>5 DEF PrunePruneLogs
  <2> QED
    BY <2>1, <2>2
<1>6. ASSUME NEW b \in Backup, Flag(b)
      PROVE  Consistent'
  BY <1>6 DEF Flag
<1>7. ASSUME NEW b \in Backup, Completed(b)
      PROVE  Consistent'
  <2>1. CASE Busy
    BY <2>1, <1>7, BusyConsistent DEF Completed
  <2>2. CASE ~ Busy
    <3>1. TypeOK'
      BY ZenonT(30), <2>2, <1>7 DEF Completed
    <3>2. Making' /\ Removing' /\ Remembering'
      BY <2>2, <1>7 DEF Completed
    <3>3. Untried' /\ Orphaned'
      BY <2>2, <1>7 DEF Completed
    <3>4. PartialMarked' /\ CompleteIsWhole' /\ TreesKnown'
      BY <2>2, <1>7 DEF Completed
    <3> QED
      BY <3>1, <3>2, <3>3, <3>4
  <2> QED
    BY <2>1, <2>2
<1> QED
  BY <1>1, <1>2, <1>3, <1>4, <1>5, <1>6, <1>7 DEF PruneStep

(* Retiring a volume or a device.                                           *)
LEMMA RetireConsistent == ASSUME Consistent, RetireStep PROVE Consistent'
<1>1. CASE RetireVolumes
  BY <1>1 DEF RetireVolumes
<1>2. CASE Erased
  BY <1>2 DEF Erased
<1>3. CASE FinishRetire
  BY <1>3 DEF FinishRetire
<1>4. ASSUME NEW b \in Backup, Forget(b)
      PROVE  Consistent'
  <2>1. CASE Busy
    BY <2>1, <1>4, BusyConsistent DEF Forget
  <2>2. CASE ~ Busy
    <3>1. TypeOK'
      BY ZenonT(30), <2>2, <1>4 DEF Forget
    <3>2. Making' /\ Removing' /\ Remembering'
      BY <2>2, <1>4 DEF Forget
    <3>3. Untried' /\ Orphaned'
      BY <2>2, <1>4 DEF Forget
    <3>4. PartialMarked' /\ CompleteIsWhole' /\ TreesKnown'
      BY <2>2, <1>4 DEF Forget
    <3> QED
      BY <3>1, <3>2, <3>3, <3>4
  <2> QED
    BY <2>1, <2>2
<1>5. ASSUME NEW d \in Device, RetireDevice(d)
      PROVE  Consistent'
  <2>1. CASE Busy
    BY <2>1, <1>5, BusyConsistent DEF RetireDevice
  <2>2. CASE ~ Busy
    <3>1. db' \in [Backup -> Status] /\ retired' \subseteq Backup
      BY <2>2, <1>5 DEF RetireDevice
    <3>2. TypeOK'
      BY ZenonT(30), <2>2, <3>1, <1>5 DEF RetireDevice
    <3> QED
      BY <3>2, <2>2, <1>5 DEF RetireDevice
  <2> QED
    BY <2>1, <2>2
<1> QED
  BY <1>1, <1>2, <1>3, <1>4, <1>5 DEF RetireStep

(* Removing a tree and its marker, in either.                               *)
LEMMA RemoveConsistent == ASSUME Consistent, RemoveStep PROVE Consistent'
<1>1. ASSUME NEW b \in Backup, RemoveStarts(b)
      PROVE  Consistent'
  BY <1>1 DEF RemoveStarts
<1>2. ASSUME NEW b \in Backup, RemoveEnds(b)
      PROVE  Consistent'
  BY <1>2 DEF RemoveEnds
<1>3. ASSUME NEW b \in Backup, Unlink(b)
      PROVE  Consistent'
  BY <1>3 DEF Unlink
<1> QED
  BY <1>1, <1>2, <1>3 DEF RemoveStep

(* Every step of the system.                                                *)
LEMMA NextConsistent == ASSUME Consistent, [Next]_vars PROVE Consistent'
<1>1. CASE FinishRun
  <2>1. TypeOK'
    BY <1>1 DEF FinishRun
  <2> QED
    BY <2>1, <1>1 DEF FinishRun
<1>2. CASE Step
  BY <1>1, <1>2, BackupConsistent, PruneConsistent, RetireConsistent,
     RemoveConsistent DEF Step
<1>3. ASSUME NEW line \in CommandLines, NEW stores \in SUBSET Device,
             StartRun(line, stores)
      PROVE  Consistent'
  BY <1>3 DEF StartRun
<1>4. ASSUME NEW b \in Backup, OrphanEnds(b)
      PROVE  Consistent'
  BY <1>4 DEF OrphanEnds
<1>5. CASE UNCHANGED vars
  BY <1>5 DEF vars
<1> QED
  BY <1>2, <1>3, <1>4, <1>5, CrashConsistent DEF Next

THEOREM Invariant == Spec => []Consistent
BY InitConsistent, NextConsistent, PTL DEF Spec

-----------------------------------------------------------------------------
HIDE DEF Consistent, TypeOK, PartialMarked, CompleteIsWhole, TreesKnown

(* Every variable keeps its type (TypeOK).                                  *)
THEOREM TypeCorrect == Spec => []TypeOK
<1>1. Consistent => TypeOK
  BY DEF Consistent
<1> QED
  BY <1>1, Invariant, PTL

(* A tree that is not whole has its .incomplete file, whatever interrupted    *)
(* the run that was making or pruning it (BeforeBackup::go, rsyncBackup,     *)
(* RemovableBackup::completed).                                             *)
THEOREM Marked == Spec => []PartialMarked
<1>1. Consistent => PartialMarked
  BY DEF Consistent
<1> QED
  BY <1>1, Invariant, PTL

(* A backup the database calls COMPLETE is whole and has no marker            *)
(* (performBackup records what rsyncBackup left).                           *)
THEOREM Whole == Spec => []CompleteIsWhole
<1>1. Consistent => CompleteIsWhole
  BY DEF Consistent
<1> QED
  BY <1>1, Invariant, PTL

(* There is no tree that the database has forgotten: the row comes before     *)
(* the directory and goes after it.                                         *)
THEOREM Known == Spec => []TreesKnown
<1>1. Consistent => TreesKnown
  BY DEF Consistent
<1> QED
  BY <1>1, Invariant, PTL

(* Between operations Volume::backups is what the database says.             *)
THEOREM Memory == Spec => []MemoryAgrees
<1>1. Consistent => MemoryAgrees
  <2> SUFFICES ASSUME Consistent, loaded, cur = Nothing
               PROVE  mem = Rows
    BY DEF MemoryAgrees
  <2>1. \A b \in Backup : mem[b] = Rows[b]
    BY DEF Consistent
  <2>2. mem = [b \in Backup |-> mem[b]]
    BY DEF Consistent, TypeOK
  <2> QED
    BY <2>1, <2>2
<1> QED
  BY <1>1, Invariant, PTL

(* A whole tree is touched only when the database says PRUNING and the       *)
(* marker is there: only the start of an rm makes a whole tree less, and a   *)
(* queued removal has both.                                                 *)
THEOREM Ordered == Spec => RemovedInOrder
<1> DEFINE InOrder == \A b \in Backup \ retired :
                        tree[b] = "full" /\ tree'[b] # "full" =>
                          db[b] = "PRUNING" /\ b \in marker
<1>1. ASSUME Consistent, [Next]_vars
      PROVE  InOrder
  <2> USE DEF Consistent, TypeOK
  <2>1. CASE UNCHANGED tree
    BY <2>1
  <2>2. CASE MakeDirectory
    BY <1>1, <2>2 DEF MakeDirectory
  <2>3. CASE RsyncSucceeds
    BY <1>1, <2>3 DEF RsyncSucceeds
  <2>4. ASSUME NEW b \in Backup, RemoveStarts(b)
        PROVE  InOrder
    BY <1>1, <2>4 DEF RemoveStarts
  <2>5. ASSUME NEW b \in Backup, RemoveEnds(b)
        PROVE  InOrder
    BY <1>1, <2>5 DEF RemoveEnds
  <2>6. ASSUME NEW b \in Backup, OrphanEnds(b)
        PROVE  InOrder
    BY <1>1, <2>6 DEF OrphanEnds
  <2>7. CASE BackupStep
    BY <2>1, <2>2, <2>3, <2>7
       DEF BackupStep, MakeBackups, LeaveVolumes, StartBackup, Busy, Mark,
           BeforeBackupFails, RsyncFails, Unmark, UnmarkFails, Record,
           RecordBusy, RecordAgain
  <2>8. CASE PruneStep
    BY <2>1, <2>8
       DEF PruneStep, PruneBackups, Busy, StartRemovals, FinishPrune, GiveUp,
           PrunePruneLogs, Flag, Completed
  <2>9. CASE RetireStep
    BY <2>1, <2>9
       DEF RetireStep, RetireVolumes, Busy, Erased, FinishRetire, Forget,
           RetireDevice
  <2>10. CASE RemoveStep \/ FinishRun
    BY <2>1, <2>4, <2>5, <2>10 DEF RemoveStep, Unlink, FinishRun
  <2> QED
    BY <1>1, <2>1, <2>6, <2>7, <2>8, <2>9, <2>10
       DEF Next, Step, StartRun, Crash, vars
<1>2. Consistent /\ [Next]_vars => [InOrder]_vars
  BY <1>1
<1> QED
  BY <1>2, Invariant, PTL DEF Spec, RemovedInOrder
=============================================================================

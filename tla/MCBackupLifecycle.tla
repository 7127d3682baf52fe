-------------------------- MODULE MCBackupLifecycle --------------------------
(***************************************************************************)
(* Instances of BackupLifecycle for TLC: two attempts at a backup, each on a *)
(* disk of its own, and command lines of every kind.                        *)
(***************************************************************************)
EXTENDS BackupLifecycle

MCDeviceOf == [b \in {"mon", "wed"} |->
                 IF b = "wed" THEN "disk2" ELSE "disk1"]

MCCommandLines ==
  {{"backup"}, {"backup", "prune", "pruneIncomplete"}, {"prune"},
   {"pruneIncomplete"}, {"retire"}, {"forget", "prune"}, {"retireDevice"}}
=============================================================================

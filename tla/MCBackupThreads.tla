--------------------------- MODULE MCBackupThreads ---------------------------
(***************************************************************************)
(* Instances of BackupThreads for TLC: two hosts; two volumes of one share  *)
(* the host's concurrency group, the volume of the other has its own.        *)
(***************************************************************************)
EXTENDS BackupThreads

MCHost == {"alpha", "beta"}

MCVolume == {"root", "home", "mail"}

MCHostOf == [v \in MCVolume |-> IF v = "mail" THEN "beta" ELSE "alpha"]

MCGroupOf == MCHostOf

(* A smaller instance: two volumes of one host.                              *)
OneHost == [v \in {"root", "home"} |-> "alpha"]
=============================================================================

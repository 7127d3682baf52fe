---------------------------- MODULE MCSubprocesses ----------------------------
(***************************************************************************)
(* Instances of Subprocesses for TLC: an rsync with a timeout, run with the   *)
(* global lock released, that may leave an ssh master behind, beside a check  *)
(* that another thread runs meanwhile; and a hook that leaves a process.      *)
(***************************************************************************)
EXTENDS Subprocesses

(* The commands of action lists do not throw; those of Host::invoke() do.    *)
MCThrowOn == [c \in {"rsync", "check"} |->
                IF c = "check" THEN {"error", "crash"} ELSE {}]

HookThrowOn == [c \in {"hook"} |-> {}]
=============================================================================

---------------------------- MODULE MCActionList ----------------------------
(***************************************************************************)
(* Instances of ActionList for TLC.  The actions are those of a prune       *)
(* (Prune.cc): removals on two devices, a device being a resource, and the  *)
(* follow-ups of two of them; with one that depends on two removals by a    *)
(* glob and on the success of a follow-up, and one that only orders itself  *)
(* after the removals.  The client adds any subset of them.                 *)
(***************************************************************************)
EXTENDS ActionList

MCAction == {"remove/1", "remove/2", "remove/3", "removed/1", "removed/3",
             "report", "tidy"}

MCResource == {"disk1", "disk2"}

MCUses == [a \in MCAction |->
  CASE a \in {"remove/1", "remove/2", "removed/1"} -> {"disk1"}
    [] a \in {"remove/3", "removed/3"}             -> {"disk2"}
    [] OTHER                                       -> {}]

On(names, glob, succeeded) ==
  [names |-> names, glob |-> glob, succeeded |-> succeeded]

MCAfter == [a \in MCAction |->
  CASE a = "removed/1" -> <<On({"remove/1"}, FALSE, FALSE)>>
    [] a = "removed/3" -> <<On({"remove/3"}, FALSE, FALSE)>>
    [] a = "report"    -> <<On({"remove/1", "remove/2"}, TRUE, TRUE),
                            On({"removed/1"}, FALSE, TRUE)>>
    [] a = "tidy"      -> <<On({"remove/1", "remove/3"}, TRUE, FALSE)>>
    [] OTHER           -> <<>>]

MCPriority == [a \in MCAction |-> IF a = "remove/2" THEN 1 ELSE 0]

MCPosition == [a \in MCAction |->
  CASE a = "remove/1"  -> 1
    [] a = "remove/2"  -> 2
    [] a = "remove/3"  -> 3
    [] a = "removed/1" -> 4
    [] a = "removed/3" -> 5
    [] a = "report"    -> 6
    [] a = "tidy"      -> 7]

(* The follow-ups complete themselves.                                      *)
MCSync == {"removed/1", "removed/3"}
=============================================================================

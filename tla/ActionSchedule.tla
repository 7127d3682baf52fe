---------------------------- MODULE ActionSchedule ----------------------------
(***************************************************************************)
(* What ActionList promises the code that fills it (Action.h): actions are *)
(* run at most once, no two at a time that use the same resource, each     *)
(* after its predecessors; an action is left out only when a predecessor   *)
(* it depends on has failed or the time limit has passed.  There is no     *)
(* thread, scan order, priority, event loop or subprocess here.            *)
(***************************************************************************)
EXTENDS Sequences

CONSTANTS Action, Uses, After

VARIABLES
  status,       \* what became of each action
  open,         \* actions may still be added
  late          \* the time limit has passed

svars == <<status, open, late>>

Over == {"Succeeded", "Failed", "Cancelled"}

Init ==
  /\ status = [a \in Action |-> "Absent"]
  /\ open = TRUE
  /\ late \in BOOLEAN

(* Every action matching a predecessor of a is over.                        *)
PredecessorsOver(a) ==
  \A i \in DOMAIN After[a] : \A b \in After[a][i].names :
    status[b] \in Over \cup (IF After[a][i].glob THEN {"Absent"} ELSE {})

(* A predecessor of a that must succeed did not.                            *)
PredecessorFailed(a) ==
  \E i \in DOMAIN After[a] : \E b \in After[a][i].names :
    /\ After[a][i].glob \/ After[a][i].succeeded
    /\ status[b] \in {"Failed", "Cancelled"}

Enter(a) ==
  /\ open
  /\ status[a] = "Absent"
  /\ status' = [status EXCEPT ![a] = "Pending"]
  /\ UNCHANGED <<open, late>>

Close == open /\ open' = FALSE /\ UNCHANGED <<status, late>>

Begin(a) ==
  /\ ~ open
  /\ ~ late
  /\ status[a] = "Pending"
  /\ PredecessorsOver(a)
  /\ ~ PredecessorFailed(a)
  /\ \A b \in Action : status[b] = "Running" => Uses[a] \cap Uses[b] = {}
  /\ status' = [status EXCEPT ![a] = "Running"]
  /\ UNCHANGED <<open, late>>

End(a) ==
  /\ status[a] = "Running"
  /\ \E s \in {"Succeeded", "Failed"} : status' = [status EXCEPT ![a] = s]
  /\ UNCHANGED <<open, late>>

GiveUp(a) ==
  /\ ~ open
  /\ status[a] = "Pending"
  /\ PredecessorsOver(a)
  /\ PredecessorFailed(a)
  /\ status' = [status EXCEPT ![a] = "Cancelled"]
  /\ UNCHANGED <<open, late>>

GiveUpAll ==
  /\ ~ open
  /\ late
  /\ status' = [a \in Action |->
                  IF status[a] = "Pending" THEN "Cancelled" ELSE status[a]]
  /\ UNCHANGED <<open, late>>

Expire == ~ late /\ late' = TRUE /\ UNCHANGED <<status, open>>

Next ==
  \/ Close
  \/ GiveUpAll
  \/ Expire
  \/ \E a \in Action : Enter(a) \/ Begin(a) \/ End(a) \/ GiveUp(a)

Spec == Init /\ [][Next]_svars
=============================================================================

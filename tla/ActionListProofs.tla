-------------------------- MODULE ActionListProofs --------------------------
(***************************************************************************)
(* Proofs, for every set of actions with any resources, predecessors and   *)
(* priorities, of what ActionList's runs check on one.                     *)
(***************************************************************************)
EXTENDS ActionList, TLAPS

LEMMA TypeInit == Init => TypeOK
<1> SUFFICES ASSUME Init PROVE TypeOK
  OBVIOUS
<1>1. frames \in Nat /\ now \in Nat /\ pc = "build"
  BY DEF Init
<1>2. /\ state \in [Action -> {"Pending", "Running", "Succeeded", "Failed"}]
      /\ states \in [Action -> {"none", "Succeeded", "Failed"}]
      /\ child \in [Action -> {"none", "alive", "ok", "failed", "reaped"}]
  BY DEF Init
<1> QED BY <1>1, <1>2 DEF Init, TypeOK

(* Every step keeps the variables in their types.                           *)
LEMMA TypeNext == TypeOK /\ [Next]_vars => TypeOK'
<1> SUFFICES ASSUME TypeOK, [Next]_vars PROVE TypeOK'
  OBVIOUS
<1> USE ListAssumption DEF TypeOK
<1>1. CASE Go BY <1>1 DEF Go, list
<1>2. CASE GoLoop BY <1>2 DEF GoLoop, list
<1>3. CASE Cancel BY <1>3 DEF Cancel, LeaveTrigger
<1>4. CASE NothingToStart BY <1>4 DEF NothingToStart, LeaveTrigger, list
<1>5. CASE WaitReturns BY <1>5 DEF WaitReturns, list
<1>6. CASE LimitReached
  <2>1. signalled' \subseteq Action
    BY <1>6 DEF LimitReached, TerminateSubprocesses, Waiters
  <2>2. now' \in Nat
    BY <1>6 DEF LimitReached
  <2> QED BY <1>6, <2>1, <2>2 DEF LimitReached, list
<1>7. CASE Poll BY <1>7 DEF Poll, list
<1>8. CASE PollEnds BY <1>8 DEF PollEnds, list
<1>9. ASSUME NEW a \in Action, Add(a) PROVE TypeOK'
  BY <1>9 DEF Add
<1>10. ASSUME NEW a \in Action, Skip(a) PROVE TypeOK'
  BY <1>10 DEF Skip
<1>11. ASSUME NEW a \in Action, Throw(a) PROVE TypeOK'
  BY <1>11 DEF Throw, list
<1>12. ASSUME NEW a \in Action, Start(a) PROVE TypeOK'
  BY <1>12 DEF Start
<1>13. ASSUME NEW a \in Action, Reap(a) PROVE TypeOK'
  BY <1>13 DEF Reap, Completed
<1>14. ASSUME NEW a \in Action, NEW ok \in BOOLEAN, SyncCompletes(a, ok)
       PROVE TypeOK'
  BY <1>14 DEF SyncCompletes, Completed
<1>15. ASSUME NEW a \in Action, Exit(a) PROVE TypeOK'
  BY <1>15 DEF Exit, list
<1>16. CASE Tick BY <1>16 DEF Tick, list
<1>17. CASE UNCHANGED vars BY <1>17 DEF vars
<1>18. CASE Finished BY <1>18 DEF Finished, vars
<1> QED
  BY <1>1, <1>2, <1>3, <1>4, <1>5, <1>6, <1>7, <1>8, <1>9, <1>10, <1>11,
     <1>12, <1>13, <1>14, <1>15, <1>16, <1>17, <1>18
  DEF Next, Thread

(* The variables keep their types: in particular trigger() never returns    *)
(* from an activation it did not make.                                      *)
THEOREM TypeCorrect == Spec => []TypeOK
BY TypeInit, TypeNext, PTL DEF Spec
-----------------------------------------------------------------------------
Held == TypeOK /\ Consistent /\ ResourceExclusion

LEMMA HeldInit == Init => Consistent /\ ResourceExclusion
<1> SUFFICES ASSUME Init PROVE Consistent /\ ResourceExclusion
  OBVIOUS
<1>1. Running = {} /\ Waiters = {}
  BY DEF Init, Running, Waiters
<1>2. UNION {Uses[a] : a \in Running} = {}
  BY <1>1
<1> QED BY <1>1, <1>2 DEF Init, Consistent, ResourceExclusion

(* A step that leaves the list and the set of waiters alone, and does not    *)
(* enter a place the invariant speaks of.                                   *)
LEMMA HeldQuiet ==
  ASSUME Held, UNCHANGED list, Waiters' = Waiters,
         pc' = "sync" <=> pc = "sync",
         pc' = "build" => pc = "build",
         pc' = "returned" => actions = {}
  PROVE  Consistent' /\ ResourceExclusion'
<1>1. Running' = Running
  BY DEF list, Running
<1> QED BY <1>1 DEF Held, Consistent, ResourceExclusion, list

(* Actions that are pending and leave the list with no outcome but failure.  *)
LEMMA HeldDropped ==
  ASSUME Held, NEW S, S \subseteq Pending,
         actions' = actions \ S,
         states' = [a \in Action |-> IF a \in S THEN "Failed" ELSE states[a]],
         UNCHANGED <<state, resources, child>>,
         pc = "trigger", pc' \in {"trigger", "poll", "wait"}
  PROVE  Consistent' /\ ResourceExclusion'
<1>1. Running' = Running /\ Waiters' = Waiters
  BY DEF Running, Waiters
<1>2. S \cap Running = {}
  BY DEF Pending, Running
<1> QED BY <1>1, <1>2 DEF Held, TypeOK, Consistent, ResourceExclusion, Pending

(* A running action completes: the resources it held are released, and       *)
(* because no other running action uses them those of the others stay.      *)
LEMMA HeldCompleted ==
  ASSUME Held, NEW a \in Action, NEW ok \in BOOLEAN,
         a \in Running, Completed(a, ok),
         Waiters' = Waiters \ {a},
         pc = "sync" => a \in Sync
  PROVE  Consistent' /\ ResourceExclusion'
<1>1. Running' = Running \ {a}
  BY DEF Held, TypeOK, Completed, Running
<1>2. ResourceExclusion'
  BY <1>1 DEF Held, ResourceExclusion
<1>3. resources' = UNION {Uses[b] : b \in Running'}
  BY <1>1 DEF Held, Consistent, ResourceExclusion, Completed
<1>4. Running' \cap Sync = {}
  BY <1>1 DEF Held, Consistent
<1>5. /\ \A b \in actions' : /\ states'[b] = "none"
                              /\ state'[b] \in {"Pending", "Running"}
      /\ \A b \in Action \ actions' :
           IF state'[b] = "Pending" THEN states'[b] \in {"none", "Failed"}
                                    ELSE states'[b] = state'[b]
  BY DEF Held, TypeOK, Consistent, Completed
<1>6. Running' \subseteq actions' /\ Waiters' = Running' \ Sync
  BY <1>1 DEF Held, Consistent, Completed
<1> QED BY <1>2, <1>3, <1>4, <1>5, <1>6 DEF Completed, Consistent

LEMMA HeldStart ==
  ASSUME Held, NEW a \in Action, Start(a)
  PROVE  Consistent' /\ ResourceExclusion'
<1> USE DEF Held
<1>1. /\ a \in actions /\ state[a] = "Pending" /\ pc = "trigger"
      /\ Uses[a] \cap resources = {}
  BY DEF Start, Chosen, Ready, Unblocked, Pending, BlockedByResource
<1>2. Running' = Running \cup {a}
  BY <1>1 DEF TypeOK, Start, Running
<1>3. ResourceExclusion'
  <2> SUFFICES ASSUME NEW b \in Running, b # a
               PROVE  Uses[a] \cap Uses[b] = {}
    BY <1>2 DEF ResourceExclusion
  <2>1. Uses[b] \subseteq resources
    BY DEF Consistent
  <2> QED BY <1>1, <2>1
<1>4. resources' = UNION {Uses[b] : b \in Running'}
  BY <1>2 DEF Consistent, Start
<1>5. Running \cap Sync = {}
  BY <1>1 DEF Consistent
<1>6. CASE a \in Sync
  <2>1. Waiters' = Waiters
    BY <1>6 DEF Start, Waiters
  <2> QED BY <1>1, <1>2, <1>3, <1>4, <1>5, <1>6, <2>1
          DEF Consistent, Start, TypeOK
<1>7. CASE a \notin Sync
  <2>1. Waiters' = Waiters \cup {a}
    BY <1>7 DEF Start, Waiters, TypeOK
  <2>2. pc' = "trigger"
    BY <1>1, <1>7 DEF Start
  <2> QED BY <1>1, <1>2, <1>3, <1>4, <1>5, <1>7, <2>1, <2>2
          DEF Consistent, Start, TypeOK
<1> QED BY <1>6, <1>7

(* Every step keeps the list consistent and the resources exclusive.        *)
LEMMA HeldNext == Held /\ [Next]_vars => Consistent' /\ ResourceExclusion'
<1> SUFFICES ASSUME Held, [Next]_vars PROVE Consistent' /\ ResourceExclusion'
  OBVIOUS
<1>1. CASE Go
  BY <1>1, HeldQuiet DEF Go, list, Waiters
<1>2. CASE GoLoop
  BY <1>2, HeldQuiet DEF GoLoop, list, Waiters
<1>3. CASE Cancel
  BY <1>3, HeldDropped DEF Cancel, LeaveTrigger
<1>4. CASE NothingToStart
  BY <1>4, HeldQuiet DEF NothingToStart, LeaveTrigger, list, Waiters
<1>5. CASE WaitReturns
  BY <1>5, HeldQuiet DEF WaitReturns, list, Waiters
<1>6. CASE LimitReached
  BY <1>6, HeldQuiet DEF LimitReached, list, Waiters
<1>7. CASE Poll
  BY <1>7, HeldQuiet DEF Poll, list, Waiters
<1>8. CASE PollEnds
  BY <1>8, HeldQuiet DEF PollEnds, list, Waiters
<1>9. ASSUME NEW a \in Action, Add(a) PROVE Consistent' /\ ResourceExclusion'
  <2>1. Running = {} /\ Running' = {} /\ Waiters' = Waiters
    BY <1>9 DEF Add, Held, TypeOK, Consistent, Running, Waiters
  <2> QED BY <1>9, <2>1 DEF Add, Held, TypeOK, Consistent, ResourceExclusion
<1>10. ASSUME NEW a \in Action, Skip(a)
       PROVE Consistent' /\ ResourceExclusion'
  <2>1. {a} \subseteq Pending /\ actions' = actions \ {a}
    BY <1>10 DEF Skip, Doomed, Unblocked
  <2>2. states' = [b \in Action |-> IF b \in {a} THEN "Failed" ELSE states[b]]
    BY <1>10 DEF Skip, Held, TypeOK
  <2> QED BY <1>10, <2>1, <2>2, HeldDropped DEF Skip
<1>11. ASSUME NEW a \in Action, Throw(a)
       PROVE Consistent' /\ ResourceExclusion'
  BY <1>11, HeldQuiet DEF Throw, list, Waiters
<1>12. ASSUME NEW a \in Action, Start(a)
       PROVE Consistent' /\ ResourceExclusion'
  BY <1>12, HeldStart
<1>13. ASSUME NEW a \in Action, Reap(a)
       PROVE Consistent' /\ ResourceExclusion'
  <2>1. a \in Running /\ Waiters' = Waiters \ {a}
    BY <1>13 DEF Reap, Exited, Waiters, Held, TypeOK, Consistent
  <2> QED BY <1>13, <2>1, HeldCompleted DEF Reap
<1>14. ASSUME NEW a \in Action, NEW ok \in BOOLEAN, SyncCompletes(a, ok)
       PROVE Consistent' /\ ResourceExclusion'
  <2>1. a \in Running /\ Waiters' = Waiters \ {a}
    BY <1>14 DEF SyncCompletes, Waiters, Running, Held, Consistent
  <2> QED BY <1>14, <2>1, HeldCompleted DEF SyncCompletes
<1>15. ASSUME NEW a \in Action, Exit(a)
       PROVE Consistent' /\ ResourceExclusion'
  <2>1. Waiters' = Waiters
    BY <1>15 DEF Exit, Waiters, Held, TypeOK
  <2> QED BY <1>15, <2>1, HeldQuiet DEF Exit, list, Held, Consistent
<1>16. CASE Tick
  BY <1>16, HeldQuiet DEF Tick, list, Waiters, Held, Consistent
<1>17. CASE UNCHANGED vars
  BY <1>17, HeldQuiet DEF vars, list, Waiters, Held, Consistent
<1>18. CASE Finished
  BY <1>17, <1>18 DEF Finished
<1> QED
  BY <1>1, <1>2, <1>3, <1>4, <1>5, <1>6, <1>7, <1>8, <1>9, <1>10, <1>11,
     <1>12, <1>13, <1>14, <1>15, <1>16, <1>17, <1>18
  DEF Next, Thread

LEMMA HeldAlways == Spec => []Held
<1>1. Init => Held
  BY TypeInit, HeldInit DEF Held
<1>2. Held /\ [Next]_vars => Held'
  BY TypeNext, HeldNext DEF Held
<1> QED BY <1>1, <1>2, PTL DEF Spec

(* No two actions that use the same resource run at the same time, whatever  *)
(* the lists of resources are and however completions interleave.           *)
THEOREM Exclusion == Spec => []ResourceExclusion
<1>1. Held => ResourceExclusion
  BY DEF Held
<1> QED BY <1>1, HeldAlways, PTL

(* When go() returns nothing of the list is left behind.                     *)
THEOREM NothingLeft == Spec => []NothingLeftBehind
<1>1. Held => NothingLeftBehind
  BY DEF Held, Consistent, NothingLeftBehind
<1> QED BY <1>1, HeldAlways, PTL
-----------------------------------------------------------------------------
(* Actions leave the list, and those outside it keep their outcome.         *)
Settled ==
  /\ actions' \subseteq actions
  /\ \A b \in Action \ actions : states'[b] = states[b]

(* Once actions are no longer added, every step settles.                    *)
LEMMA StepSettles == Held /\ [Next]_vars /\ pc # "build" => Settled
<1> SUFFICES ASSUME Held, [Next]_vars, pc # "build" PROVE Settled
  OBVIOUS
<1> USE DEF Held, TypeOK, Settled
<1>1. CASE UNCHANGED list
  BY <1>1 DEF list
<1>2. CASE Cancel
  BY <1>2 DEF Cancel, Pending
<1>3. ASSUME NEW a \in Action, Skip(a) PROVE Settled
  BY <1>3 DEF Skip, Doomed, Unblocked, Pending
<1>4. ASSUME NEW a \in Action, Start(a) PROVE Settled
  BY <1>4 DEF Start
<1>5. ASSUME NEW a \in Running, NEW ok \in BOOLEAN, Completed(a, ok)
      PROVE Settled
  <2>1. a \in actions
    BY DEF Consistent
  <2> QED BY <1>5, <2>1 DEF Completed
<1>6. ASSUME NEW a \in Action, Reap(a) PROVE Settled
  <2>1. a \in Running
    BY <1>6 DEF Reap, Exited, Waiters, Consistent
  <2> QED BY <1>5, <1>6, <2>1 DEF Reap
<1>7. ASSUME NEW a \in Action, NEW ok \in BOOLEAN, SyncCompletes(a, ok)
      PROVE Settled
  <2>1. a \in Running
    BY <1>7 DEF SyncCompletes, Running
  <2> QED BY <1>5, <1>7, <2>1 DEF SyncCompletes
<1> QED
  BY <1>1, <1>2, <1>3, <1>4, <1>6, <1>7
  DEF Next, Thread, Go, GoLoop, NothingToStart, WaitReturns, LimitReached,
      Poll, PollEnds, Add, Throw, Exit, Tick, Finished, vars, list

(* The predecessors of an action that is about to be started.               *)
LEMMA ReadyPredecessors ==
  ASSUME TypeOK, NEW a \in Action, Ready(a)
  PROVE  \A i \in DOMAIN After[a] : \A b \in After[a][i].names :
           /\ b \notin actions
           /\ After[a][i].glob \/ states[b] # "none"
           /\ After[a][i].succeeded => states[b] # "Failed"
<1> SUFFICES ASSUME NEW i \in DOMAIN After[a], NEW b \in After[a][i].names
             PROVE  /\ b \notin actions
                    /\ After[a][i].glob \/ states[b] # "none"
                    /\ After[a][i].succeeded => states[b] # "Failed"
  OBVIOUS
<1>1. \A j \in DOMAIN After[a] : ~ Find(After[a][j])
  BY DEF Ready, BlockedByDependency
<1>2. b \notin actions
  BY <1>1 DEF Find
<1>3. After[a][i].succeeded => states[b] # "Failed"
  BY DEF Ready, FailedByDependency
<1>4. ASSUME ~ After[a][i].glob PROVE states[b] # "none"
  <2>1. After[a] \in Seq(Dependency)
    BY ListAssumption
  <2>2. \A j \in 1 .. i - 1 : j \in DOMAIN After[a]
    BY <2>1
  <2>3. ~ (\A c \in After[a][i].names : c \notin actions /\ states[c] = "none")
    BY <1>1, <1>4, <2>2 DEF Ready, FollowsUnknown
  <2>4. PICK d \in Action : After[a][i].names = {d}
    BY <1>4, ListAssumption
  <2>5. d = b
    BY <2>4
  <2> QED BY <2>3, <2>4, <2>5, <1>2
<1> QED BY <1>2, <1>3, <1>4

(* A step that starts nothing keeps the order of dependencies.               *)
LEMMA OrderKept ==
  ASSUME Held, DependencyOrder, Settled,
         \A a \in Action : state[a] = "Pending" => state'[a] = "Pending"
  PROVE  DependencyOrder'
<1> SUFFICES ASSUME NEW a \in Action, state'[a] # "Pending",
                    NEW i \in DOMAIN After[a], NEW b \in After[a][i].names
             PROVE  /\ b \notin actions'
                    /\ After[a][i].glob \/ states'[b] # "none"
                    /\ After[a][i].succeeded => states'[b] # "Failed"
  BY DEF DependencyOrder
<1>1. /\ b \notin actions
      /\ After[a][i].glob \/ states[b] # "none"
      /\ After[a][i].succeeded => states[b] # "Failed"
  BY DEF DependencyOrder
<1>2. b \in Action
  <2>1. After[a][i] \in Dependency
    BY ListAssumption
  <2> QED BY <2>1 DEF Dependency
<1>3. states'[b] = states[b] /\ b \notin actions'
  BY <1>1, <1>2 DEF Settled
<1> QED BY <1>1, <1>3

(* Every step keeps the order of dependencies.                               *)
LEMMA OrderNext == Held /\ DependencyOrder /\ [Next]_vars => DependencyOrder'
<1> SUFFICES ASSUME Held, DependencyOrder, [Next]_vars PROVE DependencyOrder'
  OBVIOUS
<1>1. CASE pc = "build"
  <2>1. \A a \in Action : state'[a] = "Pending"
    BY <1>1 DEF Held, Consistent, Next, Thread, Go, GoLoop, Cancel,
       NothingToStart, WaitReturns, LimitReached, Poll, PollEnds, Add, Skip,
       Throw, Start, Reap, SyncCompletes, Exit, Tick, Finished, vars, list
  <2> QED BY <2>1 DEF DependencyOrder
<1>2. CASE pc # "build"
  <2>1. Settled
    BY <1>2, StepSettles
  <2>2. ASSUME NEW a \in Action, Start(a) PROVE DependencyOrder'
    <3> SUFFICES ASSUME NEW c \in Action, state'[c] # "Pending",
                        NEW i \in DOMAIN After[c], NEW b \in After[c][i].names
                 PROVE  /\ b \notin actions'
                        /\ After[c][i].glob \/ states'[b] # "none"
                        /\ After[c][i].succeeded => states'[b] # "Failed"
      BY DEF DependencyOrder
    <3>1. CASE c = a
      <4>1. Ready(a) /\ UNCHANGED <<actions, states>>
        BY <2>2 DEF Start, Chosen
      <4> QED BY <3>1, <4>1, ReadyPredecessors DEF Held
    <3>2. CASE c # a
      <4>1. state[c] # "Pending" /\ UNCHANGED <<actions, states>>
        BY <2>2, <3>2 DEF Start, Held, TypeOK
      <4> QED BY <4>1 DEF DependencyOrder
    <3> QED BY <3>1, <3>2
  <2>3. ASSUME NEW a \in Running, NEW ok \in BOOLEAN, Completed(a, ok)
        PROVE  DependencyOrder'
    <3>1. \A b \in Action : state[b] = "Pending" => state'[b] = "Pending"
      BY <2>3 DEF Completed, Running, Held, TypeOK
    <3> QED BY <2>1, <3>1, OrderKept
  <2>4. ASSUME NEW a \in Action, Reap(a) PROVE DependencyOrder'
    <3>1. a \in Running
      BY <2>4 DEF Reap, Exited, Waiters, Held, Consistent
    <3>2. (child[a] = "ok") \in BOOLEAN
      OBVIOUS
    <3> QED BY <2>3, <2>4, <3>1, <3>2 DEF Reap
  <2>5. ASSUME NEW a \in Action, NEW ok \in BOOLEAN, SyncCompletes(a, ok)
        PROVE  DependencyOrder'
    <3>1. a \in Running
      BY <2>5 DEF SyncCompletes, Running
    <3> QED BY <2>3, <2>5, <3>1 DEF SyncCompletes
  <2>6. CASE UNCHANGED state
    BY <2>1, <2>6, OrderKept
  <2> QED
    BY <2>2, <2>4, <2>5, <2>6
    DEF Next, Thread, Go, GoLoop, Cancel, NothingToStart, WaitReturns,
        LimitReached, Poll, PollEnds, Add, Skip, Throw, Exit, Tick, Finished,
        vars, list
<1> QED BY <1>1, <1>2

(* No action starts before what it follows is complete, and none starts     *)
(* when something that had to succeed failed, by whatever path: a failed    *)
(* run, a chain of failures without running, or the limit.                  *)
THEOREM Order == Spec => []DependencyOrder
<1>1. Init => DependencyOrder
  BY DEF Init, DependencyOrder
<1> QED BY <1>1, OrderNext, HeldAlways, PTL DEF Spec
-----------------------------------------------------------------------------
(* What the scan finds depends on the list alone.                           *)
LEMMA IdleDependsOnList ==
  ASSUME UNCHANGED list, NEW a \in Action,
         ~ Ready(a), ~ Doomed(a), ~ Thrower(a)
  PROVE  ~ Ready(a)' /\ ~ Doomed(a)' /\ ~ Thrower(a)'
BY DEF list, Ready, Doomed, Thrower, Unblocked, Pending, BlockedByResource,
       FollowsUnknown, BlockedByDependency, FailedByDependency, Find

(* Every step into the event loop leaves nothing to start.                   *)
LEMMA IdleNext ==
  NothingLeftIdle /\ TypeOK /\ [Next]_vars => NothingLeftIdle'
<1> SUFFICES ASSUME NothingLeftIdle, TypeOK, [Next]_vars, NEW a \in Action,
                    pc' \in {"wait", "poll"}
             PROVE  ~ Ready(a)' /\ ~ Doomed(a)' /\ ~ Thrower(a)'
  BY DEF NothingLeftIdle
<1>1. CASE Cancel
  <2>1. Pending' = {}
    BY <1>1 DEF Cancel, Pending
  <2> QED BY <2>1 DEF Ready, Doomed, Thrower, Unblocked
<1>2. CASE NothingToStart
  BY <1>2, IdleDependsOnList DEF NothingToStart
<1>3. CASE pc \in {"wait", "poll"} /\ UNCHANGED list
  BY <1>3, IdleDependsOnList DEF NothingLeftIdle
<1> QED
  BY <1>1, <1>2, <1>3
  DEF Next, Thread, Go, GoLoop, WaitReturns, LimitReached, Poll, PollEnds, Add,
      Skip, Throw, Start, Reap, SyncCompletes, Completed, Exit, Tick, Finished,
      vars, list

(* The thread never sleeps while an action could be started or failed.      *)
THEOREM NoIdling == Spec => []NothingLeftIdle
<1>1. Init => NothingLeftIdle
  BY DEF Init, NothingLeftIdle
<1> QED BY <1>1, IdleNext, TypeInit, TypeNext, PTL DEF Spec

-----------------------------------------------------------------------------
(* The limit, once passed, stays passed.                                    *)
LEMMA LimitStays == TypeOK /\ [Next]_vars /\ PastLimit => PastLimit'
BY ListAssumption
   DEF TypeOK, PastLimit, Next, Thread, Go, GoLoop, Cancel, NothingToStart,
       WaitReturns, LimitReached, Poll, PollEnds, Add, Skip, Throw, Start,
       Reap, SyncCompletes, Exit, Tick, Finished, vars, list

Excused(a) ==
  /\ \E i \in DOMAIN After[a] : \E b \in After[a][i].names :
       (After[a][i].glob \/ After[a][i].succeeded) /\ states[b] = "Failed"
  /\ \A i \in DOMAIN After[a] : After[a][i].names \cap actions = {}

(* What excuses the loss of an action goes on to excuse it.                 *)
LEMMA ExcuseStays ==
  ASSUME Held, Settled, NEW a \in Action, Excused(a) PROVE Excused(a)'
<1>1. PICK i \in DOMAIN After[a] : \E b \in After[a][i].names :
        (After[a][i].glob \/ After[a][i].succeeded) /\ states[b] = "Failed"
  BY DEF Excused
<1>2. PICK b \in After[a][i].names :
        (After[a][i].glob \/ After[a][i].succeeded) /\ states[b] = "Failed"
  BY <1>1
<1>3. b \in Action
  <2>1. After[a][i] \in Dependency
    BY ListAssumption
  <2> QED BY <2>1 DEF Dependency
<1>4. b \notin actions
  BY DEF Excused
<1> QED BY <1>2, <1>3, <1>4 DEF Excused, Settled

(* An action that leaves the list without having been started does so for   *)
(* one of the two reasons.                                                  *)
LEMMA SkipNext == Held /\ SkipJustified /\ [Next]_vars => SkipJustified'
<1> SUFFICES ASSUME Held, SkipJustified, [Next]_vars,
                    NEW a \in Action, Cancelled(a)'
             PROVE  PastLimit' \/ Excused(a)'
  BY DEF SkipJustified, Excused
<1>1. CASE pc = "build"
  <2>1. states'[a] = "none"
    BY <1>1 DEF Held, Consistent, Next, Thread, Go, GoLoop, Cancel,
       NothingToStart, WaitReturns, LimitReached, Poll, PollEnds, Add, Skip,
       Throw, Start, Reap, SyncCompletes, Exit, Tick, Finished, vars, list
  <2> QED BY <2>1 DEF Cancelled
<1>2. CASE pc # "build" /\ Cancelled(a)
  <2>1. PastLimit \/ Excused(a)
    BY <1>2 DEF SkipJustified, Excused
  <2> QED BY <1>2, <2>1, LimitStays, StepSettles, ExcuseStays DEF Held
<1>3. CASE pc # "build" /\ ~ Cancelled(a)
  <2>1. CASE Cancel
    BY <2>1, LimitStays DEF Cancel, Held
  <2>2. ASSUME NEW b \in Action, Skip(b) PROVE Excused(a)'
    <3>1. a = b
      BY <1>3, <2>2 DEF Skip, Cancelled, Held, TypeOK
    <3>2. Excused(a)
      BY <2>2, <3>1
      DEF Skip, Doomed, BlockedByDependency, FailedByDependency, Find, Excused
    <3> QED BY <1>3, <3>2, StepSettles, ExcuseStays
  <2>3. ASSUME NEW b \in Action, NEW ok \in BOOLEAN, Completed(b, ok)
        PROVE  FALSE
    BY <1>3, <2>3 DEF Completed, Cancelled, Held, TypeOK
  <2>4. ASSUME NEW b \in Action, Start(b) PROVE FALSE
    BY <1>3, <2>4 DEF Start, Cancelled, Held, TypeOK
  <2>5. ASSUME NEW b \in Action, Reap(b) PROVE FALSE
    <3>1. (child[b] = "ok") \in BOOLEAN
      OBVIOUS
    <3> QED BY <2>3, <2>5, <3>1 DEF Reap
  <2>6. ASSUME UNCHANGED <<state, states>> PROVE FALSE
    BY <1>3, <2>6 DEF Cancelled
  <2> QED
    BY <2>1, <2>2, <2>3, <2>4, <2>5, <2>6
    DEF Next, Thread, Go, GoLoop, NothingToStart, WaitReturns, LimitReached,
        Poll, PollEnds, Add, Throw, SyncCompletes, Exit, Tick, Finished, vars,
        list
<1> QED BY <1>1, <1>2, <1>3

(* An action is dropped only because the limit passed, or because something *)
(* it follows failed and everything it follows is complete.                 *)
THEOREM Skipping == Spec => []SkipJustified
<1>1. Init => SkipJustified
  BY DEF Init, SkipJustified, Cancelled
<1> QED BY <1>1, SkipNext, HeldAlways, PTL DEF Spec
-----------------------------------------------------------------------------
(* ActionList implements ActionSchedule.                                    *)
StatusIn == {"Absent", "Pending", "Running", "Succeeded", "Failed", "Cancelled"}

(* What the schedule sees of an action, read back.                          *)
LEMMA StatusMeans ==
  ASSUME Held, NEW a \in Action
  PROVE  /\ Status[a] = "Running" <=> state[a] = "Running"
         /\ Status[a] = "Pending" <=> a \in Pending
         /\ Status[a] = "Absent" <=>
              a \notin actions /\ states[a] = "none" /\ state[a] = "Pending"
         /\ Status[a] \in {"Failed", "Cancelled"} <=> states[a] = "Failed"
         /\ Status[a] = "Succeeded" <=> states[a] = "Succeeded"
BY DEF Held, TypeOK, Consistent, Status, Cancelled, Pending, Running

LEMMA StatusType == ASSUME Held PROVE Status \in [Action -> StatusIn]
BY DEF Held, TypeOK, Status, StatusIn

(* Predecessors that are out of the list are over.                          *)
LEMMA PredecessorsAreOver ==
  ASSUME Held, NEW a \in Action,
         \A i \in DOMAIN After[a] : \A b \in After[a][i].names :
            b \notin actions /\ (After[a][i].glob \/ states[b] # "none")
  PROVE  Schedule!PredecessorsOver(a)
<1> SUFFICES ASSUME NEW i \in DOMAIN After[a], NEW b \in After[a][i].names
             PROVE  Status[b] \in
                      Schedule!Over
                        \cup (IF After[a][i].glob THEN {"Absent"} ELSE {})
  BY DEF Schedule!PredecessorsOver
<1>1. b \in Action
  <2>1. After[a][i] \in Dependency
    BY ListAssumption
  <2> QED BY <2>1 DEF Dependency
<1>2. b \notin actions /\ (After[a][i].glob \/ states[b] # "none")
  OBVIOUS
<1>3. Status[b] \in {"Absent", "Succeeded", "Failed", "Cancelled"}
  BY <1>1, <1>2, StatusType, StatusMeans
  DEF StatusIn, Pending, Held, Consistent, Running
<1>4. After[a][i].glob \/ Status[b] # "Absent"
  BY <1>1, <1>2, StatusMeans
<1> QED BY <1>3, <1>4 DEF Schedule!Over

(* A predecessor that failed is one in the schedule as well.                *)
LEMMA PredecessorFails ==
  ASSUME Held, NEW a \in Action
  PROVE  Schedule!PredecessorFailed(a) <=> FailedByDependency(a)
<1>1. ASSUME NEW i \in DOMAIN After[a], NEW b \in After[a][i].names
      PROVE  Status[b] \in {"Failed", "Cancelled"} <=> states[b] = "Failed"
  <2>1. After[a][i] \in Dependency
    BY ListAssumption
  <2>2. b \in Action
    BY <2>1 DEF Dependency
  <2> QED BY <2>2, StatusMeans
<1> QED BY <1>1 DEF Schedule!PredecessorFailed, FailedByDependency

LEMMA ScheduleInit == Init => Schedule!Init
<1> SUFFICES ASSUME Init PROVE Schedule!Init
  OBVIOUS
<1>1. \A a \in Action :
        states[a] = "none" /\ state[a] = "Pending" /\ a \notin actions
  BY DEF Init
<1>2. Status = [a \in Action |-> "Absent"]
  BY <1>1 DEF Status
<1>3. (pc = "build") = TRUE /\ PastLimit \in BOOLEAN
  BY DEF Init, PastLimit
<1> QED BY <1>2, <1>3 DEF Schedule!Init

(* Steps the schedule does not see, but for the limit passing.              *)
LEMMA ScheduleStutter ==
  ASSUME Held, UNCHANGED list, (pc' = "build") = (pc = "build"),
         PastLimit => PastLimit'
  PROVE  [Schedule!Next]_(Schedule!svars)
<1>1. Status' = Status
  BY DEF list, Status, Cancelled
<1>2. CASE PastLimit' = PastLimit
  BY <1>1, <1>2 DEF Schedule!svars
<1>3. CASE PastLimit' # PastLimit
  BY <1>1, <1>3 DEF Schedule!Next, Schedule!Expire, PastLimit
<1> QED BY <1>2, <1>3

LEMMA ScheduleEnd ==
  ASSUME Held, NEW a \in Running, NEW ok \in BOOLEAN, Completed(a, ok),
         pc # "build", UNCHANGED now
  PROVE  Schedule!Next
<1>1. a \in Action /\ Status[a] = "Running"
  BY DEF Running, Status
<1>2. Status' = [Status EXCEPT ![a] = IF ok THEN "Succeeded" ELSE "Failed"]
  <2> DEFINE new == [Status EXCEPT ![a] = IF ok THEN "Succeeded" ELSE "Failed"]
  <2>1. Status' \in [Action -> {Status'[b] : b \in Action}]
    BY DEF Status
  <2>2. ASSUME NEW b \in Action PROVE Status'[b] = new[b]
    <3>1. CASE b = a
      BY <3>1, <1>1 DEF Completed, Status, Held, TypeOK
    <3>2. CASE b # a
      BY <3>2, <1>1 DEF Completed, Status, Cancelled, Held, TypeOK
    <3> QED BY <3>1, <3>2
  <2> QED BY <2>2 DEF Status
<1>3. Schedule!End(a)
  BY <1>1, <1>2 DEF Schedule!End, Completed, PastLimit
<1> QED BY <1>1, <1>3 DEF Schedule!Next

LEMMA ScheduleBegin ==
  ASSUME Held, NEW a \in Action, Start(a)
  PROVE  Schedule!Next
<1>1. /\ Ready(a) /\ ~ PastLimit /\ pc = "trigger" /\ pc' # "build"
      /\ state' = [state EXCEPT ![a] = "Running"]
      /\ UNCHANGED <<actions, states, now>>
  BY DEF Start, Chosen
<1>2. Status[a] = "Pending"
  BY <1>1, StatusMeans DEF Ready, Unblocked
<1>3. Schedule!PredecessorsOver(a)
  BY <1>1, ReadyPredecessors, PredecessorsAreOver DEF Held
<1>4. ~ Schedule!PredecessorFailed(a)
  BY <1>1, PredecessorFails DEF Ready
<1>5. ASSUME NEW b \in Action, Status[b] = "Running"
      PROVE  Uses[a] \cap Uses[b] = {}
  <2>1. b \in Running
    BY <1>5, StatusMeans DEF Running
  <2>2. Uses[b] \subseteq resources
    BY <2>1 DEF Held, Consistent
  <2> QED BY <1>1, <2>2 DEF Ready, Unblocked, BlockedByResource
<1>6. Status' = [Status EXCEPT ![a] = "Running"]
  <2>1. ASSUME NEW b \in Action
        PROVE  Status'[b] = [Status EXCEPT ![a] = "Running"][b]
    BY <1>1 DEF Status, Cancelled, Held, TypeOK
  <2> QED BY <2>1 DEF Status
<1>7. Schedule!Begin(a)
  BY <1>1, <1>2, <1>3, <1>4, <1>5, <1>6 DEF Schedule!Begin, PastLimit
<1> QED BY <1>7 DEF Schedule!Next

LEMMA ScheduleGiveUp ==
  ASSUME Held, NEW a \in Action, Skip(a)
  PROVE  Schedule!Next
<1>1. /\ Doomed(a) /\ pc = "trigger" /\ a \in Pending
      /\ actions' = actions \ {a}
      /\ states' = [states EXCEPT ![a] = "Failed"]
      /\ UNCHANGED <<pc, state, now>>
  BY DEF Skip, Doomed, Unblocked
<1>2. Status[a] = "Pending"
  BY <1>1, StatusMeans
<1>3. \A i \in DOMAIN After[a] : \A b \in After[a][i].names :
        b \notin actions /\ (After[a][i].glob \/ states[b] # "none")
  <2> SUFFICES ASSUME NEW i \in DOMAIN After[a], NEW b \in After[a][i].names
               PROVE  b \notin actions /\ (After[a][i].glob \/ states[b] # "none")
    OBVIOUS
  <2>1. \A j \in DOMAIN After[a] : ~ Find(After[a][j])
    BY <1>1 DEF Doomed, BlockedByDependency
  <2>2. b \notin actions
    BY <2>1 DEF Find
  <2>3. ASSUME ~ After[a][i].glob PROVE states[b] # "none"
    <3>1. After[a] \in Seq(Dependency)
      BY ListAssumption
    <3>2. \A j \in 1 .. i - 1 : j \in DOMAIN After[a]
      BY <3>1
    <3>3. ~ (\A c \in After[a][i].names : c \notin actions /\ states[c] = "none")
      BY <1>1, <2>1, <2>3, <3>2 DEF Doomed, FollowsUnknown
    <3>4. PICK d \in Action : After[a][i].names = {d}
      BY <2>3, ListAssumption
    <3> QED BY <2>2, <3>3, <3>4
  <2> QED BY <2>2, <2>3
<1>4. Schedule!PredecessorsOver(a)
  BY <1>3, PredecessorsAreOver
<1>5. Schedule!PredecessorFailed(a)
  BY <1>1, PredecessorFails DEF Doomed
<1>6. Status' = [Status EXCEPT ![a] = "Cancelled"]
  <2>1. ASSUME NEW b \in Action
        PROVE  Status'[b] = [Status EXCEPT ![a] = "Cancelled"][b]
    BY <1>1 DEF Status, Cancelled, Pending, Held, TypeOK
  <2> QED BY <2>1 DEF Status
<1>7. Schedule!GiveUp(a)
  BY <1>1, <1>2, <1>4, <1>5, <1>6 DEF Schedule!GiveUp, PastLimit
<1> QED BY <1>7 DEF Schedule!Next

LEMMA ScheduleGiveUpAll == ASSUME Held, Cancel PROVE Schedule!Next
<1>1. /\ PastLimit /\ PastLimit' /\ pc # "build" /\ pc' # "build"
      /\ actions' = actions \ Pending
      /\ states' = [a \in Action |-> IF a \in Pending THEN "Failed" ELSE states[a]]
      /\ UNCHANGED <<state, now>>
  BY DEF Cancel, LeaveTrigger, PastLimit
<1>2. ASSUME NEW a \in Action
      PROVE  Status'[a] = IF Status[a] = "Pending" THEN "Cancelled" ELSE Status[a]
  BY <1>1, StatusMeans DEF Status, Cancelled, Pending
<1>3. Status' = [a \in Action |->
                   IF Status[a] = "Pending" THEN "Cancelled" ELSE Status[a]]
  BY <1>2 DEF Status
<1> QED BY <1>1, <1>3 DEF Schedule!Next, Schedule!GiveUpAll

LEMMA ScheduleEnter ==
  ASSUME Held, NEW a \in Action, Add(a)
  PROVE  Schedule!Next
<1>1. CASE a \in actions
  <2>1. Status' = Status
    BY <1>1 DEF Add, Status, Cancelled
  <2> QED BY <1>1, <2>1 DEF Add, PastLimit, Schedule!Next, Schedule!Close
<1>2. CASE a \notin actions
  <2>1. Status[a] = "Absent"
    BY <1>2, StatusMeans DEF Add, Held, Consistent
  <2>2. ASSUME NEW b \in Action
        PROVE  Status'[b] = [Status EXCEPT ![a] = "Pending"][b]
    BY <1>2 DEF Add, Status, Cancelled, Held, Consistent
  <2>3. Status' = [Status EXCEPT ![a] = "Pending"]
    BY <2>2 DEF Status
  <2> QED BY <1>2, <2>1, <2>3 DEF Add, PastLimit, Schedule!Next, Schedule!Enter
<1> QED BY <1>1, <1>2

LEMMA ScheduleNext == Held /\ [Next]_vars => [Schedule!Next]_(Schedule!svars)
<1> SUFFICES ASSUME Held, [Next]_vars PROVE [Schedule!Next]_(Schedule!svars)
  OBVIOUS
<1>1. CASE Go
  <2>1. Status' = Status
    BY <1>1 DEF Go, list, Status, Cancelled
  <2> QED BY <1>1, <2>1 DEF Go, PastLimit, Schedule!Next, Schedule!Close
<1>2. CASE Cancel
  BY <1>2, ScheduleGiveUpAll
<1>3. ASSUME NEW a \in Action, Add(a) PROVE Schedule!Next
  BY <1>3, ScheduleEnter
<1>4. ASSUME NEW a \in Action, Skip(a) PROVE Schedule!Next
  BY <1>4, ScheduleGiveUp
<1>5. ASSUME NEW a \in Action, Start(a) PROVE Schedule!Next
  BY <1>5, ScheduleBegin
<1>6. ASSUME NEW a \in Action, Reap(a) PROVE Schedule!Next
  <2>1. a \in Running /\ (child[a] = "ok") \in BOOLEAN
    BY <1>6 DEF Reap, Exited, Waiters, Held, Consistent
  <2> QED BY <1>6, <2>1, ScheduleEnd DEF Reap
<1>7. ASSUME NEW a \in Action, NEW ok \in BOOLEAN, SyncCompletes(a, ok)
      PROVE  Schedule!Next
  <2>1. a \in Running
    BY <1>7 DEF SyncCompletes, Running
  <2> QED BY <1>7, <2>1, ScheduleEnd DEF SyncCompletes
<1>8. ASSUME UNCHANGED list, (pc' = "build") = (pc = "build")
      PROVE  [Schedule!Next]_(Schedule!svars)
  BY <1>8, LimitStays, ScheduleStutter DEF Held
<1> QED
  BY <1>1, <1>2, <1>3, <1>4, <1>5, <1>6, <1>7, <1>8
  DEF Next, Thread, GoLoop, NothingToStart, LeaveTrigger, WaitReturns,
      LimitReached, Poll, PollEnds, Throw, Exit, Tick, Finished, vars, list

(* Every behaviour of the list, with its thread, scan order, nested calls   *)
(* and event loop, is one of the schedule its clients are promised.         *)
THEOREM Refinement == Spec => ImplementsSchedule
<1> QED BY ScheduleInit, ScheduleNext, HeldAlways, PTL
        DEF Spec, ImplementsSchedule, Schedule!Spec
=============================================================================

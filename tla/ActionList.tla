------------------------------ MODULE ActionList ------------------------------
(***************************************************************************)
(* The action scheduler of rsbackup (src/src/Action.cc), running on the    *)
(* event loop (src/src/EventLoop.cc) in one thread.  Backups, removals of  *)
(* pruned backups and removals of retired volumes are all run by it.       *)
(*                                                                         *)
(* An action of the list is a name; what the list's client configures      *)
(* (resources, predecessors, priority) is a CONSTANT function of it, and   *)
(* the client adds any subset of the actions before calling go().          *)
(***************************************************************************)
EXTENDS Integers, Sequences, FiniteSets

CONSTANTS
  Action,       \* the names of the actions a client may add
  Resource,     \* the names of resources
  Uses,         \* Action::resources
  After,        \* Action::predecessors, in the order of the calls of after()
  Priority,     \* Action::priority
  Position,     \* the order of the names, which is that of the std::map
  Sync,         \* the actions whose go() calls completed() itself
  Hangs,        \* the subprocesses that only end when they are signalled
  Limit,        \* ActionList::limit, 0 for none
  MaxTime       \* bound: the clock stops there

(* What after(name, flags) records: the names that match it, and its flags. *)
Dependency == [names : SUBSET Action, glob : BOOLEAN, succeeded : BOOLEAN]

ASSUME ListAssumption ==
  /\ IsFiniteSet(Action)
  /\ Uses \in [Action -> SUBSET Resource]
  /\ After \in [Action -> Seq(Dependency)]
  /\ \A a \in Action : \A i \in DOMAIN After[a] :
        ~ After[a][i].glob => \E b \in Action : After[a][i].names = {b}
  /\ Priority \in [Action -> Int]
  /\ Position \in [Action -> Nat]
  /\ \A a, b \in Action : Position[a] = Position[b] => a = b
  /\ Sync \subseteq Action
  /\ Hangs \subseteq Action \ Sync
  /\ Limit \in Nat
  /\ MaxTime \in Nat

VARIABLES
  pc,           \* where the thread is
  frames,       \* activations of trigger() below a synchronous go()
  sweeping,     \* EventLoop::wait is in its sweep over the waiters
  actions,      \* the names in ActionList::actions
  state,        \* Action::state
  states,       \* ActionList::states, "none" where there is no entry
  resources,    \* ActionList::resources
  armed,        \* the limit's reactor is in EventLoop::timeouts
  fired,        \* ActionListTimeoutReactor::timedOut
  timedOut,     \* ActionList::timedOut
  child,        \* the subprocess of an action, EventLoop::waiters among them
  signalled,    \* the subprocesses sent SIGTERM
  now           \* the monotonic clock

vars == <<pc, frames, sweeping, actions, state, states, resources, armed, fired,
          timedOut, child, signalled, now>>

list == <<actions, state, states, resources>>

TypeOK ==
  /\ pc \in {"build", "go", "trigger", "sync", "wait", "poll",
             "returned", "threw"}
  /\ frames \in Nat
  /\ sweeping \in BOOLEAN
  /\ actions \subseteq Action
  /\ state \in [Action -> {"Pending", "Running", "Succeeded", "Failed"}]
  /\ states \in [Action -> {"none", "Succeeded", "Failed"}]
  /\ resources \subseteq Resource
  /\ armed \in BOOLEAN
  /\ fired \in BOOLEAN
  /\ timedOut \in BOOLEAN
  /\ child \in [Action -> {"none", "alive", "ok", "failed", "reaped"}]
  /\ signalled \subseteq Action
  /\ now \in Nat

-----------------------------------------------------------------------------
(* EventLoop::waiters: the subprocesses started and not yet waited for.    *)
Waiters == {a \in Action : child[a] \in {"alive", "ok", "failed"}}

Exited(a) == child[a] \in {"ok", "failed"}

(* Faulty: the search ends at the first name that does not match.           *)
FindEvery(p) == p.names # {} /\ p.names \subseteq actions

(* ActionList::find: some matching action is still in the list.            *)
Find(p) == p.names \cap actions # {}

BlockedByResource(a) == Uses[a] \cap resources # {}

(* The sanity check of blocked_by_dependency: a predecessor given by name   *)
(* was never added.  Predecessors before it in the list must be complete,   *)
(* or the function would have returned first.                               *)
FollowsUnknown(a) ==
  \E i \in DOMAIN After[a] :
    /\ ~ After[a][i].glob
    /\ \A b \in After[a][i].names : b \notin actions /\ states[b] = "none"
    /\ \A j \in 1 .. i - 1 : ~ Find(After[a][j])

BlockedByDependency(a) == \E i \in DOMAIN After[a] : Find(After[a][i])

(* Faulty: the ACTION_SUCCEEDED flag is not looked at.                      *)
FailedByAny(a) ==
  \E i \in DOMAIN After[a] : \E b \in After[a][i].names : states[b] = "Failed"

(* A glob ignores the ACTION_SUCCEEDED flag.                               *)
FailedByDependency(a) ==
  \E i \in DOMAIN After[a] :
    /\ After[a][i].glob \/ After[a][i].succeeded
    /\ \E b \in After[a][i].names : states[b] = "Failed"

Pending == {a \in actions : state[a] = "Pending"}

(* What the scan in trigger() finds at an action.                          *)
Unblocked == {a \in Pending : ~ BlockedByResource(a)}

Thrower(a) == a \in Unblocked /\ FollowsUnknown(a)

(* Faulty: an action is failed while some of its predecessors go on.        *)
DoomedEarly(a) ==
  /\ a \in Unblocked
  /\ ~ FollowsUnknown(a)
  /\ FailedByDependency(a)

Doomed(a) ==
  /\ a \in Unblocked
  /\ ~ FollowsUnknown(a)
  /\ ~ BlockedByDependency(a)
  /\ FailedByDependency(a)

Ready(a) ==
  /\ a \in Unblocked
  /\ ~ FollowsUnknown(a)
  /\ ~ BlockedByDependency(a)
  /\ ~ FailedByDependency(a)

(* The scan stops at the first action that ends it.                        *)
StopsScan(a) ==
  /\ Thrower(a) \/ Doomed(a)
  /\ \A b \in Action : Thrower(b) \/ Doomed(b) => Position[a] <= Position[b]

Chosen(a) ==
  /\ Ready(a)
  /\ \A b \in Action :
       /\ ~ Thrower(b)
       /\ ~ Doomed(b)
       /\ Ready(b) => \/ Priority[b] < Priority[a]
                      \/ Priority[b] = Priority[a] /\ Position[a] <= Position[b]

(* The comparison in trigger() is strict.                                  *)
PastLimit == Limit > 0 /\ now > Limit

-----------------------------------------------------------------------------
Init ==
  /\ pc = "build"
  /\ frames = 0
  /\ sweeping = FALSE
  /\ actions = {}
  /\ state = [a \in Action |-> "Pending"]
  /\ states = [a \in Action |-> "none"]
  /\ resources = {}
  /\ armed = FALSE
  /\ fired = FALSE
  /\ timedOut = FALSE
  /\ child = [a \in Action |-> "none"]
  /\ signalled = {}
  /\ now = 0

(* The client calls add(); a name already there is a logic_error.          *)
Add(a) ==
  /\ pc = "build"
  /\ IF a \in actions
       THEN pc' = "threw" /\ UNCHANGED actions
       ELSE actions' = actions \cup {a} /\ UNCHANGED pc
  /\ UNCHANGED <<frames, sweeping, state, states, resources, armed, fired, timedOut,
                 child, signalled, now>>

(* go() registers the limit with the event loop.                           *)
Go ==
  /\ pc = "build"
  /\ pc' = "go"
  /\ armed' = (Limit > 0)
  /\ UNCHANGED <<frames, sweeping, list, fired, timedOut, child, signalled, now>>

(* The head of the loop in go().                                           *)
GoLoop ==
  /\ pc = "go"
  /\ IF actions # {}
       THEN pc' = "trigger" /\ UNCHANGED timedOut
       ELSE pc' = "returned" /\ timedOut' = fired
  /\ UNCHANGED <<frames, sweeping, list, armed, fired, child, signalled, now>>

(* trigger() returns to an activation of trigger() that calls itself again, *)
(* to onWait() in the sweep over the waiters, or to go(), which calls wait(). *)
LeaveTrigger ==
  /\ UNCHANGED sweeping
  /\ IF frames > 0
       THEN pc' = "trigger" /\ frames' = frames - 1
       ELSE pc' = (IF sweeping THEN "poll" ELSE "wait") /\ UNCHANGED frames

(* trigger() finds the limit passed and cancels every pending action.       *)
Cancel ==
  /\ pc = "trigger"
  /\ PastLimit
  /\ actions' = actions \ Pending
  /\ states' = [a \in Action |-> IF a \in Pending THEN "Failed" ELSE states[a]]
  /\ LeaveTrigger
  /\ UNCHANGED <<state, resources, armed, fired, timedOut, child, signalled,
                 now>>

(* trigger() fails an action whose predecessor failed, and starts over.     *)
Skip(a) ==
  /\ pc = "trigger"
  /\ ~ PastLimit
  /\ StopsScan(a)
  /\ Doomed(a)
  /\ actions' = actions \ {a}
  /\ states' = [states EXCEPT ![a] = "Failed"]
  /\ UNCHANGED <<pc, frames, sweeping, state, resources, armed, fired, timedOut, child,
                 signalled, now>>

(* blocked_by_dependency() throws out of go().                              *)
Throw(a) ==
  /\ pc = "trigger"
  /\ ~ PastLimit
  /\ StopsScan(a)
  /\ Thrower(a)
  /\ pc' = "threw"
  /\ UNCHANGED <<frames, sweeping, list, armed, fired, timedOut, child, signalled, now>>

(* trigger() starts the chosen action: Subprocess::go forks and registers   *)
(* the waiter, a synchronous action runs on the same stack.                 *)
Start(a) ==
  /\ pc = "trigger"
  /\ ~ PastLimit
  /\ Chosen(a)
  /\ state' = [state EXCEPT ![a] = "Running"]
  /\ resources' = resources \cup Uses[a]
  /\ IF a \in Sync
       THEN pc' = "sync" /\ UNCHANGED child
       ELSE child' = [child EXCEPT ![a] = "alive"] /\ UNCHANGED pc
  /\ UNCHANGED <<frames, sweeping, actions, states, armed, fired, timedOut, signalled,
                 now>>

(* trigger() finds nothing to do.                                           *)
NothingToStart ==
  /\ pc = "trigger"
  /\ ~ PastLimit
  /\ \A a \in Action : ~ Thrower(a) /\ ~ Doomed(a) /\ ~ Ready(a)
  /\ LeaveTrigger
  /\ UNCHANGED <<list, armed, fired, timedOut, child, signalled, now>>

(* Faulty variants of cleanup(): every resource is released, none is, and   *)
(* trigger() is not called.                                                 *)
CompletedReleasing(a, ok, rs) ==
  /\ resources' = resources \ rs
  /\ state' = [state EXCEPT ![a] = IF ok THEN "Succeeded" ELSE "Failed"]
  /\ states' = [states EXCEPT ![a] = IF ok THEN "Succeeded" ELSE "Failed"]
  /\ actions' = actions \ {a}

CompletedReleasingAll(a, ok) ==
  CompletedReleasing(a, ok, Resource) /\ pc' = "trigger"

CompletedReleasingNone(a, ok) ==
  CompletedReleasing(a, ok, {}) /\ pc' = "trigger"

CompletedQuietly(a, ok) ==
  /\ CompletedReleasing(a, ok, Uses[a])
  /\ pc' = IF sweeping THEN "poll" ELSE "trigger"

(* cleanup(a, ok, true), up to its call of trigger().                       *)
Completed(a, ok) ==
  /\ resources' = resources \ Uses[a]
  /\ state' = [state EXCEPT ![a] = IF ok THEN "Succeeded" ELSE "Failed"]
  /\ states' = [states EXCEPT ![a] = IF ok THEN "Succeeded" ELSE "Failed"]
  /\ actions' = actions \ {a}
  /\ pc' = "trigger"

(* A synchronous action completes inside go(), inside trigger().            *)
SyncCompletes(a, ok) ==
  /\ pc = "sync"
  /\ a \in Sync
  /\ state[a] = "Running"
  /\ Completed(a, ok)
  /\ frames' = frames + 1
  /\ UNCHANGED <<sweeping, armed, fired, timedOut, child, signalled, now>>

-----------------------------------------------------------------------------
(* EventLoop::wait(false), at the head of its loop.  It returns when there  *)
(* is no subprocess left, whatever timeouts are registered.                 *)
WaitReturns ==
  /\ pc = "wait"
  /\ Waiters = {}
  /\ pc' = "go"
  /\ UNCHANGED <<frames, sweeping, list, armed, fired, timedOut, child, signalled, now>>

(* Faulty: only one of the subprocesses is signalled.                       *)
TerminateOneSubprocess ==
  \E a \in Waiters : signalled' = signalled \cup {a}

TerminateSubprocesses == signalled' = signalled \cup Waiters

(* The limit's reactor runs when the clock has reached the limit: here the  *)
(* comparison is not strict.  Two readings of the clock with system calls   *)
(* between them differ, so that after it the clock is past the limit.       *)
LimitReached ==
  /\ pc = "wait"
  /\ Waiters # {}
  /\ armed
  /\ now >= Limit
  /\ armed' = FALSE
  /\ fired' = TRUE
  /\ TerminateSubprocesses
  /\ now' = IF now = Limit THEN now + 1 ELSE now
  /\ UNCHANGED <<pc, frames, sweeping, list, timedOut, child>>

(* pselect() sleeps, for at most 100ms; then the waiters are polled.        *)
Poll ==
  /\ pc = "wait"
  /\ Waiters # {}
  /\ ~ (armed /\ now >= Limit)
  /\ pc' = "poll"
  /\ sweeping' = TRUE
  /\ UNCHANGED <<frames, list, armed, fired, timedOut, child, signalled, now>>

(* wait4() reports a subprocess: Subprocess::onWait completes its action.   *)
Reap(a) ==
  /\ pc = "poll"
  /\ Exited(a)
  /\ child' = [child EXCEPT ![a] = "reaped"]
  /\ Completed(a, child[a] = "ok")
  /\ UNCHANGED <<frames, sweeping, armed, fired, timedOut, signalled, now>>

(* The sweep over the waiters ends.  A subprocess that exits after wait4()  *)
(* looked at it is taken to exit after the sweep.                           *)
PollEnds ==
  /\ pc = "poll"
  /\ \A a \in Action : ~ Exited(a)
  /\ pc' = "wait"
  /\ sweeping' = FALSE
  /\ UNCHANGED <<frames, list, armed, fired, timedOut, child, signalled, now>>

-----------------------------------------------------------------------------
(* The environment: a subprocess ends by itself or because of SIGTERM, and  *)
(* time passes.                                                             *)
Exit(a) ==
  /\ child[a] = "alive"
  /\ a \in Hangs => a \in signalled
  /\ \E status \in {"ok", "failed"} : child' = [child EXCEPT ![a] = status]
  /\ UNCHANGED <<pc, frames, sweeping, list, armed, fired, timedOut, signalled, now>>

Tick ==
  /\ now < MaxTime
  /\ now' = now + 1
  /\ UNCHANGED <<pc, frames, sweeping, list, armed, fired, timedOut, child, signalled>>

Finished == pc \in {"returned", "threw"} /\ UNCHANGED vars

Thread ==
  \/ Go
  \/ GoLoop
  \/ Cancel
  \/ NothingToStart
  \/ WaitReturns
  \/ LimitReached
  \/ Poll
  \/ PollEnds
  \/ \E a \in Action : Add(a) \/ Skip(a) \/ Throw(a) \/ Start(a) \/ Reap(a)
  \/ \E a \in Action, ok \in BOOLEAN : SyncCompletes(a, ok)

Next ==
  \/ Thread
  \/ \E a \in Action : Exit(a)
  \/ Tick
  \/ Finished

Spec == Init /\ [][Next]_vars

(* The thread keeps running, subprocesses end if they can, time passes.     *)
Fairness ==
  /\ WF_vars(Thread)
  /\ \A a \in Action : WF_vars(Exit(a))
  /\ WF_vars(Tick)

FairSpec == Spec /\ Fairness

-----------------------------------------------------------------------------
Running == {a \in Action : state[a] = "Running"}

(* An action that left the list without having been started.                *)
Cancelled(a) == states[a] = "Failed" /\ state[a] = "Pending"

(* "No two actions that require the same resource are run concurrently"    *)
(* (Action.h).  The list keeps a set of names, not of owners: this needs    *)
(* that nobody else's resource is ever erased.                              *)
ResourceExclusion ==
  \A a, b \in Running : a # b => Uses[a] \cap Uses[b] = {}

(* When an action has been started, whatever matches one of its            *)
(* predecessors is complete, a predecessor given by name was in the list,   *)
(* and those that had to succeed have: through every path on which          *)
(* predecessors are failed without running.                                 *)
DependencyOrder ==
  \A a \in Action : state[a] # "Pending" =>
    \A i \in DOMAIN After[a] : \A b \in After[a][i].names :
      /\ b \notin actions
      /\ After[a][i].glob \/ states[b] # "none"
      /\ After[a][i].succeeded => states[b] # "Failed"

(* An action is dropped only because the limit passed or a predecessor did  *)
(* not succeed, and then only after all its predecessors are complete,      *)
(* however failures, completions and the limit interleave.                  *)
SkipJustified ==
  \A a \in Action : Cancelled(a) =>
    \/ PastLimit
    \/ /\ \E i \in DOMAIN After[a] : \E b \in After[a][i].names :
            (After[a][i].glob \/ After[a][i].succeeded) /\ states[b] = "Failed"
       /\ \A i \in DOMAIN After[a] : After[a][i].names \cap actions = {}

(* While the thread sleeps in the event loop, no action of the list could   *)
(* be started or failed: every completion has been followed up, by the      *)
(* nested and repeated calls of trigger().                                  *)
NothingLeftIdle ==
  pc \in {"wait", "poll"} =>
    \A a \in Action : ~ Ready(a) /\ ~ Doomed(a) /\ ~ Thrower(a)

(* When go() has returned, every action has an outcome, that of a cancelled *)
(* one included; no subprocess is left behind and no resource is held.      *)
NothingLeftBehind ==
  pc = "returned" =>
    /\ actions = {}
    /\ Waiters = {}
    /\ Running = {}
    /\ resources = {}

(* The list is consistent: what it remembers of an action in four places    *)
(* agrees.  With TypeOK and the invariants above this is inductive.         *)
Consistent ==
  /\ resources = UNION {Uses[a] : a \in Running}
  /\ Running \subseteq actions
  /\ Waiters = Running \ Sync
  /\ \A a \in actions : states[a] = "none" /\ state[a] \in {"Pending", "Running"}
  /\ \A a \in Action \ actions :
       IF state[a] = "Pending" THEN states[a] \in {"none", "Failed"}
                               ELSE states[a] = state[a]
  /\ \A a, b \in Running \cap Sync : a = b
  /\ pc # "sync" => Running \cap Sync = {}
  /\ pc = "build" => \A a \in Action : states[a] = "none" /\ state[a] = "Pending"
  /\ pc = "returned" => actions = {}

(* go() comes to an end, although some subprocesses end only when the       *)
(* limit's reactor signals them.                                            *)
Termination == <>(pc \in {"returned", "threw"})

(* "Return true if the time limit was exceeded" (Action.h): when trigger()  *)
(* has cancelled actions for it, timeLimitExceeded() says so.               *)
LimitReported ==
  pc = "returned" =>
    \A a \in Action : Cancelled(a) /\ ~ FailedByDependency(a) => timedOut

-----------------------------------------------------------------------------
(* The life of an action as ActionSchedule sees it.                         *)
Status ==
  [a \in Action |->
     IF state[a] # "Pending" THEN state[a]
     ELSE IF a \in actions THEN "Pending"
     ELSE IF states[a] = "none" THEN "Absent" ELSE "Cancelled"]

Schedule == INSTANCE ActionSchedule WITH
  status <- Status, open <- (pc = "build"), late <- PastLimit

(* The list implements the schedule it promises its clients.                *)
ImplementsSchedule == Schedule!Spec
=============================================================================

---------------------------- MODULE BackupThreads ----------------------------
(***************************************************************************)
(* The threads of a backup (src/src/MakeBackup.cc): one per host, one per  *)
(* volume, and main.  One global mutex protects everything; it is released *)
(* only while an rsync runs and while a thread waits on the condition      *)
(* variable.  Devices and concurrency groups are limits of one use each.   *)
(***************************************************************************)
EXTENDS Naturals, FiniteSets

CONSTANTS
  Host,         \* the hosts selected for backup
  Volume,       \* their selected volumes
  Device,       \* globalConfig.devices
  Group,        \* the concurrency groups
  HostOf,       \* Volume::parent
  GroupOf,      \* Volume::group
  Available,    \* the devices with an enabled store
  HasPre,       \* volumes with a pre-volume-hook
  HasPost,      \* volumes with a post-volume-hook
  HasCheck,     \* volumes with check-file or check-mounted
  CheckMounted, \* volumes with check-mounted
  Main, NoOne,  \* the main thread, and nobody
  MaxSpurious   \* bound: condition variables wake up that often unasked

ASSUME ThreadsAssumption ==
  /\ IsFiniteSet(Volume) /\ IsFiniteSet(Device)
  /\ HostOf \in [Volume -> Host]
  /\ GroupOf \in [Volume -> Group]
  /\ Available \subseteq Device
  /\ HasPre \subseteq Volume /\ HasPost \subseteq Volume
  /\ HasCheck \subseteq Volume /\ CheckMounted \subseteq HasCheck
  /\ Main # NoOne
  /\ Main \notin Volume /\ NoOne \notin Volume /\ NoOne \notin Device
  /\ MaxSpurious \in Nat

VARIABLES
  lock,         \* the owner of globalLock
  main,         \* where the main thread is
  host,         \* where each host's thread is
  vol,          \* where each volume's thread is
  devices,      \* the local variable devices of each volume's thread
  cur,          \* the device it is working on
  pvh,          \* its pre-volume-hook state
  path,         \* Volume::path, as configured or as the hook rewrote it
  deviceUnused, \* Device::concurrency
  groupUnused,  \* concurrencyGroups
  outcome,      \* what became of each volume on each device
  preRuns, postRuns,    \* how often each hook was started
  errors,       \* globalErrors
  spurious,     \* spurious wakeups so far
  aborted       \* the exception that left a thread, ending the program

vars == <<lock, main, host, vol, devices, cur, pvh, path, deviceUnused,
          groupUnused, outcome, preRuns, postRuns, errors, spurious, aborted>>

limits == <<deviceUnused, groupUnused>>

results == <<outcome, preRuns, postRuns, errors>>

TypeOK ==
  /\ lock \in {Main, NoOne} \cup Volume
  /\ main \in {"starting", "joining", "done"}
  /\ host \in [Host -> {"unborn", "checking", "joining", "done"}]
  /\ vol \in [Volume -> {"unborn", "start", "loop", "waiting", "woken",
                         "needs", "available", "pre", "rsync", "relock",
                         "record", "post", "done"}]
  /\ devices \in [Volume -> SUBSET Device]
  /\ cur \in [Volume -> Device \cup {NoOne}]
  /\ pvh \in [Volume -> {"NOT_RUN", "RUN", "FAILED"}]
  /\ path \in [Volume -> {"real", "rewritten"}]
  /\ deviceUnused \in [Device -> Nat]
  /\ groupUnused \in [Group -> Nat]
  /\ outcome \in [Volume -> [Device -> {"none", "skipped", "running",
                                        "complete", "failed"}]]
  /\ preRuns \in [Volume -> Nat]
  /\ postRuns \in [Volume -> Nat]
  /\ errors \in Nat
  /\ spurious \in Nat
  /\ aborted \in {"no", "check", "crash", "database"}

Init ==
  /\ lock = Main
  /\ main = "starting"
  /\ host = [h \in Host |-> "unborn"]
  /\ vol = [v \in Volume |-> "unborn"]
  /\ devices = [v \in Volume |-> {}]
  /\ cur = [v \in Volume |-> NoOne]
  /\ pvh = [v \in Volume |-> "NOT_RUN"]
  /\ path = [v \in Volume |-> "real"]
  /\ deviceUnused = [d \in Device |-> 1]
  /\ groupUnused = [g \in Group |-> 1]
  /\ outcome = [v \in Volume |-> [d \in Device |-> "none"]]
  /\ preRuns = [v \in Volume |-> 0]
  /\ postRuns = [v \in Volume |-> 0]
  /\ errors = 0
  /\ spurious = 0
  /\ aborted = "no"

-----------------------------------------------------------------------------
(* makeBackups() starts a thread per host and releases the lock to join.    *)
StartHosts ==
  /\ main = "starting"
  /\ main' = "joining"
  /\ lock' = NoOne
  /\ host' = [h \in Host |-> "checking"]
  /\ UNCHANGED <<vol, devices, cur, pvh, path, limits, results, spurious,
                 aborted>>

(* backupHost(): Host::available() ran without the lock; under it, an        *)
(* unreachable host is reported; then a thread is started per volume.        *)
CheckHost(h) ==
  /\ host[h] = "checking"
  /\ lock = NoOne
  /\ \/ /\ host' = [host EXCEPT ![h] = "done"]
        /\ UNCHANGED vol
     \/ /\ host' = [host EXCEPT ![h] = "joining"]
        /\ vol' = [v \in Volume |-> IF HostOf[v] = h THEN "start" ELSE vol[v]]
  /\ UNCHANGED <<lock, main, devices, cur, pvh, path, limits, results,
                 spurious, aborted>>

(* An exception leaves the thread's function: std::terminate().              *)
Terminate(exception) ==
  /\ aborted' = exception
  /\ UNCHANGED <<lock, main, host, vol, devices, cur, pvh, path, limits,
                 results, spurious>>

(* A command of the host's check is killed by a signal, for which           *)
(* Host::available() and Host::invoke() throw.                              *)
HostCheckKilled(h) ==
  /\ host[h] = "checking"
  /\ Terminate("crash")

(* Faulty: the threads of the volumes are detached, not joined.             *)
ForgetVolumes(h) ==
  /\ host[h] = "joining"
  /\ host' = [host EXCEPT ![h] = "done"]
  /\ UNCHANGED <<lock, main, vol, devices, cur, pvh, path, limits, results,
                 spurious, aborted>>

JoinVolumes(h) ==
  /\ host[h] = "joining"
  /\ \A v \in Volume : HostOf[v] = h => vol[v] = "done"
  /\ host' = [host EXCEPT ![h] = "done"]
  /\ UNCHANGED <<lock, main, vol, devices, cur, pvh, path, limits, results,
                 spurious, aborted>>

JoinHosts ==
  /\ main = "joining"
  /\ \A h \in Host : host[h] = "done"
  /\ lock = NoOne
  /\ lock' = Main
  /\ main' = "done"
  /\ UNCHANGED <<host, vol, devices, cur, pvh, path, limits, results, spurious,
                 aborted>>

-----------------------------------------------------------------------------
(* backupVolumeToAllDevices(): the thread takes the global lock, at its      *)
(* start, when the condition variable lets it go, and after an rsync.        *)
Lock(v) ==
  /\ vol[v] \in {"start", "woken", "relock"}
  /\ lock = NoOne
  /\ lock' = v
  /\ vol' = [vol EXCEPT ![v] = IF @ = "relock" THEN "record" ELSE "loop"]
  /\ devices' = [devices EXCEPT ![v] = IF vol[v] = "start" THEN Device ELSE @]
  /\ UNCHANGED <<main, host, cur, pvh, path, limits, results, spurious, aborted>>

MoreToDo(v) == devices[v] # {} /\ pvh[v] # "FAILED"

(* Faulty: the group's limit is not looked at.                              *)
UsableDevice(v, d) == deviceUnused[d] > 0

Usable(v, d) == groupUnused[GroupOf[v]] > 0 /\ deviceUnused[d] > 0

(* The scan of the set takes the first usable device in the order of the    *)
(* set, which is that of addresses: any of them.                            *)
Take(v) ==
  /\ vol[v] = "loop"
  /\ MoreToDo(v)
  /\ \E d \in devices[v] :
       /\ Usable(v, d)
       /\ cur' = [cur EXCEPT ![v] = d]
       /\ deviceUnused' = [deviceUnused EXCEPT ![d] = @ - 1]
  /\ groupUnused' = [groupUnused EXCEPT ![GroupOf[v]] = @ - 1]
  /\ vol' = [vol EXCEPT ![v] = "needs"]
  /\ UNCHANGED <<lock, main, host, devices, pvh, path, results, spurious,
                 aborted>>

(* There is nothing it could do: the thread waits, giving up the lock.      *)
Wait(v) ==
  /\ vol[v] = "loop"
  /\ MoreToDo(v)
  /\ \A d \in devices[v] : ~ Usable(v, d)
  /\ vol' = [vol EXCEPT ![v] = "waiting"]
  /\ lock' = NoOne
  /\ UNCHANGED <<main, host, devices, cur, pvh, path, limits, results, spurious,
                 aborted>>

WakeUnasked(v) ==
  /\ vol[v] = "waiting"
  /\ spurious < MaxSpurious
  /\ spurious' = spurious + 1
  /\ vol' = [vol EXCEPT ![v] = "woken"]
  /\ UNCHANGED <<lock, main, host, devices, cur, pvh, path, limits, results,
                 aborted>>

(* Faulty: only one of the waiting threads is woken.                        *)
NotifyOne(v) ==
  \E w \in Volume :
    /\ vol[w] = "waiting" \/ \A x \in Volume : vol[x] # "waiting"
    /\ vol' = [x \in Volume |-> IF x = v THEN "loop"
                                ELSE IF x = w /\ vol[w] = "waiting" THEN "woken"
                                ELSE vol[x]]

NotifyAll(v) ==
  vol' = [w \in Volume |-> IF w = v THEN "loop"
                           ELSE IF vol[w] = "waiting" THEN "woken" ELSE vol[w]]

(* Faulty: the device's limit is not given back.                            *)
ReleaseGroup(v) ==
  /\ groupUnused' = [groupUnused EXCEPT ![GroupOf[v]] = @ + 1]
  /\ UNCHANGED deviceUnused

Release(v) ==
  /\ deviceUnused' = [deviceUnused EXCEPT ![cur[v]] = @ + 1]
  /\ groupUnused' = [groupUnused EXCEPT ![GroupOf[v]] = @ + 1]

(* maybeBackupVolumeToDevice() has returned to the loop.                     *)
FinishDevice(v) ==
  /\ devices' = [devices EXCEPT ![v] = @ \ {cur[v]}]
  /\ cur' = [cur EXCEPT ![v] = NoOne]
  /\ NotifyAll(v)
  /\ Release(v)

(* Nothing is to be done on this device: the device pattern, the backup      *)
(* policy, a check, or the store says so.                                   *)
SkipDevice(v) ==
  /\ outcome' = [outcome EXCEPT ![v][cur[v]] = "skipped"]
  /\ FinishDevice(v)
  /\ UNCHANGED <<lock, main, host, pvh, path, preRuns, postRuns, errors,
                 spurious, aborted>>

(* performBackup() records the backup as underway, and rsyncBackup()         *)
(* releases the lock to run the actions.                                    *)
StartRsync(v) ==
  /\ outcome' = [outcome EXCEPT ![v][cur[v]] = "running"]
  /\ vol' = [vol EXCEPT ![v] = "rsync"]
  /\ lock' = NoOne

(* Volume::needsBackup() says BackupRequired: backupVolumeToDevice(), if the *)
(* device's store is there.  A volume without a hook counts as having run it. *)
Required(v) ==
  IF cur[v] \notin Available THEN SkipDevice(v)
  ELSE IF pvh[v] = "NOT_RUN" /\ v \in HasPre
    THEN /\ vol' = [vol EXCEPT ![v] = "pre"]
         /\ preRuns' = [preRuns EXCEPT ![v] = @ + 1]
         /\ UNCHANGED <<lock, main, host, devices, cur, pvh, path, limits,
                        outcome, postRuns, errors, spurious, aborted>>
    ELSE /\ pvh' = [pvh EXCEPT ![v] = "RUN"]
         /\ StartRsync(v)
         /\ UNCHANGED <<main, host, devices, cur, path, limits, preRuns,
                        postRuns, errors, spurious, aborted>>

(* Volume::needsBackup(): the device pattern and the backup policy, then     *)
(* the checks if the volume has any.                                        *)
NeedsBackup(v) ==
  /\ vol[v] = "needs"
  /\ \/ SkipDevice(v)
     \/ v \notin HasCheck /\ Required(v)
     \/ /\ v \in HasCheck
        /\ vol' = [vol EXCEPT ![v] = "available"]
        /\ UNCHANGED <<lock, main, host, devices, cur, pvh, path, limits,
                       results, spurious, aborted>>

(* Volume::available() has run its commands: the volume is there or not.     *)
CheckVolume(v) ==
  /\ vol[v] = "available"
  /\ SkipDevice(v) \/ Required(v)

(* The stat of check-mounted fails: Host::invoke() throws SubprocessFailed   *)
(* when it captures output.                                                 *)
CheckThrows(v) ==
  /\ vol[v] = "available"
  /\ v \in CheckMounted
  /\ Terminate("check")

(* So it does, whatever the check, when a command is killed by a signal.     *)
CheckKilled(v) ==
  /\ vol[v] = "available"
  /\ Terminate("crash")

(* A database error other than a busy one leaves performBackup().            *)
DatabaseThrows(v) ==
  /\ vol[v] \in {"needs", "available", "pre", "record"}
  /\ Terminate("database")

(* Faulty: the hook runs again for the next device.                         *)
PreHookForgotten(v) ==
  /\ vol[v] = "pre"
  /\ \E p \in {path[v], "rewritten"} : path' = [path EXCEPT ![v] = p]
  /\ StartRsync(v)
  /\ UNCHANGED <<main, host, devices, cur, pvh, limits, preRuns, postRuns,
                 errors, spurious, aborted>>

(* runPreVolumeHook(): the hook succeeds and the backup follows; its output  *)
(* may replace the volume's path.                                           *)
PreHookRuns(v) ==
  /\ vol[v] = "pre"
  /\ pvh' = [pvh EXCEPT ![v] = "RUN"]
  /\ \E p \in {path[v], "rewritten"} : path' = [path EXCEPT ![v] = p]
  /\ StartRsync(v)
  /\ UNCHANGED <<main, host, devices, cur, limits, preRuns, postRuns, errors,
                 spurious, aborted>>

(* Faulty: EX_TEMPFAIL counts as an error like any other status.            *)
AnyHookFailureCounts(v, tempfail) ==
  /\ vol[v] = "pre"
  /\ pvh' = [pvh EXCEPT ![v] = "FAILED"]
  /\ errors' = errors + 1
  /\ outcome' = [outcome EXCEPT ![v][cur[v]] = IF tempfail THEN "skipped"
                                                           ELSE "failed"]
  /\ FinishDevice(v)
  /\ UNCHANGED <<lock, main, host, path, preRuns, postRuns, spurious, aborted>>

(* The hook fails: an error, unless its status is EX_TEMPFAIL.               *)
PreHookFails(v, tempfail) ==
  /\ vol[v] = "pre"
  /\ pvh' = [pvh EXCEPT ![v] = "FAILED"]
  /\ errors' = IF tempfail THEN errors ELSE errors + 1
  /\ outcome' = [outcome EXCEPT ![v][cur[v]] = IF tempfail THEN "skipped"
                                                           ELSE "failed"]
  /\ FinishDevice(v)
  /\ UNCHANGED <<lock, main, host, path, preRuns, postRuns, spurious, aborted>>

(* The actions of the backup have run; the thread wants the lock back.       *)
RsyncEnds(v) ==
  /\ vol[v] = "rsync"
  /\ vol' = [vol EXCEPT ![v] = "relock"]
  /\ UNCHANGED <<lock, main, host, devices, cur, pvh, path, limits, results,
                 spurious, aborted>>

(* performBackup() records the outcome: the loop that retries while the      *)
(* database is busy keeps the lock.                                         *)
Record(v, ok) ==
  /\ vol[v] = "record"
  /\ outcome' = [outcome EXCEPT ![v][cur[v]] = IF ok THEN "complete"
                                                      ELSE "failed"]
  /\ errors' = IF ok THEN errors ELSE errors + 1
  /\ FinishDevice(v)
  /\ UNCHANGED <<lock, main, host, pvh, path, preRuns, postRuns, spurious,
                 aborted>>

(* Faulty: the thread gives the lock up before its last hook.               *)
LeaveLoopUnlocked(v) ==
  /\ vol[v] = "loop"
  /\ ~ MoreToDo(v)
  /\ lock' = NoOne
  /\ IF pvh[v] = "RUN" /\ v \in HasPost
       THEN /\ vol' = [vol EXCEPT ![v] = "post"]
            /\ postRuns' = [postRuns EXCEPT ![v] = @ + 1]
       ELSE /\ vol' = [vol EXCEPT ![v] = "done"]
            /\ UNCHANGED postRuns
  /\ UNCHANGED <<main, host, devices, cur, pvh, path, limits, outcome, preRuns,
                 errors, spurious, aborted>>

(* The loop is over: runPostVolumeHook(), and the thread ends.               *)
LeaveLoop(v) ==
  /\ vol[v] = "loop"
  /\ ~ MoreToDo(v)
  /\ IF pvh[v] = "RUN" /\ v \in HasPost
       THEN /\ vol' = [vol EXCEPT ![v] = "post"]
            /\ postRuns' = [postRuns EXCEPT ![v] = @ + 1]
            /\ UNCHANGED lock
       ELSE /\ vol' = [vol EXCEPT ![v] = "done"]
            /\ lock' = NoOne
            /\ UNCHANGED postRuns
  /\ UNCHANGED <<main, host, devices, cur, pvh, path, limits, outcome, preRuns,
                 errors, spurious, aborted>>

PostHookEnds(v) ==
  /\ vol[v] = "post"
  /\ vol' = [vol EXCEPT ![v] = "done"]
  /\ lock' = NoOne
  /\ UNCHANGED <<main, host, devices, cur, pvh, path, limits, results, spurious,
                 aborted>>

-----------------------------------------------------------------------------
VolumeStep(v) ==
  \/ Lock(v)
  \/ Take(v)
  \/ Wait(v)
  \/ NeedsBackup(v)
  \/ CheckVolume(v)
  \/ CheckThrows(v)
  \/ CheckKilled(v)
  \/ DatabaseThrows(v)
  \/ PreHookRuns(v)
  \/ \E b \in BOOLEAN : PreHookFails(v, b) \/ Record(v, b)
  \/ RsyncEnds(v)
  \/ LeaveLoop(v)
  \/ PostHookEnds(v)

HostStep(h) == CheckHost(h) \/ HostCheckKilled(h) \/ JoinVolumes(h)

MainStep == StartHosts \/ JoinHosts

Over == aborted # "no" \/ main = "done"

Next ==
  \/ /\ aborted = "no"
     /\ \/ MainStep
        \/ \E h \in Host : HostStep(h)
        \/ \E v \in Volume : VolumeStep(v) \/ WakeUnasked(v)
  \/ Over /\ UNCHANGED vars

Spec == Init /\ [][Next]_vars

(* Threads are scheduled and commands end; nothing is assumed of the order   *)
(* in which threads get the mutex.                                          *)
Fairness ==
  /\ WF_vars(aborted = "no" /\ MainStep)
  /\ \A h \in Host : WF_vars(aborted = "no" /\ HostStep(h))
  /\ \A v \in Volume : WF_vars(aborted = "no" /\ VolumeStep(v))

FairSpec == Spec /\ Fairness

-----------------------------------------------------------------------------
(* The thread of v holds the limits of a device and of its group.           *)
Holding(v) ==
  vol[v] \in {"needs", "available", "pre", "rsync", "relock", "record"}

InHook(v) == vol[v] \in {"pre", "post"}

(* "Any given device only gets used for one thing at a time ... No          *)
(* concurrency group will ever have more than one backup made from it any a *)
(* time" (rsbackup.5), although the lock is given up in the middle.         *)
LimitsRespected ==
  \A v, w \in Volume : v # w /\ Holding(v) /\ Holding(w) =>
    cur[v] # cur[w] /\ GroupOf[v] # GroupOf[w]

(* "No two hooks will be executed concurrently ... However, a hook may      *)
(* execute while a backup (for a different concurrency group and a different *)
(* device) is executing" (rsbackup.5).  A post-volume-hook runs when the     *)
(* limits of its volume have been given back, so that only the lock keeps    *)
(* the next backup of its group away.                                       *)
HooksApart ==
  \A v, w \in Volume : v # w /\ InHook(v) =>
    /\ ~ InHook(w)
    /\ vol[w] \in {"rsync", "relock"} =>
         GroupOf[v] # GroupOf[w] /\ cur[v] # cur[w]

(* Whatever the order in which devices become free, the hooks of a volume    *)
(* bracket all its backups: each runs at most once, the first before every   *)
(* rsync, the other after the last, and exactly when the first succeeded.    *)
HooksBracket ==
  \A v \in Volume :
    /\ preRuns[v] <= 1 /\ postRuns[v] <= 1
    /\ vol[v] \in {"rsync", "relock", "record"} =>
         /\ postRuns[v] = 0
         /\ v \in HasPre => preRuns[v] = 1
    /\ vol[v] = "done" =>
         (postRuns[v] = 1 <=> pvh[v] = "RUN" /\ v \in HasPost)

(* No wakeup is lost: a thread waits only while each device it still wants,  *)
(* or its group, is in the hands of a thread that will notify it.            *)
WaitersCovered ==
  \A v \in Volume : vol[v] = "waiting" =>
    \/ \E w \in Volume : Holding(w) /\ GroupOf[w] = GroupOf[v]
    \/ \A d \in devices[v] : \E w \in Volume : Holding(w) /\ cur[w] = d

Failures == {p \in Volume \X Device : outcome[p[1]][p[2]] = "failed"}

(* globalErrors, and so the exit status, counts each failed backup and each  *)
(* hook that failed hard, once.                                             *)
ErrorsCounted == errors = Cardinality(Failures)

(* When makeBackups() returns, every thread is gone, every limit has been    *)
(* given back, no backup is under way, and the volumes of reachable hosts    *)
(* have been tried on every device unless their hook failed.                 *)
AllJoined ==
  main = "done" =>
    /\ lock = Main
    /\ \A d \in Device : deviceUnused[d] = 1
    /\ \A g \in Group : groupUnused[g] = 1
    /\ \A v \in Volume : vol[v] # "unborn" /\ pvh[v] # "FAILED" =>
         \A d \in Device : outcome[v][d] \in {"skipped", "complete", "failed"}

(* What every reachable state satisfies: the strengthening of the            *)
(* invariants above that each step preserves.                               *)
Locking ==
  /\ lock = Main <=> main # "joining"
  /\ \A v \in Volume : lock = v <=>
       vol[v] \in {"loop", "needs", "available", "pre", "record", "post"}

Limits ==
  /\ \A d \in Device :
       /\ deviceUnused[d] <= 1
       /\ deviceUnused[d] = 0 <=> \E v \in Volume : Holding(v) /\ cur[v] = d
  /\ \A g \in Group :
       /\ groupUnused[g] <= 1
       /\ groupUnused[g] = 0 <=> \E v \in Volume : Holding(v) /\ GroupOf[v] = g

Looping ==
  \A v \in Volume :
    /\ vol[v] \in {"waiting", "woken"} \/ Holding(v) => MoreToDo(v)
    /\ IF Holding(v) THEN cur[v] \in devices[v] ELSE cur[v] = NoOne
    /\ \/ vol[v] = "post"
       \/ vol[v] = "loop" /\ ~ MoreToDo(v) /\ pvh[v] = "RUN"
       => groupUnused[GroupOf[v]] = 1

Hooking ==
  \A v \in Volume :
    /\ vol[v] \in {"unborn", "start", "pre"} => pvh[v] = "NOT_RUN"
    /\ vol[v] = "pre" => v \in HasPre
    /\ vol[v] \in {"rsync", "relock", "record", "post"} => pvh[v] = "RUN"
    /\ vol[v] = "post" => v \in HasPost
    /\ preRuns[v] = IF v \in HasPre /\ (vol[v] = "pre" \/ pvh[v] # "NOT_RUN")
                      THEN 1 ELSE 0
    /\ postRuns[v] = IF v \in HasPost /\ pvh[v] = "RUN"
                          /\ vol[v] \in {"post", "done"}
                       THEN 1 ELSE 0

Settled ==
  \A v \in Volume :
    /\ vol[v] \in {"unborn", "start"} =>
         devices[v] = {} /\ \A d \in Device : outcome[v][d] = "none"
    /\ \A d \in Device :
         /\ d \in devices[v] => outcome[v][d] \in {"none", "running"}
         /\ d \notin devices[v] /\ vol[v] \notin {"unborn", "start"} =>
              outcome[v][d] \in {"skipped", "complete", "failed"}
    /\ vol[v] \in {"post", "done"} => ~ MoreToDo(v)

Started ==
  /\ main = "starting" => \A h \in Host : host[h] = "unborn"
  /\ main = "done" => \A h \in Host : host[h] = "done"
  /\ \A v \in Volume :
       /\ host[HostOf[v]] \in {"unborn", "checking"} => vol[v] = "unborn"
       /\ host[HostOf[v]] = "done" => vol[v] \in {"unborn", "done"}

Consistent ==
  /\ TypeOK /\ Locking /\ Limits /\ LimitsRespected
  /\ Looping /\ Hooking /\ Settled /\ Started

(* The backup comes to an end.                                              *)
Termination == <>Over

(* "Backup is skipped if check-mounted fails" (tests/check-mounted), and     *)
(* needsBackup() has a value for it: a check that fails does not end the    *)
(* program.                                                                 *)
FailedCheckSkips == aborted # "check"

(* rsbackup.5 of check-file and check-mounted: the "check is done before     *)
(* executing the pre-volume-hook, so it applies to the real path to the      *)
(* volume, not the rewritten path".                                         *)
ChecksRealPath ==
  \A v \in Volume : vol[v] = "available" => path[v] = "real"
=============================================================================

------------------------- MODULE BackupThreadsProofs -------------------------
(***************************************************************************)
(* Proofs of what the runs of BackupThreads check, for any hosts, volumes,  *)
(* devices, concurrency groups and hooks.                                   *)
(***************************************************************************)
EXTENDS BackupThreads, FiniteSetTheorems, TLAPS

(* The ways a thread leaves maybeBackupVolumeToDevice(), starts the          *)
(* pre-volume-hook, and starts an rsync, whatever the caller.                *)
Finishes(v, result) ==
  /\ vol[v] \in {"needs", "available", "pre", "record"}
  /\ outcome' = [outcome EXCEPT ![v][cur[v]] = result]
  /\ errors' = IF result = "failed" THEN errors + 1 ELSE errors
  /\ pvh' = IF vol[v] = "pre" THEN [pvh EXCEPT ![v] = "FAILED"] ELSE pvh
  /\ FinishDevice(v)
  /\ UNCHANGED <<lock, main, host, path, preRuns, postRuns, spurious, aborted>>

StartsHook(v) ==
  /\ vol[v] \in {"needs", "available"}
  /\ pvh[v] = "NOT_RUN" /\ v \in HasPre
  /\ vol' = [vol EXCEPT ![v] = "pre"]
  /\ preRuns' = [preRuns EXCEPT ![v] = @ + 1]
  /\ UNCHANGED <<lock, main, host, devices, cur, pvh, path, limits, outcome,
                 postRuns, errors, spurious, aborted>>

StartsRsync(v) ==
  /\ vol[v] \in {"needs", "available", "pre"}
  /\ vol[v] # "pre" => pvh[v] # "NOT_RUN" \/ v \notin HasPre
  /\ pvh' = [pvh EXCEPT ![v] = "RUN"]
  /\ path' \in [Volume -> {"real", "rewritten"}]
  /\ StartRsync(v)
  /\ UNCHANGED <<main, host, devices, cur, limits, preRuns, postRuns, errors,
                 spurious, aborted>>

StartsCheck(v) ==
  /\ vol[v] = "needs"
  /\ vol' = [vol EXCEPT ![v] = "available"]
  /\ UNCHANGED <<lock, main, host, devices, cur, pvh, path, limits, results,
                 spurious, aborted>>

Aborts ==
  /\ aborted' \in {"check", "crash", "database"}
  /\ UNCHANGED <<lock, main, host, vol, devices, cur, pvh, path, limits,
                 results, spurious>>

(* A step of a volume's thread, by what it does to the state.                *)
ThreadStep(v) ==
  \/ Lock(v) \/ Take(v) \/ Wait(v) \/ WakeUnasked(v)
  \/ StartsCheck(v) \/ StartsHook(v) \/ StartsRsync(v)
  \/ \E result \in {"skipped", "complete", "failed"} : Finishes(v, result)
  \/ RsyncEnds(v) \/ LeaveLoop(v) \/ PostHookEnds(v)

LEMMA SkipFinishes ==
  ASSUME NEW v \in Volume, SkipDevice(v), vol[v] \in {"needs", "available"}
  PROVE  Finishes(v, "skipped")
BY DEF SkipDevice, Finishes

LEMMA RequiredSteps ==
  ASSUME TypeOK, NEW v \in Volume, Required(v),
         vol[v] \in {"needs", "available"}
  PROVE  ThreadStep(v)
<1>1. CASE cur[v] \notin Available
  BY <1>1, SkipFinishes DEF Required, ThreadStep
<1>2. CASE cur[v] \in Available /\ pvh[v] = "NOT_RUN" /\ v \in HasPre
  BY <1>2 DEF Required, ThreadStep, StartsHook
<1>3. CASE cur[v] \in Available /\ ~ (pvh[v] = "NOT_RUN" /\ v \in HasPre)
  BY <1>3 DEF Required, ThreadStep, StartsRsync, TypeOK
<1> QED BY <1>1, <1>2, <1>3

LEMMA VolumeSteps ==
  ASSUME TypeOK, NEW v \in Volume, VolumeStep(v) \/ WakeUnasked(v)
  PROVE  ThreadStep(v) \/ Aborts
<1>1. CASE NeedsBackup(v)
  BY <1>1, SkipFinishes, RequiredSteps
  DEF NeedsBackup, ThreadStep, StartsCheck
<1>2. CASE CheckVolume(v)
  BY <1>2, SkipFinishes, RequiredSteps DEF CheckVolume, ThreadStep
<1>3. CASE CheckThrows(v) \/ CheckKilled(v) \/ DatabaseThrows(v)
  BY <1>3 DEF CheckThrows, CheckKilled, DatabaseThrows, Terminate, Aborts
<1>4. CASE PreHookRuns(v)
  <2>1. path' \in [Volume -> {"real", "rewritten"}]
    BY <1>4 DEF PreHookRuns, TypeOK
  <2> QED BY <1>4, <2>1 DEF PreHookRuns, StartsRsync, ThreadStep
<1>5. ASSUME NEW b \in BOOLEAN, PreHookFails(v, b) PROVE ThreadStep(v)
  <2>1. CASE b
    <3>1. Finishes(v, "skipped") BY <1>5, <2>1 DEF PreHookFails, Finishes
    <3> QED BY <3>1 DEF ThreadStep
  <2>2. CASE ~ b
    <3>1. Finishes(v, "failed") BY <1>5, <2>2 DEF PreHookFails, Finishes
    <3> QED BY <3>1 DEF ThreadStep
  <2> QED BY <2>1, <2>2
<1>6. ASSUME NEW b \in BOOLEAN, Record(v, b) PROVE ThreadStep(v)
  <2>1. CASE b
    <3>1. Finishes(v, "complete") BY <1>6, <2>1 DEF Record, Finishes
    <3> QED BY <3>1 DEF ThreadStep
  <2>2. CASE ~ b
    <3>1. Finishes(v, "failed") BY <1>6, <2>2 DEF Record, Finishes
    <3> QED BY <3>1 DEF ThreadStep
  <2> QED BY <2>1, <2>2
<1> QED BY <1>1, <1>2, <1>3, <1>4, <1>5, <1>6 DEF VolumeStep, ThreadStep

LEMMA StepCases ==
  ASSUME TypeOK, [Next]_vars
  PROVE  \/ StartHosts \/ JoinHosts \/ Aborts \/ UNCHANGED vars
         \/ \E h \in Host : CheckHost(h) \/ JoinVolumes(h)
         \/ \E v \in Volume : ThreadStep(v)
BY VolumeSteps
DEF Next, MainStep, HostStep, HostCheckKilled, Terminate, Aborts

-----------------------------------------------------------------------------
LEMMA TypeInit == Init => TypeOK
BY ThreadsAssumption DEF Init, TypeOK

(* The changes all the ways of leaving the loop's body make keep the types.  *)
LEMMA TypeFinishes ==
  ASSUME TypeOK, NEW v \in Volume,
         NEW result \in {"skipped", "complete", "failed"}, Finishes(v, result)
  PROVE  TypeOK'
<1> USE DEF TypeOK, Finishes, FinishDevice
<1>1. devices' \in [Volume -> SUBSET Device] /\ cur' \in [Volume -> Device \cup {NoOne}]
  OBVIOUS
<1>2. vol' \in [Volume -> {"unborn", "start", "loop", "waiting", "woken",
                         "needs", "available", "pre", "rsync", "relock",
                         "record", "post", "done"}]
  BY DEF NotifyAll
<1>3. deviceUnused' \in [Device -> Nat]
  <2>1. deviceUnused' = [deviceUnused EXCEPT ![cur[v]] = @ + 1]
    BY DEF Release
  <2>2. cur[v] \in Device => deviceUnused[cur[v]] + 1 \in Nat
    OBVIOUS
  <2> QED BY <2>1, <2>2
<1>4. groupUnused' \in [Group -> Nat]
  <2>1. groupUnused' = [groupUnused EXCEPT ![GroupOf[v]] = @ + 1]
    BY DEF Release
  <2>2. GroupOf[v] \in Group => groupUnused[GroupOf[v]] + 1 \in Nat
    OBVIOUS
  <2> QED BY <2>1, <2>2
<1>5. outcome' \in [Volume -> [Device -> {"none", "skipped", "running",
                                         "complete", "failed"}]]
  <2>1. [outcome[v] EXCEPT ![cur[v]] = result] \in
          [Device -> {"none", "skipped", "running", "complete", "failed"}]
    OBVIOUS
  <2> QED BY <2>1
<1>6. pvh' \in [Volume -> {"NOT_RUN", "RUN", "FAILED"}] /\ errors' \in Nat
  OBVIOUS
<1> QED BY <1>1, <1>2, <1>3, <1>4, <1>5, <1>6

LEMMA TypeNext == TypeOK /\ [Next]_vars => TypeOK'
<1> SUFFICES ASSUME TypeOK, [Next]_vars PROVE TypeOK'
  OBVIOUS
<1> USE ThreadsAssumption DEF TypeOK, limits, results
<1>1. CASE StartHosts BY <1>1 DEF StartHosts
<1>2. CASE JoinHosts BY <1>2 DEF JoinHosts
<1>3. CASE UNCHANGED vars BY <1>3 DEF vars
<1>4. ASSUME NEW h \in Host, CheckHost(h) PROVE TypeOK'
  BY <1>4 DEF CheckHost
<1>5. ASSUME NEW h \in Host, JoinVolumes(h) PROVE TypeOK'
  BY <1>5 DEF JoinVolumes
<1>6. ASSUME NEW v \in Volume, ThreadStep(v) PROVE TypeOK'
  <2>1. CASE Lock(v) BY <2>1 DEF Lock
  <2>2. CASE Take(v)
    <3>1. deviceUnused' \in [Device -> Nat]
      BY <2>2 DEF Take, Usable
    <3>2. groupUnused' \in [Group -> Nat]
      BY <2>2 DEF Take, Usable
    <3>3. cur' \in [Volume -> Device \cup {NoOne}]
      BY <2>2 DEF Take
    <3> QED BY <2>2, <3>1, <3>2, <3>3 DEF Take
  <2>3. CASE Wait(v) BY <2>3 DEF Wait
  <2>4. CASE WakeUnasked(v) BY <2>4 DEF WakeUnasked
  <2>5. CASE StartsCheck(v) BY <2>5 DEF StartsCheck
  <2>6. CASE StartsHook(v) BY <2>6 DEF StartsHook
  <2>7. CASE StartsRsync(v) BY <2>7 DEF StartsRsync, StartRsync
  <2>8. CASE RsyncEnds(v) BY <2>8 DEF RsyncEnds
  <2>9. CASE LeaveLoop(v)
    <3>1. CASE pvh[v] = "RUN" /\ v \in HasPost
      <4>1. postRuns' = [postRuns EXCEPT ![v] = @ + 1]
        BY <2>9, <3>1 DEF LeaveLoop
      <4>2. postRuns[v] + 1 \in Nat
        OBVIOUS
      <4>3. postRuns' \in [Volume -> Nat]
        BY <4>1, <4>2
      <4> QED BY <2>9, <3>1, <4>3 DEF LeaveLoop
    <3>2. CASE ~ (pvh[v] = "RUN" /\ v \in HasPost)
      BY <2>9, <3>2 DEF LeaveLoop
    <3> QED BY <3>1, <3>2
  <2>10. CASE PostHookEnds(v) BY <2>10 DEF PostHookEnds
  <2> QED
    BY <1>6, <2>1, <2>2, <2>3, <2>4, <2>5, <2>6, <2>7, <2>8, <2>9, <2>10,
       TypeFinishes
    DEF ThreadStep
<1>7. CASE Aborts BY <1>7 DEF Aborts
<1> QED BY <1>1, <1>2, <1>3, <1>4, <1>5, <1>6, <1>7, StepCases

(* The variables keep their types: no limit is taken that is not there, and  *)
(* no thread leaves the places the code has.                                *)
THEOREM TypeCorrect == Spec => []TypeOK
BY TypeInit, TypeNext, PTL DEF Spec

-----------------------------------------------------------------------------
LEMMA ConsistentInit == Init => Consistent
<1> SUFFICES ASSUME Init PROVE Consistent
  OBVIOUS
<1> USE ThreadsAssumption DEF Init
<1>1. TypeOK BY TypeInit
<1>2. Locking BY DEF Locking
<1>3. Limits BY DEF Limits, Holding
<1>4. Looping /\ LimitsRespected BY DEF Looping, LimitsRespected, Holding
<1>5. Hooking BY DEF Hooking
<1>6. Settled BY DEF Settled
<1>7. Started BY DEF Started
<1> QED BY <1>1, <1>2, <1>3, <1>4, <1>5, <1>6, <1>7 DEF Consistent

(* A thread inside the loop's body holds its device and its group.           *)
LEMMA HolderFacts ==
  ASSUME Consistent, NEW v \in Volume, Holding(v)
  PROVE  /\ cur[v] \in Device /\ cur[v] \in devices[v]
         /\ GroupOf[v] \in Group
         /\ deviceUnused[cur[v]] = 0 /\ groupUnused[GroupOf[v]] = 0
         /\ pvh[v] # "FAILED"
<1>1. cur[v] \in devices[v] /\ pvh[v] # "FAILED"
  BY DEF Consistent, Looping, MoreToDo
<1>2. cur[v] \in Device /\ GroupOf[v] \in Group
  BY <1>1, ThreadsAssumption DEF Consistent, TypeOK
<1> QED BY <1>1, <1>2 DEF Consistent, Limits

(* The mutex has one owner: the thread that is between taking it and giving  *)
(* it up.                                                                   *)
LEMMA LockingNext == Consistent /\ [Next]_vars => Locking'
<1> SUFFICES ASSUME Consistent, [Next]_vars PROVE Locking'
  OBVIOUS
<1> USE ThreadsAssumption DEF Consistent, TypeOK, Locking
<1>1. CASE StartHosts BY <1>1 DEF StartHosts
<1>2. CASE JoinHosts BY <1>2 DEF JoinHosts
<1>3. CASE UNCHANGED vars BY <1>3 DEF vars
<1>4. ASSUME NEW h \in Host, CheckHost(h) PROVE Locking'
  BY <1>4 DEF CheckHost, Started
<1>5. ASSUME NEW h \in Host, JoinVolumes(h) PROVE Locking'
  BY <1>5 DEF JoinVolumes
<1>6. ASSUME NEW v \in Volume, ThreadStep(v) PROVE Locking'
  <2>1. CASE Lock(v) BY <2>1 DEF Lock
  <2>2. CASE Take(v) BY <2>2 DEF Take
  <2>3. CASE Wait(v) BY <2>3 DEF Wait
  <2>4. CASE WakeUnasked(v) BY <2>4 DEF WakeUnasked
  <2>5. CASE StartsCheck(v) BY <2>5 DEF StartsCheck
  <2>6. CASE StartsHook(v) BY <2>6 DEF StartsHook
  <2>7. CASE StartsRsync(v) BY <2>7 DEF StartsRsync, StartRsync
  <2>8. CASE RsyncEnds(v) BY <2>8 DEF RsyncEnds
  <2>9. CASE LeaveLoop(v)
    <3>1. \/ vol' = [vol EXCEPT ![v] = "post"] /\ lock' = lock
          \/ vol' = [vol EXCEPT ![v] = "done"] /\ lock' = NoOne
      BY <2>9 DEF LeaveLoop
    <3>2. main' = main /\ vol[v] = "loop"
      BY <2>9 DEF LeaveLoop
    <3> QED BY <3>1, <3>2
  <2>10. CASE PostHookEnds(v) BY <2>10 DEF PostHookEnds
  <2>11. ASSUME NEW result, Finishes(v, result) PROVE Locking'
    BY <2>11 DEF Finishes, FinishDevice, NotifyAll
  <2> QED
    BY <1>6, <2>1, <2>2, <2>3, <2>4, <2>5, <2>6, <2>7, <2>8, <2>9, <2>10,
       <2>11 DEF ThreadStep
<1>7. CASE Aborts BY <1>7 DEF Aborts
<1> QED BY <1>1, <1>2, <1>3, <1>4, <1>5, <1>6, <1>7, StepCases

(* A step that changes neither the limits nor who holds what.                *)
LEMMA LimitsQuiet ==
  ASSUME Consistent, UNCHANGED limits,
         \A v \in Volume : Holding(v)' = Holding(v) /\ cur'[v] = cur[v]
  PROVE  Limits' /\ LimitsRespected'
BY DEF Consistent, Limits, LimitsRespected, limits

LEMMA LimitsTake ==
  ASSUME Consistent, NEW v \in Volume, Take(v)
  PROVE  Limits' /\ LimitsRespected'
<1> USE ThreadsAssumption DEF Consistent, TypeOK
<1> PICK d \in devices[v] :
           /\ Usable(v, d)
           /\ cur' = [cur EXCEPT ![v] = d]
           /\ deviceUnused' = [deviceUnused EXCEPT ![d] = @ - 1]
  BY DEF Take
<1>1. d \in Device /\ GroupOf[v] \in Group
  OBVIOUS
<1>2. deviceUnused[d] = 1 /\ groupUnused[GroupOf[v]] = 1
  BY <1>1 DEF Usable, Limits
<1>3. /\ deviceUnused' = [deviceUnused EXCEPT ![d] = 0]
      /\ groupUnused' = [groupUnused EXCEPT ![GroupOf[v]] = 0]
  <2>1. groupUnused' = [groupUnused EXCEPT ![GroupOf[v]] = @ - 1]
    BY DEF Take
  <2> QED BY <1>1, <1>2, <2>1
<1>4. ~ Holding(v) /\ Holding(v)' /\ cur'[v] = d
  BY DEF Take, Holding
<1>5. \A w \in Volume : w # v => Holding(w)' = Holding(w) /\ cur'[w] = cur[w]
  BY DEF Take, Holding
<1>6. \A w \in Volume : Holding(w) => cur[w] # d /\ GroupOf[w] # GroupOf[v]
  BY <1>1, <1>2 DEF Limits
<1>7. LimitsRespected'
  BY <1>4, <1>5, <1>6 DEF LimitsRespected
<1>8. \A x \in Device :
        /\ deviceUnused'[x] <= 1
        /\ deviceUnused'[x] = 0 <=> \E w \in Volume : Holding(w)' /\ cur'[w] = x
  <2> SUFFICES ASSUME NEW x \in Device
               PROVE  /\ deviceUnused'[x] <= 1
                      /\ deviceUnused'[x] = 0 <=>
                           \E w \in Volume : Holding(w)' /\ cur'[w] = x
    OBVIOUS
  <2>1. CASE x = d BY <2>1, <1>3, <1>4
  <2>2. CASE x # d
    <3>1. deviceUnused'[x] = deviceUnused[x] BY <2>2, <1>3
    <3>2. /\ deviceUnused[x] <= 1
          /\ deviceUnused[x] = 0 <=> \E w \in Volume : Holding(w) /\ cur[w] = x
      BY DEF Limits
    <3>3. (\E w \in Volume : Holding(w) /\ cur[w] = x) <=>
            \E w \in Volume : Holding(w)' /\ cur'[w] = x
      <4> HIDE DEF Consistent, TypeOK
      <4> QED BY <2>2, <1>4, <1>5
    <3> QED BY <3>1, <3>2, <3>3
  <2> QED BY <2>1, <2>2
<1>9. \A g \in Group :
        /\ groupUnused'[g] <= 1
        /\ groupUnused'[g] = 0 <=>
             \E w \in Volume : Holding(w)' /\ GroupOf[w] = g
  <2> SUFFICES ASSUME NEW g \in Group
               PROVE  /\ groupUnused'[g] <= 1
                      /\ groupUnused'[g] = 0 <=>
                           \E w \in Volume : Holding(w)' /\ GroupOf[w] = g
    OBVIOUS
  <2>1. CASE g = GroupOf[v] BY <2>1, <1>3, <1>4
  <2>2. CASE g # GroupOf[v]
    <3>1. groupUnused'[g] = groupUnused[g] BY <2>2, <1>3
    <3>2. /\ groupUnused[g] <= 1
          /\ groupUnused[g] = 0 <=>
               \E w \in Volume : Holding(w) /\ GroupOf[w] = g
      BY DEF Limits
    <3>3. (\E w \in Volume : Holding(w) /\ GroupOf[w] = g) <=>
            \E w \in Volume : Holding(w)' /\ GroupOf[w] = g
      <4> HIDE DEF Consistent, TypeOK
      <4> QED BY <2>2, <1>4, <1>5
    <3> QED BY <3>1, <3>2, <3>3
  <2> QED BY <2>1, <2>2
<1> QED BY <1>7, <1>8, <1>9 DEF Limits

LEMMA LimitsFinishes ==
  ASSUME Consistent, NEW v \in Volume, NEW result, Finishes(v, result)
  PROVE  Limits' /\ LimitsRespected'
<1> USE ThreadsAssumption DEF Consistent, TypeOK
<1>1. Holding(v) BY DEF Finishes, Holding
<1>2. /\ deviceUnused' = [deviceUnused EXCEPT ![cur[v]] = 1]
      /\ groupUnused' = [groupUnused EXCEPT ![GroupOf[v]] = 1]
  <2>1. /\ deviceUnused' = [deviceUnused EXCEPT ![cur[v]] = @ + 1]
        /\ groupUnused' = [groupUnused EXCEPT ![GroupOf[v]] = @ + 1]
    BY DEF Finishes, FinishDevice, Release
  <2>2. deviceUnused[cur[v]] + 1 = 1 /\ groupUnused[GroupOf[v]] + 1 = 1
    BY <1>1, HolderFacts
  <2> QED BY <2>1, <2>2
<1>3. ~ Holding(v)'
  BY DEF Finishes, FinishDevice, NotifyAll, Holding
<1>4. \A w \in Volume : w # v => Holding(w)' = Holding(w) /\ cur'[w] = cur[w]
  BY DEF Finishes, FinishDevice, NotifyAll, Holding
<1>5. \A w \in Volume : w # v /\ Holding(w) =>
        cur[w] # cur[v] /\ GroupOf[w] # GroupOf[v]
  BY <1>1 DEF LimitsRespected
<1>6. LimitsRespected'
  BY <1>3, <1>4 DEF LimitsRespected
<1>7. \A x \in Device :
        /\ deviceUnused'[x] <= 1
        /\ deviceUnused'[x] = 0 <=> \E w \in Volume : Holding(w)' /\ cur'[w] = x
  <2> SUFFICES ASSUME NEW x \in Device
               PROVE  /\ deviceUnused'[x] <= 1
                      /\ deviceUnused'[x] = 0 <=>
                           \E w \in Volume : Holding(w)' /\ cur'[w] = x
    OBVIOUS
  <2>1. CASE x = cur[v]
    <3>1. deviceUnused'[x] = 1 BY <2>1, <1>2
    <3>2. ~ \E w \in Volume : Holding(w)' /\ cur'[w] = x
      <4> HIDE DEF Consistent, TypeOK
      <4> QED BY <2>1, <1>3, <1>4, <1>5
    <3> QED BY <3>1, <3>2
  <2>2. CASE x # cur[v]
    <3>1. deviceUnused'[x] = deviceUnused[x] BY <2>2, <1>2
    <3>2. /\ deviceUnused[x] <= 1
          /\ deviceUnused[x] = 0 <=> \E w \in Volume : Holding(w) /\ cur[w] = x
      BY DEF Limits
    <3>3. (\E w \in Volume : Holding(w) /\ cur[w] = x) <=>
            \E w \in Volume : Holding(w)' /\ cur'[w] = x
      <4> HIDE DEF Consistent, TypeOK
      <4> QED BY <2>2, <1>3, <1>4
    <3> QED BY <3>1, <3>2, <3>3
  <2> QED BY <2>1, <2>2
<1>8. \A g \in Group :
        /\ groupUnused'[g] <= 1
        /\ groupUnused'[g] = 0 <=>
             \E w \in Volume : Holding(w)' /\ GroupOf[w] = g
  <2> SUFFICES ASSUME NEW g \in Group
               PROVE  /\ groupUnused'[g] <= 1
                      /\ groupUnused'[g] = 0 <=>
                           \E w \in Volume : Holding(w)' /\ GroupOf[w] = g
    OBVIOUS
  <2>1. CASE g = GroupOf[v]
    <3>1. groupUnused'[g] = 1 BY <2>1, <1>2
    <3>2. ~ \E w \in Volume : Holding(w)' /\ GroupOf[w] = g
      <4> HIDE DEF Consistent, TypeOK
      <4> QED BY <2>1, <1>3, <1>4, <1>5
    <3> QED BY <3>1, <3>2
  <2>2. CASE g # GroupOf[v]
    <3>1. groupUnused'[g] = groupUnused[g] BY <2>2, <1>2
    <3>2. /\ groupUnused[g] <= 1
          /\ groupUnused[g] = 0 <=>
               \E w \in Volume : Holding(w) /\ GroupOf[w] = g
      BY DEF Limits
    <3>3. (\E w \in Volume : Holding(w) /\ GroupOf[w] = g) <=>
            \E w \in Volume : Holding(w)' /\ GroupOf[w] = g
      <4> HIDE DEF Consistent, TypeOK
      <4> QED BY <2>2, <1>3, <1>4
    <3> QED BY <3>1, <3>2, <3>3
  <2> QED BY <2>1, <2>2
<1> QED BY <1>6, <1>7, <1>8 DEF Limits

(* Only taking and giving back change who holds what.                       *)
LEMMA LimitsNext == Consistent /\ [Next]_vars => Limits' /\ LimitsRespected'
<1> SUFFICES ASSUME Consistent, [Next]_vars PROVE Limits' /\ LimitsRespected'
  OBVIOUS
<1> USE ThreadsAssumption DEF Consistent, TypeOK, limits, results
<1>1. CASE StartHosts BY <1>1, LimitsQuiet DEF StartHosts, Holding
<1>2. CASE JoinHosts BY <1>2, LimitsQuiet DEF JoinHosts, Holding
<1>3. CASE UNCHANGED vars BY <1>3, LimitsQuiet DEF vars, Holding
<1>4. ASSUME NEW h \in Host, CheckHost(h) PROVE Limits' /\ LimitsRespected'
  BY <1>4, LimitsQuiet DEF CheckHost, Started, Holding
<1>5. ASSUME NEW h \in Host, JoinVolumes(h) PROVE Limits' /\ LimitsRespected'
  BY <1>5, LimitsQuiet DEF JoinVolumes, Holding
<1>6. ASSUME NEW v \in Volume, ThreadStep(v) PROVE Limits' /\ LimitsRespected'
  <2>1. CASE Lock(v) BY <2>1, LimitsQuiet DEF Lock, Holding
  <2>2. CASE Take(v)
    BY <2>2, LimitsTake
  <2>3. CASE Wait(v) BY <2>3, LimitsQuiet DEF Wait, Holding
  <2>4. CASE WakeUnasked(v) BY <2>4, LimitsQuiet DEF WakeUnasked, Holding
  <2>5. CASE StartsCheck(v) BY <2>5, LimitsQuiet DEF StartsCheck, Holding
  <2>6. CASE StartsHook(v) BY <2>6, LimitsQuiet DEF StartsHook, Holding
  <2>7. CASE StartsRsync(v) BY <2>7, LimitsQuiet DEF StartsRsync, StartRsync, Holding
  <2>8. CASE RsyncEnds(v) BY <2>8, LimitsQuiet DEF RsyncEnds, Holding
  <2>9. CASE LeaveLoop(v) BY <2>9, LimitsQuiet DEF LeaveLoop, Holding
  <2>10. CASE PostHookEnds(v) BY <2>10, LimitsQuiet DEF PostHookEnds, Holding
  <2>11. ASSUME NEW result \in {"skipped", "complete", "failed"},
                Finishes(v, result)
         PROVE  Limits' /\ LimitsRespected'
    BY <2>11, LimitsFinishes
  <2> QED
    BY <1>6, <2>1, <2>2, <2>3, <2>4, <2>5, <2>6, <2>7, <2>8, <2>9, <2>10,
       <2>11 DEF ThreadStep
<1>7. CASE Aborts BY <1>7, LimitsQuiet DEF Aborts, Holding
<1> QED BY <1>1, <1>2, <1>3, <1>4, <1>5, <1>6, <1>7, StepCases

(* A thread in the loop, and one that is about to leave it.                  *)
LEMMA LoopingNext == Consistent /\ [Next]_vars => Looping'
<1> SUFFICES ASSUME Consistent, [Next]_vars PROVE Looping'
  OBVIOUS
<1> USE ThreadsAssumption DEF Consistent, TypeOK, Looping, MoreToDo, Holding, limits, results
<1>1. CASE StartHosts BY <1>1 DEF StartHosts
<1>2. CASE JoinHosts BY <1>2 DEF JoinHosts
<1>3. CASE UNCHANGED vars BY <1>3 DEF vars
<1>4. ASSUME NEW h \in Host, CheckHost(h) PROVE Looping'
  BY <1>4 DEF CheckHost, Started
<1>5. ASSUME NEW h \in Host, JoinVolumes(h) PROVE Looping'
  BY <1>5 DEF JoinVolumes
<1>6. ASSUME NEW v \in Volume, ThreadStep(v) PROVE Looping'
  <2>1. CASE Lock(v)
    BY <2>1 DEF Lock, Hooking
  <2>2. CASE Take(v)
    BY <2>2 DEF Take, Locking
  <2>3. CASE Wait(v) BY <2>3 DEF Wait
  <2>4. CASE WakeUnasked(v) BY <2>4 DEF WakeUnasked
  <2>5. CASE StartsCheck(v) BY <2>5 DEF StartsCheck
  <2>6. CASE StartsHook(v) BY <2>6 DEF StartsHook
  <2>7. CASE StartsRsync(v) BY <2>7 DEF StartsRsync, StartRsync
  <2>8. CASE RsyncEnds(v) BY <2>8 DEF RsyncEnds
  <2>9. CASE LeaveLoop(v) BY <2>9 DEF LeaveLoop
  <2>10. CASE PostHookEnds(v) BY <2>10 DEF PostHookEnds
  <2>11. ASSUME NEW result \in {"skipped", "complete", "failed"},
                Finishes(v, result)
         PROVE  Looping'
    BY <2>11, HolderFacts DEF Finishes, FinishDevice, NotifyAll, Release, Locking
  <2> QED
    BY <1>6, <2>1, <2>2, <2>3, <2>4, <2>5, <2>6, <2>7, <2>8, <2>9, <2>10,
       <2>11 DEF ThreadStep
<1>7. CASE Aborts BY <1>7 DEF Aborts
<1> QED BY <1>1, <1>2, <1>3, <1>4, <1>5, <1>6, <1>7, StepCases

(* The hooks' runs are told by where the thread is.                         *)
LEMMA HookingNext == Consistent /\ [Next]_vars => Hooking'
<1> SUFFICES ASSUME Consistent, [Next]_vars PROVE Hooking'
  OBVIOUS
<1> USE ThreadsAssumption DEF Consistent, TypeOK, Hooking, limits, results
<1>1. CASE StartHosts BY <1>1 DEF StartHosts
<1>2. CASE JoinHosts BY <1>2 DEF JoinHosts
<1>3. CASE UNCHANGED vars BY <1>3 DEF vars
<1>4. ASSUME NEW h \in Host, CheckHost(h) PROVE Hooking'
  BY <1>4 DEF CheckHost, Started
<1>5. ASSUME NEW h \in Host, JoinVolumes(h) PROVE Hooking'
  BY <1>5 DEF JoinVolumes
<1>6. ASSUME NEW v \in Volume, ThreadStep(v) PROVE Hooking'
  <2>1. CASE Lock(v) BY <2>1 DEF Lock
  <2>2. CASE Take(v) BY <2>2 DEF Take
  <2>3. CASE Wait(v) BY <2>3 DEF Wait
  <2>4. CASE WakeUnasked(v) BY <2>4 DEF WakeUnasked
  <2>5. CASE StartsCheck(v) BY <2>5 DEF StartsCheck
  <2>6. CASE StartsHook(v) BY <2>6 DEF StartsHook
  <2>7. CASE StartsRsync(v) BY <2>7 DEF StartsRsync, StartRsync
  <2>8. CASE RsyncEnds(v) BY <2>8 DEF RsyncEnds
  <2>9. CASE LeaveLoop(v) BY <2>9 DEF LeaveLoop
  <2>10. CASE PostHookEnds(v) BY <2>10 DEF PostHookEnds
  <2>11. ASSUME NEW result \in {"skipped", "complete", "failed"},
                Finishes(v, result)
         PROVE  Hooking'
    BY <2>11 DEF Finishes, FinishDevice, NotifyAll
  <2> QED
    BY <1>6, <2>1, <2>2, <2>3, <2>4, <2>5, <2>6, <2>7, <2>8, <2>9, <2>10,
       <2>11 DEF ThreadStep
<1>7. CASE Aborts BY <1>7 DEF Aborts
<1> QED BY <1>1, <1>2, <1>3, <1>4, <1>5, <1>6, <1>7, StepCases

(* A device a thread has done with has its outcome.                         *)
LEMMA SettledNext == Consistent /\ [Next]_vars => Settled'
<1> SUFFICES ASSUME Consistent, [Next]_vars PROVE Settled'
  OBVIOUS
<1> USE ThreadsAssumption DEF Consistent, TypeOK, Settled, MoreToDo, limits, results
<1>1. CASE StartHosts BY <1>1 DEF StartHosts
<1>2. CASE JoinHosts BY <1>2 DEF JoinHosts
<1>3. CASE UNCHANGED vars BY <1>3 DEF vars
<1>4. ASSUME NEW h \in Host, CheckHost(h) PROVE Settled'
  BY <1>4 DEF CheckHost, Started
<1>5. ASSUME NEW h \in Host, JoinVolumes(h) PROVE Settled'
  BY <1>5 DEF JoinVolumes
<1>6. ASSUME NEW v \in Volume, ThreadStep(v) PROVE Settled'
  <2>1. CASE Lock(v) BY <2>1 DEF Lock
  <2>2. CASE Take(v) BY <2>2 DEF Take
  <2>3. CASE Wait(v) BY <2>3 DEF Wait
  <2>4. CASE WakeUnasked(v) BY <2>4 DEF WakeUnasked
  <2>5. CASE StartsCheck(v) BY <2>5 DEF StartsCheck
  <2>6. CASE StartsHook(v) BY <2>6 DEF StartsHook
  <2>7. CASE StartsRsync(v)
    <3>1. Holding(v) BY <2>7 DEF StartsRsync, Holding
    <3>2. cur[v] \in devices[v] /\ cur[v] \in Device
      BY <3>1, HolderFacts
    <3> QED BY <2>7, <3>2 DEF StartsRsync, StartRsync
  <2>8. CASE RsyncEnds(v) BY <2>8 DEF RsyncEnds
  <2>9. CASE LeaveLoop(v)
    <3>1. \/ vol' = [vol EXCEPT ![v] = "post"]
          \/ vol' = [vol EXCEPT ![v] = "done"]
      BY <2>9 DEF LeaveLoop
    <3>2. /\ vol[v] = "loop" /\ ~ MoreToDo(v)
          /\ UNCHANGED <<devices, pvh, outcome>>
      BY <2>9 DEF LeaveLoop
    <3>3. \A w \in Volume :
            /\ vol'[w] \in {"unborn", "start"} <=> vol[w] \in {"unborn", "start"}
            /\ vol'[w] \in {"post", "done"} => w = v \/ vol[w] \in {"post", "done"}
      BY <3>1, <3>2
    <3> QED BY <3>2, <3>3
  <2>10. CASE PostHookEnds(v) BY <2>10 DEF PostHookEnds
  <2>11. ASSUME NEW result \in {"skipped", "complete", "failed"},
                Finishes(v, result)
         PROVE  Settled'
    BY <2>11 DEF Finishes, FinishDevice, NotifyAll
  <2> QED
    BY <1>6, <2>1, <2>2, <2>3, <2>4, <2>5, <2>6, <2>7, <2>8, <2>9, <2>10,
       <2>11 DEF ThreadStep
<1>7. CASE Aborts BY <1>7 DEF Aborts
<1> QED BY <1>1, <1>2, <1>3, <1>4, <1>5, <1>6, <1>7, StepCases

(* Threads live between their creation and the join of their parent.         *)
LEMMA StartedNext == Consistent /\ [Next]_vars => Started'
<1> SUFFICES ASSUME Consistent, [Next]_vars PROVE Started'
  OBVIOUS
<1> USE ThreadsAssumption DEF Consistent, TypeOK, Started, limits, results
<1>1. CASE StartHosts BY <1>1 DEF StartHosts
<1>2. CASE JoinHosts BY <1>2 DEF JoinHosts
<1>3. CASE UNCHANGED vars BY <1>3 DEF vars
<1>4. ASSUME NEW h \in Host, CheckHost(h) PROVE Started'
  BY <1>4 DEF CheckHost
<1>5. ASSUME NEW h \in Host, JoinVolumes(h) PROVE Started'
  BY <1>5 DEF JoinVolumes
<1>6. ASSUME NEW v \in Volume, ThreadStep(v) PROVE Started'
  <2>1. CASE Lock(v) BY <2>1 DEF Lock
  <2>2. CASE Take(v) BY <2>2 DEF Take
  <2>3. CASE Wait(v) BY <2>3 DEF Wait
  <2>4. CASE WakeUnasked(v) BY <2>4 DEF WakeUnasked
  <2>5. CASE StartsCheck(v) BY <2>5 DEF StartsCheck
  <2>6. CASE StartsHook(v) BY <2>6 DEF StartsHook
  <2>7. CASE StartsRsync(v) BY <2>7 DEF StartsRsync, StartRsync
  <2>8. CASE RsyncEnds(v) BY <2>8 DEF RsyncEnds
  <2>9. CASE LeaveLoop(v) BY <2>9 DEF LeaveLoop
  <2>10. CASE PostHookEnds(v) BY <2>10 DEF PostHookEnds
  <2>11. ASSUME NEW result \in {"skipped", "complete", "failed"},
                Finishes(v, result)
         PROVE  Started'
    BY <2>11 DEF Finishes, FinishDevice, NotifyAll
  <2> QED
    BY <1>6, <2>1, <2>2, <2>3, <2>4, <2>5, <2>6, <2>7, <2>8, <2>9, <2>10,
       <2>11 DEF ThreadStep
<1>7. CASE Aborts BY <1>7 DEF Aborts
<1> QED BY <1>1, <1>2, <1>3, <1>4, <1>5, <1>6, <1>7, StepCases

-----------------------------------------------------------------------------
LEMMA ConsistentNext == Consistent /\ [Next]_vars => Consistent'
BY TypeNext, LockingNext, LimitsNext, LoopingNext, HookingNext, SettledNext,
   StartedNext
DEF Consistent

LEMMA Consistency == Spec => []Consistent
BY ConsistentInit, ConsistentNext, PTL DEF Spec

(* No device and no concurrency group is ever used by two backups, although  *)
(* the mutex is given up while an rsync runs.                               *)
THEOREM Exclusion == Spec => []LimitsRespected
<1>1. Consistent => LimitsRespected BY DEF Consistent
<1> QED BY <1>1, Consistency, PTL

(* No two hooks run at once, and a hook runs at once only with backups of    *)
(* another group to another device.                                         *)
THEOREM HookExclusion == Spec => []HooksApart
<1>1. ASSUME Consistent PROVE HooksApart
  <2> SUFFICES ASSUME NEW v \in Volume, NEW w \in Volume, v # w, InHook(v)
               PROVE  /\ ~ InHook(w)
                      /\ vol[w] \in {"rsync", "relock"} =>
                           GroupOf[v] # GroupOf[w] /\ cur[v] # cur[w]
    BY DEF HooksApart
  <2>1. ~ InHook(w)
    BY <1>1 DEF Consistent, Locking, InHook
  <2>2. ASSUME vol[w] \in {"rsync", "relock"}
        PROVE  GroupOf[v] # GroupOf[w] /\ cur[v] # cur[w]
    <3>1. Holding(w) BY <2>2 DEF Holding
    <3>2. groupUnused[GroupOf[w]] = 0 /\ cur[w] \in Device
      BY <1>1, <3>1, HolderFacts
    <3>3. CASE vol[v] = "pre"
      <4>1. Holding(v) BY <3>3 DEF Holding
      <4> QED BY <1>1, <3>1, <4>1 DEF Consistent, LimitsRespected
    <3>4. CASE vol[v] = "post"
      <4>1. groupUnused[GroupOf[v]] = 1 /\ cur[v] = NoOne
        BY <1>1, <3>4 DEF Consistent, Looping, Holding
      <4> QED BY <3>2, <4>1, ThreadsAssumption
    <3> QED BY <3>3, <3>4 DEF InHook
  <2> QED BY <2>1, <2>2
<1> QED BY <1>1, Consistency, PTL

(* The hooks of a volume bracket its backups, however they are interleaved.  *)
THEOREM Bracketing == Spec => []HooksBracket
<1>1. Consistent => HooksBracket
  BY DEF Consistent, TypeOK, Hooking, HooksBracket
<1> QED BY <1>1, Consistency, PTL

(* A step that lets no thread go keeps who covers whom.                     *)
LEMMA CoverKept ==
  ASSUME WaitersCovered,
         \A v \in Volume : Holding(v) => Holding(v)' /\ cur'[v] = cur[v],
         \A v \in Volume : vol'[v] = "waiting" =>
           vol[v] = "waiting" /\ devices'[v] = devices[v]
  PROVE  WaitersCovered'
BY DEF WaitersCovered

LEMMA WaitersNext ==
  Consistent /\ WaitersCovered /\ [Next]_vars => WaitersCovered'
<1> SUFFICES ASSUME Consistent, WaitersCovered, [Next]_vars
             PROVE  WaitersCovered'
  OBVIOUS
<1> USE DEF Consistent, TypeOK, Holding, limits, results
<1>1. CASE StartHosts BY <1>1, CoverKept DEF StartHosts
<1>2. CASE JoinHosts BY <1>2, CoverKept DEF JoinHosts
<1>3. CASE UNCHANGED vars BY <1>3, CoverKept DEF vars
<1>4. ASSUME NEW h \in Host, CheckHost(h) PROVE WaitersCovered'
  BY <1>4, CoverKept, ThreadsAssumption DEF CheckHost, Started
<1>5. ASSUME NEW h \in Host, JoinVolumes(h) PROVE WaitersCovered'
  BY <1>5, CoverKept DEF JoinVolumes
<1>6. ASSUME NEW v \in Volume, ThreadStep(v) PROVE WaitersCovered'
  <2>1. CASE Lock(v) BY <2>1, CoverKept DEF Lock
  <2>2. CASE Take(v) BY <2>2, CoverKept DEF Take
  <2>3. CASE Wait(v)
    <3>1. \A w \in Volume :
            /\ Holding(w)' = Holding(w) /\ cur'[w] = cur[w]
            /\ devices'[w] = devices[w]
            /\ vol'[w] = "waiting" => w = v \/ vol[w] = "waiting"
      BY <2>3 DEF Wait
    <3>2. \/ \E w \in Volume : Holding(w) /\ GroupOf[w] = GroupOf[v]
          \/ \A d \in devices[v] : \E w \in Volume : Holding(w) /\ cur[w] = d
      <4>1. CASE groupUnused[GroupOf[v]] = 0
        BY <4>1, ThreadsAssumption DEF Limits
      <4>2. ASSUME groupUnused[GroupOf[v]] # 0, NEW d \in devices[v]
            PROVE  \E w \in Volume : Holding(w) /\ cur[w] = d
        <5>1. d \in Device /\ GroupOf[v] \in Group
          BY ThreadsAssumption
        <5>2. deviceUnused[d] = 0
          BY <2>3, <4>2, <5>1 DEF Wait, Usable
        <5> QED BY <5>1, <5>2 DEF Limits
      <4> QED BY <4>1, <4>2
    <3> SUFFICES ASSUME NEW x \in Volume, vol'[x] = "waiting"
                 PROVE  \/ \E w \in Volume : /\ Holding(w)'
                                              /\ GroupOf[w] = GroupOf[x]
                        \/ \A d \in devices'[x] :
                             \E w \in Volume : Holding(w)' /\ cur'[w] = d
      BY DEF WaitersCovered
    <3>3. devices'[x] = devices[x]
      BY <3>1
    <3>4. \/ \E w \in Volume : Holding(w) /\ GroupOf[w] = GroupOf[x]
          \/ \A d \in devices[x] : \E w \in Volume : Holding(w) /\ cur[w] = d
      BY <3>1, <3>2 DEF WaitersCovered
    <3> HIDE DEF Holding
    <3> QED BY <3>1, <3>3, <3>4
  <2>4. CASE WakeUnasked(v) BY <2>4, CoverKept DEF WakeUnasked
  <2>5. CASE StartsCheck(v) BY <2>5, CoverKept DEF StartsCheck
  <2>6. CASE StartsHook(v) BY <2>6, CoverKept DEF StartsHook
  <2>7. CASE StartsRsync(v) BY <2>7, CoverKept DEF StartsRsync, StartRsync
  <2>8. CASE RsyncEnds(v) BY <2>8, CoverKept DEF RsyncEnds
  <2>9. CASE LeaveLoop(v) BY <2>9, CoverKept DEF LeaveLoop
  <2>10. CASE PostHookEnds(v) BY <2>10, CoverKept DEF PostHookEnds
  <2>11. ASSUME NEW result \in {"skipped", "complete", "failed"},
                Finishes(v, result)
         PROVE  WaitersCovered'
    <3>1. \A w \in Volume : vol'[w] # "waiting"
      BY <2>11 DEF Finishes, FinishDevice, NotifyAll
    <3> QED BY <3>1 DEF WaitersCovered
  <2> QED
    BY <1>6, <2>1, <2>2, <2>3, <2>4, <2>5, <2>6, <2>7, <2>8, <2>9, <2>10,
       <2>11 DEF ThreadStep
<1>7. CASE Aborts BY <1>7, CoverKept DEF Aborts
<1> QED BY <1>1, <1>2, <1>3, <1>4, <1>5, <1>6, <1>7, StepCases

(* No wakeup of the condition variable is lost.                             *)
THEOREM NoLostWakeup == Spec => []WaitersCovered
<1>1. Init => WaitersCovered
  BY DEF Init, WaitersCovered
<1> QED BY <1>1, WaitersNext, Consistency, PTL DEF Spec

LEMMA OneUse == \A n \in Nat : n # 0 /\ n <= 1 => n = 1
OBVIOUS

(* When makeBackups() returns everything has been given back and tried.      *)
THEOREM Joined == Spec => []AllJoined
<1>1. ASSUME Consistent, main = "done" PROVE AllJoined
  <2> USE <1>1, ThreadsAssumption DEF Consistent, TypeOK
  <2>1. \A v \in Volume : vol[v] \in {"unborn", "done"}
    BY DEF Started
  <2>2. ASSUME NEW d \in Device PROVE deviceUnused[d] = 1
    <3>1. deviceUnused[d] # 0 /\ deviceUnused[d] <= 1
      BY <2>1 DEF Limits, Holding
    <3>2. deviceUnused[d] \in Nat
      OBVIOUS
    <3> QED BY <3>1, <3>2, OneUse
  <2>3. ASSUME NEW g \in Group PROVE groupUnused[g] = 1
    <3>1. groupUnused[g] # 0 /\ groupUnused[g] <= 1
      BY <2>1 DEF Limits, Holding
    <3>2. groupUnused[g] \in Nat
      OBVIOUS
    <3> QED BY <3>1, <3>2, OneUse
  <2>4. \A v \in Volume : vol[v] # "unborn" /\ pvh[v] # "FAILED" =>
          \A d \in Device : outcome[v][d] \in {"skipped", "complete", "failed"}
    BY <2>1 DEF Settled, MoreToDo
  <2>5. lock = Main BY DEF Locking
  <2> QED BY <2>2, <2>3, <2>4, <2>5 DEF AllJoined
<1>2. Consistent => AllJoined BY <1>1 DEF AllJoined
<1> QED BY <1>2, Consistency, PTL

LEMMA FailuresFinite == IsFiniteSet(Failures)
<1>1. IsFiniteSet(Volume \X Device)
  BY FS_Product, ThreadsAssumption
<1>2. Failures \subseteq Volume \X Device
  BY DEF Failures
<1> QED BY <1>1, <1>2, FS_Subset

(* A backup that fails had not failed before: one more failure, one more     *)
(* error.                                                                   *)
LEMMA ErrorsFinishes ==
  ASSUME Consistent, ErrorsCounted, NEW v \in Volume,
         NEW result \in {"skipped", "complete", "failed"}, Finishes(v, result)
  PROVE  ErrorsCounted'
<1>1. Holding(v) BY DEF Finishes, Holding
<1>2. cur[v] \in Device /\ cur[v] \in devices[v]
  BY <1>1, HolderFacts
<1>3. outcome[v][cur[v]] # "failed"
  BY <1>2 DEF Consistent, Settled
<1>4. <<v, cur[v]>> \notin Failures
  BY <1>3 DEF Failures
<1>5. \A w \in Volume, d \in Device :
        outcome'[w][d] = IF w = v /\ d = cur[v] THEN result ELSE outcome[w][d]
  BY <1>2 DEF Consistent, TypeOK, Finishes
<1>6. CASE result = "failed"
  <2>1. Failures' = Failures \cup {<<v, cur[v]>>}
    BY <1>2, <1>5, <1>6 DEF Failures
  <2>2. Cardinality(Failures') = Cardinality(Failures) + 1
    BY <1>4, <2>1, FailuresFinite, FS_AddElement
  <2> QED BY <1>6, <2>2 DEF ErrorsCounted, Finishes
<1>7. CASE result # "failed"
  <2>1. Failures' = Failures
    BY <1>3, <1>5, <1>7 DEF Failures
  <2> QED BY <1>7, <2>1 DEF ErrorsCounted, Finishes
<1> QED BY <1>6, <1>7

(* A step that neither fails a backup nor counts an error.                   *)
LEMMA ErrorsKept ==
  ASSUME ErrorsCounted, UNCHANGED <<outcome, errors>>
  PROVE  ErrorsCounted'
BY DEF ErrorsCounted, Failures

LEMMA ErrorsNext ==
  Consistent /\ ErrorsCounted /\ [Next]_vars => ErrorsCounted'
<1> SUFFICES ASSUME Consistent, ErrorsCounted, [Next]_vars
             PROVE  ErrorsCounted'
  OBVIOUS
<1> USE DEF limits, results
<1>1. CASE StartHosts BY <1>1, ErrorsKept DEF StartHosts
<1>2. CASE JoinHosts BY <1>2, ErrorsKept DEF JoinHosts
<1>3. CASE UNCHANGED vars BY <1>3, ErrorsKept DEF vars
<1>4. ASSUME NEW h \in Host, CheckHost(h) PROVE ErrorsCounted'
  BY <1>4, ErrorsKept DEF CheckHost
<1>5. ASSUME NEW h \in Host, JoinVolumes(h) PROVE ErrorsCounted'
  BY <1>5, ErrorsKept DEF JoinVolumes
<1>6. ASSUME NEW v \in Volume, ThreadStep(v) PROVE ErrorsCounted'
  <2>1. CASE Lock(v) BY <2>1, ErrorsKept DEF Lock
  <2>2. CASE Take(v) BY <2>2, ErrorsKept DEF Take
  <2>3. CASE Wait(v) BY <2>3, ErrorsKept DEF Wait
  <2>4. CASE WakeUnasked(v) BY <2>4, ErrorsKept DEF WakeUnasked
  <2>5. CASE StartsCheck(v) BY <2>5, ErrorsKept DEF StartsCheck
  <2>6. CASE StartsHook(v) BY <2>6, ErrorsKept DEF StartsHook
  <2>7. ASSUME StartsRsync(v) PROVE ErrorsCounted'
    <3>1. Holding(v) BY <2>7 DEF StartsRsync, Holding
    <3>2. cur[v] \in Device /\ cur[v] \in devices[v]
      BY <3>1, HolderFacts
    <3>3. outcome[v][cur[v]] # "failed"
      BY <3>2 DEF Consistent, Settled
    <3>4. \A w \in Volume, d \in Device :
            outcome'[w][d] = IF w = v /\ d = cur[v] THEN "running"
                                                    ELSE outcome[w][d]
      BY <2>7, <3>2 DEF Consistent, TypeOK, StartsRsync, StartRsync
    <3>5. Failures' = Failures
      BY <3>3, <3>4 DEF Failures
    <3> QED BY <2>7, <3>5 DEF ErrorsCounted, StartsRsync
  <2>8. CASE RsyncEnds(v) BY <2>8, ErrorsKept DEF RsyncEnds
  <2>9. CASE LeaveLoop(v) BY <2>9, ErrorsKept DEF LeaveLoop
  <2>10. CASE PostHookEnds(v) BY <2>10, ErrorsKept DEF PostHookEnds
  <2> QED
    BY <1>6, <2>1, <2>2, <2>3, <2>4, <2>5, <2>6, <2>7, <2>8, <2>9, <2>10,
       ErrorsFinishes DEF ThreadStep
<1>7. CASE Aborts BY <1>7, ErrorsKept DEF Aborts
<1> QED BY <1>1, <1>2, <1>3, <1>4, <1>5, <1>6, <1>7, StepCases
  DEF Consistent

(* The error count, and so the exit status, is the number of failures.       *)
THEOREM ErrorCount == Spec => []ErrorsCounted
<1>1. ASSUME Init PROVE ErrorsCounted
  <2>1. Failures = {}
    BY <1>1 DEF Init, Failures
  <2> QED BY <1>1, <2>1, FS_EmptySet DEF Init, ErrorsCounted
<1> QED BY <1>1, ErrorsNext, Consistency, PTL DEF Spec
=============================================================================

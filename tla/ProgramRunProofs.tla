--------------------------- MODULE ProgramRunProofs ---------------------------
(***************************************************************************)
(* The lock of ProgramRun, for any number of runs.                           *)
(***************************************************************************)
EXTENDS ProgramRun, TLAPS

(* What a step of a run, of a program or of an operator is.                   *)
LEMMA RunSteps ==
  ASSUME RunNext
  PROVE  \/ \E p \in Process : \E q \in Request : Begin(p, q)
         \/ \E p \in Process : TakeLock(p)
         \/ \E p \in Process, m \in {"enabled", "disabled"} : StartSurvey(p, m)
         \/ \E p \in Process : ExamineStore(p)
         \/ \E p \in Process : PreHookEnds(p)
         \/ \E p \in Process : ReadDeviceId(p)
         \/ \E p \in Process : SurveyEnds(p)
         \/ \E p \in Process, d \in Disk : StartProgram(p, d)
         \/ \E p \in Process, s \in Path \cup {"hook"} : ProgramEnds(p, s)
         \/ \E p \in Process, b \in BOOLEAN : CommandDone(p, b)
         \/ \E p \in Process : CloseDevices(p)
         \/ \E p \in Process : PostHookEnds(p)
         \/ \E p \in Process, b \in BOOLEAN : Exit(p, b)
         \/ \E p \in Process : Killed(p)
         \/ \E s \in Path : Unmount(s)
         \/ \E s \in Path, l \in site.labels : Mount(s, l)
BY DEF RunNext, Proceed, Children

-----------------------------------------------------------------------------
(* The lock, by itself: who needs it and is under way holds it. A run that has  *)
(* not begun, or waits, has no programs.                                      *)
LockInv ==
  /\ flocked \in Process \cup {Absent}
  /\ DOMAIN stage = Process /\ stage = [p \in Process |-> stage[p]]
  /\ child = [p \in Process |-> child[p]]
  /\ request = [p \in Process |-> request[p]]
  /\ \A p \in Process :
       /\ stage[p] \in {"idle", "lock"} => child[p] = {}
       /\ Underway(p) /\ NeedsLock(p) => flocked = p

LEMMA LockInit == RunInit => LockInv
BY RunAssumption DEF RunInit, LockInv, Underway, NeedsLock, Blank

(* A step that touches neither the lock, nor what needs it or is under way.    *)
LEMMA LockUntouched ==
  ASSUME LockInv, UNCHANGED <<site, flocked, request>>,
         stage' = [p \in Process |-> stage'[p]],
         child' = [p \in Process |-> child'[p]],
         \A p \in Process :
           \/ stage'[p] = stage[p] /\ child'[p] \subseteq child[p]
           \/ stage[p] \notin {"idle", "lock", "ended"} /\ stage'[p] \notin {"idle", "lock"}
  PROVE  LockInv'
BY DEF LockInv, Underway, NeedsLock

(* The end of a run leaves the lock to its programs.                          *)
LEMMA LockAtEnd ==
  ASSUME LockInv, NEW p \in Process, NEW failed, stage[p] # "idle",
         child' = [child EXCEPT ![p] = child'[p]],
         End(p, failed, child'[p]), UNCHANGED <<site, request>>,
         child'[p] \subseteq child[p]
  PROVE  LockInv'
<1>1. /\ stage' = [stage EXCEPT ![p] = "ended"]
      /\ flocked' = IF flocked = p /\ child'[p] = {} THEN Absent ELSE flocked
  BY DEF End, LockAfter
<1>2. \A r \in Process : stage[r] \in {"idle", "lock"} => child[r] = {}
  BY DEF LockInv
<1>3. \A r \in Process : stage'[r] \in {"idle", "lock"} => child'[r] = {}
  BY <1>1, <1>2 DEF LockInv
<1>4. \A r \in Process : Underway(r)' /\ NeedsLock(r)' => flocked' = r
  <2> SUFFICES ASSUME NEW r \in Process, Underway(r)', NeedsLock(r)'
               PROVE  flocked' = r
    OBVIOUS
  <2>1. NeedsLock(r)
    BY DEF NeedsLock
  <2>2. Underway(r) /\ (r = p => child'[p] # {})
    BY <1>1, <1>2 DEF Underway, LockInv
  <2>3. flocked = r
    BY <2>1, <2>2 DEF LockInv
  <2> QED
    BY <1>1, <2>2, <2>3
<1> QED
  BY <1>1, <1>3, <1>4 DEF LockInv

LEMMA LockNext == LockInv /\ [RunNext]_program => LockInv'
<1> SUFFICES ASSUME LockInv, [RunNext]_program
             PROVE  LockInv'
  OBVIOUS
<1>1. CASE UNCHANGED program
  BY <1>1 DEF program, LockInv, Underway, NeedsLock
<1>2. ASSUME NEW p \in Process, NEW q \in Request, Begin(p, q)
      PROVE  LockInv'
  <2>1. /\ stage[p] = "idle"
        /\ request' = [request EXCEPT ![p] = q]
        /\ UNCHANGED <<site, child>>
        /\ stage' = [stage EXCEPT ![p] = "lock"] \/ stage' = [stage EXCEPT ![p] = "ended"]
        /\ flocked' = flocked \/ (flocked = p /\ flocked' = Absent)
    BY <1>2 DEF Begin, End, Goto, LockAfter
  <2>2. \A r \in Process : Underway(r)' /\ NeedsLock(r)' => flocked' = r
    BY <2>1, RunAssumption DEF LockInv, Underway, NeedsLock
  <2> QED
    BY <2>1, <2>2, RunAssumption DEF LockInv
<1>3. ASSUME NEW p \in Process, TakeLock(p)
      PROVE  LockInv'
  <2>1. stage[p] = "lock" /\ UNCHANGED <<site, request, child>>
    BY <1>3 DEF TakeLock
  <2>2. CASE End(p, FALSE, child[p])
    <3>1. stage[p] # "idle" /\ child'[p] = child[p] /\ child'[p] \subseteq child[p]
      BY <2>1
    <3>2. child' = [child EXCEPT ![p] = child'[p]] BY <2>1, <3>1 DEF LockInv
    <3>3. End(p, FALSE, child'[p]) BY <2>2, <3>1
    <3> QED BY <2>1, <3>1, <3>2, <3>3, LockAtEnd
  <2>3. CASE /\ ~NeedsLock(p) \/ flocked = Absent
             /\ stage' = [stage EXCEPT ![p] = "work"]
             /\ flocked' = IF NeedsLock(p) THEN p ELSE flocked
    <3>1. \A r \in Process : NeedsLock(r)' <=> NeedsLock(r)
      BY <2>1 DEF NeedsLock
    <3>2. \A r \in Process \ {p} : Underway(r)' => Underway(r)
      BY <2>1, <2>3 DEF LockInv, Underway
    <3>3. \A r \in Process : Underway(r)' /\ NeedsLock(r)' => flocked' = r
      BY <2>3, <3>1, <3>2, RunAssumption DEF LockInv
    <3> QED BY <2>1, <2>3, <3>3 DEF LockInv
  <2> QED
    BY <1>3, <2>2, <2>3 DEF TakeLock
<1>4. ASSUME NEW p \in Process, NEW m \in {"enabled", "disabled"}, StartSurvey(p, m)
      PROVE  LockInv'
  BY <1>4, LockUntouched DEF StartSurvey, Goto, LockInv
<1>5. ASSUME NEW p \in Process, ExamineStore(p)
      PROVE  LockInv'
  <2>1. /\ stage[p] = "survey" /\ UNCHANGED <<site, flocked, request>>
        /\ \E next \in {"survey", "hook", "read"} : stage' = [stage EXCEPT ![p] = next]
        /\ child' = child \/ child' = [child EXCEPT ![p] = child[p] \cup {"hook"}]
    BY <1>5 DEF ExamineStore, UnavailableStore, BadStore, NextStore
  <2> QED
    BY <2>1, LockUntouched DEF LockInv
<1>6. ASSUME NEW p \in Process, PreHookEnds(p) \/ PostHookEnds(p)
      PROVE  LockInv'
  <2>1. /\ stage[p] \in {"hook", "post"}
        /\ child' = [child EXCEPT ![p] = child[p] \ {"hook"}]
        /\ child'[p] = child[p] \ {"hook"}
        /\ UNCHANGED <<site, request>>
    BY <1>6 DEF PreHookEnds, PostHookEnds, LockInv
  <2>2. CASE Goto(p, "read") \/ Goto(p, "report")
    BY <2>1, <2>2, LockUntouched DEF Goto, LockInv
  <2>3. CASE End(p, TRUE, child[p] \ {"hook"})
    BY <2>1, <2>3, LockAtEnd
  <2> QED
    BY <1>6, <2>2, <2>3 DEF PreHookEnds, PostHookEnds
<1>7. ASSUME NEW p \in Process, ReadDeviceId(p)
      PROVE  LockInv'
  <2>1. stage[p] = "read" /\ UNCHANGED <<site, request, child>>
    BY <1>7 DEF ReadDeviceId
  <2>2. CASE stage' = [stage EXCEPT ![p] = "survey"] /\ UNCHANGED flocked
    BY <2>1, <2>2, LockUntouched DEF LockInv
  <2>3. CASE End(p, TRUE, child[p])
    BY <2>1, <2>3, LockAtEnd DEF LockInv
  <2> QED
    BY <1>7, <2>2, <2>3 DEF ReadDeviceId, UnavailableStore, BadStore, FatalStoreError, NextStore
<1>8. ASSUME NEW p \in Process, SurveyEnds(p)
      PROVE  LockInv'
  BY <1>8, LockUntouched DEF SurveyEnds, Goto, LockInv
<1>9. ASSUME NEW p \in Process, NEW d \in Disk, StartProgram(p, d)
      PROVE  LockInv'
  BY <1>9, LockUntouched DEF StartProgram, LockInv
<1>10. ASSUME NEW p \in Process, NEW s \in Path \cup {"hook"}, ProgramEnds(p, s)
       PROVE  LockInv'
  <2>1. /\ s \in child[p] /\ stage[p] \notin {"idle", "lock"}
        /\ child' = [child EXCEPT ![p] = child[p] \ {s}]
        /\ UNCHANGED <<site, request, stage>>
        /\ \/ UNCHANGED flocked
           \/ flocked = p /\ stage[p] = "ended" /\ child'[p] = {} /\ flocked' = Absent
    BY <1>10 DEF ProgramEnds, LockAfter, LockInv
  <2>2. \A r \in Process : Underway(r)' /\ NeedsLock(r)' => flocked' = r
    BY <2>1 DEF LockInv, Underway, NeedsLock
  <2> QED
    BY <2>1, <2>2 DEF LockInv
<1>11. ASSUME NEW p \in Process, NEW b \in BOOLEAN, CommandDone(p, b)
       PROVE  LockInv'
  BY <1>11, LockUntouched DEF CommandDone, LockInv
<1>12. ASSUME NEW p \in Process, CloseDevices(p)
       PROVE  LockInv'
  <2>1. /\ stage[p] = "work" /\ UNCHANGED <<site, flocked, request>>
        /\ \E next \in {"post", "report"} : stage' = [stage EXCEPT ![p] = next]
        /\ child' = child \/ child' = [child EXCEPT ![p] = child[p] \cup {"hook"}]
    BY <1>12 DEF CloseDevices, Goto
  <2> QED
    BY <2>1, LockUntouched DEF LockInv
<1>13. ASSUME NEW p \in Process, NEW b \in BOOLEAN, Exit(p, b) \/ Killed(p)
       PROVE  LockInv'
  <2>1. /\ stage[p] # "idle" /\ UNCHANGED <<site, request, child>>
        /\ \E failed : End(p, failed, child[p])
    BY <1>13 DEF Exit, Killed
  <2> QED
    BY <2>1, LockAtEnd DEF LockInv
<1>14. ASSUME NEW s \in Path, NEW l, Unmount(s) \/ Mount(s, l)
       PROVE  LockInv'
  BY <1>14 DEF Unmount, Mount, LockInv, Underway, NeedsLock
<1> QED
  BY <1>1, <1>2, <1>3, <1>4, <1>5, <1>6, <1>7, <1>8, <1>9, <1>10, <1>11, <1>12,
     <1>13, <1>14, RunSteps

(* No two runs that need the lock are ever under way at once, whatever becomes   *)
(* of them, and though a killed run leaves its programs behind.                *)
THEOREM Exclusion == RunSpec => []OneWriter
<1>1. LockInv => OneWriter
  BY DEF LockInv, OneWriter
<1> QED
  BY <1>1, LockInit, LockNext, PTL DEF RunSpec

-----------------------------------------------------------------------------
(* What the variables hold.                                                  *)
LEMMA Update ==
  ASSUME NEW D, NEW R, NEW f \in [D -> R], NEW x, NEW v \in R
  PROVE  [f EXCEPT ![x] = v] \in [D -> R]
OBVIOUS

LEMMA Disks == Label \cup {Absent} = Disk \cup {"bad", "unreadable", Absent}
BY DEF Label

LEMMA PathsAre == Len(Paths) \in Nat /\ \A i \in 1 .. Len(Paths) : Paths[i] \in Path
BY RunAssumption DEF Path, ToSet, IsInjective

LEMMA TypeInit == RunInit => RunTypeOK
BY RunAssumption, PathsAre DEF RunInit, RunTypeOK, Unsurveyed, NoStores, Nowhere

LEMMA EndType ==
  ASSUME RunTypeOK, NEW p \in Process, NEW failed \in BOOLEAN, NEW children,
         End(p, failed, children),
         UNCHANGED <<site, media>>,
         request' \in [Process -> Request \cup {Blank}],
         devicesReady' \in [Process -> BOOLEAN],
         child' \in [Process -> SUBSET (Path \cup {"hook"})]
  PROVE  RunTypeOK'
<1>1. /\ flocked' \in Process \cup {Absent}
      /\ stage' = [stage EXCEPT ![p] = "ended"]
      /\ errors' = [errors EXCEPT ![p] = failed]
      /\ keepsOpen' = [keepsOpen EXCEPT ![p] = {}]
      /\ leaked' = [leaked EXCEPT ![p] = {}]
      /\ known' = [known EXCEPT ![p] = NoStores]
      /\ survey' = [survey EXCEPT ![p] = Unsurveyed]
      /\ place' = [place EXCEPT ![p] = Nowhere]
  BY DEF End, LockAfter, RunTypeOK
<1>2. survey' \in [Process -> [done : SUBSET {"enabled", "disabled"}, found : BOOLEAN,
                             states : {"enabled", "disabled"}, next : 1 .. Len(Paths) + 1]]
  BY <1>1, PathsAre DEF RunTypeOK, Unsurveyed
<1>3. known' \in [Process -> [all : SUBSET Path, enabled : SUBSET Path, mounted : SUBSET Path]]
  BY <1>1 DEF RunTypeOK, NoStores
<1>4. place' \in [Process -> [Disk -> Path \cup {Absent}]]
  BY <1>1 DEF RunTypeOK, Nowhere
<1>5. \A r \in Process : stage'[r] \in {"hook", "read"} => survey'[r].next <= Len(Paths)
  BY <1>1 DEF RunTypeOK
<1> QED
  BY <1>1, <1>2, <1>3, <1>4, <1>5 DEF RunTypeOK

(* The typing of a step of the survey of a run.                               *)
SurveyType == [done : SUBSET {"enabled", "disabled"}, found : BOOLEAN,
               states : {"enabled", "disabled"}, next : 1 .. Len(Paths) + 1]

LEMMA NextStoreType ==
  ASSUME RunTypeOK, NEW p \in Process, NEW found \in BOOLEAN, NextStore(p, found),
         survey[p].next <= Len(Paths)
  PROVE  /\ survey' \in [Process -> SurveyType]
         /\ stage' = [stage EXCEPT ![p] = "survey"]
         /\ \A r \in Process : stage'[r] \in {"hook", "read"} => survey'[r].next <= Len(Paths)
         /\ UNCHANGED <<known, flocked>>
<1>1. survey[p] \in SurveyType
  BY DEF RunTypeOK, SurveyType
<1>2. [done |-> survey[p].done, states |-> survey[p].states,
       next |-> survey[p].next + 1, found |-> survey[p].found \/ found] \in SurveyType
  BY <1>1, PathsAre DEF SurveyType
<1>3. survey' \in [Process -> SurveyType]
  BY <1>2 DEF NextStore, RunTypeOK, SurveyType
<1> QED
  BY <1>3 DEF NextStore, RunTypeOK

LEMMA TypeNext == RunTypeOK /\ [RunNext]_program => RunTypeOK'
<1> SUFFICES ASSUME RunTypeOK, [RunNext]_program
             PROVE  RunTypeOK'
  OBVIOUS
<1>1. CASE UNCHANGED program
  BY <1>1 DEF program, RunTypeOK
<1>2. ASSUME NEW p \in Process, NEW q \in Request, Begin(p, q)
      PROVE  RunTypeOK'
  <2>1. /\ UNCHANGED <<site, media, devicesReady, child>>
        /\ request' \in [Process -> Request \cup {Blank}]
    BY <1>2 DEF Begin, RunTypeOK
  <2>2. CASE \E failed \in BOOLEAN : End(p, failed, child[p])
    BY <2>1, <2>2, EndType DEF RunTypeOK
  <2>3. CASE /\ Goto(p, "lock")
             /\ known' = [known EXCEPT ![p] = Stores(q)]
             /\ UNCHANGED <<errors, keepsOpen, survey, place>>
    <3>1. Stores(q) \in [all : SUBSET Path, enabled : SUBSET Path, mounted : SUBSET Path]
      BY RunAssumption DEF Stores, RunTypeOK
    <3>2. \A r \in Process : stage'[r] \in {"hook", "read"} => survey'[r].next <= Len(Paths)
      BY <2>3 DEF Goto, RunTypeOK
    <3>3. known' \in [Process -> [all : SUBSET Path, enabled : SUBSET Path, mounted : SUBSET Path]]
      BY <2>3, <3>1 DEF RunTypeOK
    <3> QED
      BY <2>1, <2>3, <3>2, <3>3 DEF Goto, RunTypeOK
  <2>4. (CommandError(q) \/ ~site.readable) \in BOOLEAN
    BY DEF CommandError, Incompatible, BadSelections
  <2> QED
    BY <1>2, <2>2, <2>3, <2>4 DEF Begin
<1>3. ASSUME NEW p \in Process, TakeLock(p)
      PROVE  RunTypeOK'
  <2>1. UNCHANGED <<site, media, request, child, devicesReady>>
    BY <1>3 DEF TakeLock
  <2>2. CASE End(p, FALSE, child[p])
    BY <2>1, <2>2, EndType DEF RunTypeOK
  <2>3. CASE /\ stage' = [stage EXCEPT ![p] = "work"]
             /\ flocked' = IF NeedsLock(p) THEN p ELSE flocked
             /\ UNCHANGED <<errors, keepsOpen, leaked, data>>
    BY <2>1, <2>3 DEF RunTypeOK, data
  <2> QED
    BY <1>3, <2>2, <2>3 DEF TakeLock
<1>4. ASSUME NEW p \in Process, NEW m \in {"enabled", "disabled"}, StartSurvey(p, m)
      PROVE  RunTypeOK'
  <2>1. survey[p] \in SurveyType
    BY DEF RunTypeOK, SurveyType
  <2>2. [done |-> survey[p].done, states |-> m, next |-> 1, found |-> FALSE] \in SurveyType
    BY <2>1, PathsAre DEF SurveyType
  <2>3. survey' \in [Process -> SurveyType]
    BY <1>4, <2>2 DEF StartSurvey, RunTypeOK, SurveyType
  <2>4. \A r \in Process : stage'[r] \in {"hook", "read"} => survey'[r].next <= Len(Paths)
    BY <1>4 DEF StartSurvey, Goto, RunTypeOK
  <2> QED
    BY <1>4, <2>3, <2>4 DEF StartSurvey, Goto, RunTypeOK, SurveyType
<1>5. ASSUME NEW p \in Process, ExamineStore(p)
      PROVE  RunTypeOK'
  <2>1. /\ survey[p].next <= Len(Paths)
        /\ UNCHANGED <<site, media, request, leaked>>
    BY <1>5 DEF ExamineStore
  <2>2. CASE /\ NextStore(p, FALSE)
             /\ UNCHANGED <<place, keepsOpen, devicesReady, child>>
             /\ errors' = [errors EXCEPT ![p] = errors[p] \/ Enabled(p)] \/ UNCHANGED errors
    <3>1. errors' \in [Process -> BOOLEAN]
      BY <2>2 DEF RunTypeOK, Enabled
    <3> QED
      BY <2>1, <2>2, <3>1, NextStoreType DEF RunTypeOK, SurveyType
  <2>3. CASE /\ UNCHANGED <<data, keepsOpen, errors, flocked>>
             /\ \E next \in {"hook", "read"} : stage' = [stage EXCEPT ![p] = next]
             /\ child' = child \/ child' = [child EXCEPT ![p] = child[p] \cup {"hook"}]
             /\ \/ UNCHANGED devicesReady
                \/ devicesReady' = [devicesReady EXCEPT ![p] = TRUE]
    <3>1. \A r \in Process : stage'[r] \in {"hook", "read"} => survey'[r].next <= Len(Paths)
      BY <2>1, <2>3 DEF RunTypeOK, data
    <3>2. stage' \in [Process -> {"idle", "lock", "work", "survey", "hook", "read", "post",
                                 "report", "ended"}]
      BY <2>3 DEF RunTypeOK
    <3>3. /\ child' \in [Process -> SUBSET (Path \cup {"hook"})]
          /\ devicesReady' \in [Process -> BOOLEAN]
      <4>1. child \in [Process -> SUBSET (Path \cup {"hook"})]
        BY DEF RunTypeOK
      <4>2. child[p] \cup {"hook"} \in SUBSET (Path \cup {"hook"})
        BY <4>1
      <4>3. child' \in [Process -> SUBSET (Path \cup {"hook"})]
        BY <2>3, <4>1, <4>2, Update
      <4> QED
        BY <2>3, <4>3 DEF RunTypeOK
    <3> QED
      BY <2>1, <2>3, <3>1, <3>2, <3>3 DEF RunTypeOK, data
  <2> QED
    BY <1>5, <2>2, <2>3 DEF ExamineStore, UnavailableStore, BadStore
<1>6. ASSUME NEW p \in Process, PreHookEnds(p) \/ PostHookEnds(p)
      PROVE  RunTypeOK'
  <2>1. /\ stage[p] \in {"hook", "post"}
        /\ child' \in [Process -> SUBSET (Path \cup {"hook"})]
        /\ devicesReady' \in [Process -> BOOLEAN]
        /\ UNCHANGED <<site, media, request>>
    <3>1. /\ stage[p] \in {"hook", "post"}
          /\ child' = [child EXCEPT ![p] = child[p] \ {"hook"}]
          /\ \/ UNCHANGED devicesReady
             \/ \E b \in BOOLEAN : devicesReady' = [devicesReady EXCEPT ![p] = b]
          /\ UNCHANGED <<site, media, request>>
      BY <1>6 DEF PreHookEnds, PostHookEnds
    <3> QED
      BY <3>1 DEF RunTypeOK
  <2>2. CASE /\ Goto(p, "report") \/ (stage[p] = "hook" /\ Goto(p, "read"))
             /\ UNCHANGED <<errors, keepsOpen, data>>
    <3>1. \A r \in Process : stage'[r] \in {"hook", "read"} => survey'[r].next <= Len(Paths)
      BY <2>1, <2>2 DEF Goto, RunTypeOK, data
    <3>2. stage' \in [Process -> {"idle", "lock", "work", "survey", "hook", "read", "post",
                                 "report", "ended"}]
      BY <2>2 DEF Goto, RunTypeOK
    <3> QED
      BY <2>1, <2>2, <3>1, <3>2 DEF Goto, RunTypeOK, data
  <2>3. CASE End(p, TRUE, child[p] \ {"hook"})
    BY <2>1, <2>3, EndType DEF RunTypeOK
  <2> QED
    BY <1>6, <2>2, <2>3 DEF PreHookEnds, PostHookEnds
<1>7. ASSUME NEW p \in Process, ReadDeviceId(p)
      PROVE  RunTypeOK'
  <2>1. /\ survey[p].next <= Len(Paths) /\ Paths[survey[p].next] \in Path
        /\ UNCHANGED <<site, media, request, devicesReady, child>>
    <3>1. stage[p] = "read" /\ UNCHANGED <<site, media, request, devicesReady, child>>
      BY <1>7 DEF ReadDeviceId
    <3>2. survey[p] \in SurveyType /\ survey[p].next <= Len(Paths)
      BY <3>1 DEF RunTypeOK, SurveyType
    <3>3. survey[p].next \in 1 .. Len(Paths)
      BY <3>2, PathsAre DEF SurveyType
    <3> QED
      BY <3>1, <3>2, <3>3, PathsAre
  <2>2. CASE End(p, TRUE, child[p])
    BY <2>1, <2>2, EndType DEF RunTypeOK
  <2>3. CASE /\ NextStore(p, FALSE) /\ UNCHANGED <<place, keepsOpen>>
             /\ errors' = [errors EXCEPT ![p] = errors[p] \/ Enabled(p)] \/ UNCHANGED errors
             /\ \/ UNCHANGED leaked
                \/ leaked' = [leaked EXCEPT ![p] = leaked[p] \cup {Paths[survey[p].next]}]
    <3>1. errors' \in [Process -> BOOLEAN] /\ leaked' \in [Process -> SUBSET Path]
      <4>1. (errors[p] \/ Enabled(p)) \in BOOLEAN
        BY DEF RunTypeOK, Enabled
      <4>2. errors' \in [Process -> BOOLEAN]
        BY <2>3, <4>1 DEF RunTypeOK
      <4>3. leaked' \in [Process -> SUBSET Path]
        <5>1. leaked \in [Process -> SUBSET Path]
          BY DEF RunTypeOK
        <5>2. leaked[p] \cup {Paths[survey[p].next]} \in SUBSET Path
          BY <2>1, <5>1
        <5> QED
          BY <2>3, <5>1, <5>2, Update
      <4> QED
        BY <4>2, <4>3
    <3> QED
      BY <2>1, <2>3, <3>1, NextStoreType DEF RunTypeOK, SurveyType
  <2>4. ASSUME NEW d \in Disk, NEW s \in Path, NextStore(p, TRUE),
               place' = [place EXCEPT ![p] = [place[p] EXCEPT ![d] = s]],
               keepsOpen' = [keepsOpen EXCEPT ![p] = keepsOpen[p] \cup {s}],
               UNCHANGED <<errors, leaked>>
        PROVE  RunTypeOK'
    <3>1. place' \in [Process -> [Disk -> Path \cup {Absent}]]
      <4>1. place[p] \in [Disk -> Path \cup {Absent}]
        BY DEF RunTypeOK
      <4>2. [place[p] EXCEPT ![d] = s] \in [Disk -> Path \cup {Absent}]
        BY <4>1
      <4> QED
        BY <2>4, <4>2 DEF RunTypeOK
    <3>2. keepsOpen' \in [Process -> SUBSET Path]
      BY <2>4 DEF RunTypeOK
    <3> QED
      BY <2>1, <2>4, <3>1, <3>2, NextStoreType DEF RunTypeOK, SurveyType
  <2> QED
    BY <1>7, <2>1, <2>2, <2>3, <2>4 DEF ReadDeviceId, UnavailableStore, BadStore, FatalStoreError
<1>8. ASSUME NEW p \in Process, SurveyEnds(p)
      PROVE  RunTypeOK'
  <2>1. survey[p] \in SurveyType
    BY DEF RunTypeOK, SurveyType
  <2>2. [done |-> survey[p].done \cup {survey[p].states}, next |-> 1,
         states |-> survey[p].states, found |-> survey[p].found] \in SurveyType
    BY <2>1, PathsAre DEF SurveyType
  <2>3. survey' \in [Process -> SurveyType]
    BY <1>8, <2>2 DEF SurveyEnds, RunTypeOK, SurveyType
  <2>4. \A r \in Process : stage'[r] \in {"hook", "read"} => survey'[r].next <= Len(Paths)
    BY <1>8 DEF SurveyEnds, Goto, RunTypeOK
  <2>5. errors' \in [Process -> BOOLEAN]
    BY <1>8 DEF SurveyEnds, RunTypeOK, Enabled
  <2> QED
    BY <1>8, <2>3, <2>4, <2>5 DEF SurveyEnds, Goto, RunTypeOK, SurveyType
<1>9. ASSUME NEW p \in Process, NEW d \in Disk, StartProgram(p, d)
      PROVE  RunTypeOK'
  BY <1>9 DEF StartProgram, RunTypeOK, memory, data
<1>10. ASSUME NEW p \in Process, NEW s \in Path \cup {"hook"}, ProgramEnds(p, s)
       PROVE  RunTypeOK'
  BY <1>10 DEF ProgramEnds, RunTypeOK, memory, data, LockAfter
<1>11. ASSUME NEW p \in Process, NEW b \in BOOLEAN, CommandDone(p, b)
       PROVE  RunTypeOK'
  BY <1>11 DEF CommandDone, RunTypeOK
<1>12. ASSUME NEW p \in Process, CloseDevices(p)
       PROVE  RunTypeOK'
  <2>1. /\ \E next \in {"post", "report"} : stage' = [stage EXCEPT ![p] = next]
        /\ keepsOpen' = keepsOpen \/ keepsOpen' = [keepsOpen EXCEPT ![p] = {}]
        /\ child' = child \/ child' = [child EXCEPT ![p] = child[p] \cup {"hook"}]
        /\ \/ UNCHANGED devicesReady
           \/ devicesReady' = [devicesReady EXCEPT ![p] = FALSE]
        /\ UNCHANGED <<site, media, flocked, request, known, survey, place, leaked, errors>>
    BY <1>12 DEF CloseDevices, Goto
  <2>2. \A r \in Process : stage'[r] \in {"hook", "read"} => survey'[r].next <= Len(Paths)
    BY <2>1 DEF RunTypeOK
  <2>3. child' \in [Process -> SUBSET (Path \cup {"hook"})]
    <3>1. child \in [Process -> SUBSET (Path \cup {"hook"})]
      BY DEF RunTypeOK
    <3>2. child[p] \cup {"hook"} \in SUBSET (Path \cup {"hook"})
      BY <3>1
    <3> QED
      BY <2>1, <3>1, <3>2, Update
  <2>4. stage' \in [Process -> {"idle", "lock", "work", "survey", "hook", "read", "post",
                               "report", "ended"}]
    BY <2>1 DEF RunTypeOK
  <2> QED
    BY <2>1, <2>2, <2>3, <2>4 DEF RunTypeOK
<1>13. ASSUME NEW p \in Process, NEW b \in BOOLEAN, Exit(p, b) \/ Killed(p)
       PROVE  RunTypeOK'
  <2>1. /\ UNCHANGED <<site, media, request, child, devicesReady>>
        /\ \E failed \in BOOLEAN : End(p, failed, child[p])
    BY <1>13 DEF Exit, Killed, RunTypeOK
  <2> QED
    <3>1. PICK failed \in BOOLEAN : End(p, failed, child[p])
      BY <2>1
    <3>2. /\ request' \in [Process -> Request \cup {Blank}]
          /\ devicesReady' \in [Process -> BOOLEAN]
          /\ child' \in [Process -> SUBSET (Path \cup {"hook"})]
      BY <2>1 DEF RunTypeOK
    <3> QED
      BY <2>1, <3>1, <3>2, EndType
<1>14. ASSUME NEW s \in Path, Unmount(s) \/ \E l \in site.labels : Mount(s, l)
       PROVE  RunTypeOK'
  <2>1. media \in [Path -> Label \cup {Absent}] /\ site.labels \subseteq Label
    BY RunAssumption DEF RunTypeOK
  <2>2. \E l \in Label \cup {Absent} : media' = [media EXCEPT ![s] = l]
    BY <1>14, <2>1 DEF Unmount, Mount
  <2>3. media' \in [Path -> Label \cup {Absent}]
    BY <2>1, <2>2, Update
  <2>4. UNCHANGED <<site, flocked, stage, request, memory, keepsOpen, leaked, errors, child>>
    BY <1>14 DEF Unmount, Mount
  <2> QED
    BY <2>3, <2>4 DEF RunTypeOK, memory, data
<1> QED
  <2>1. CASE RunNext
    <3>1. CASE \E p \in Process, b \in BOOLEAN : Exit(p, b) \/ Killed(p)
      BY <3>1, <1>13
    <3>2. CASE \E s \in Path : Unmount(s) \/ \E l \in site.labels : Mount(s, l)
      BY <3>2, <1>14
    <3> QED
      BY <2>1, <3>1, <3>2, <1>2, <1>3, <1>4, <1>5, <1>6, <1>7, <1>8, <1>9, <1>10,
         <1>11, <1>12, RunSteps
  <2> QED
    BY <1>1, <2>1

THEOREM RunTyping == RunSpec => []RunTypeOK
BY TypeInit, TypeNext, PTL DEF RunSpec

-----------------------------------------------------------------------------
(* The disks stay where they are needed. A run has nothing open before it has   *)
(* begun; what it identified is open until the post-device-hook.               *)
Held(p) == {place[p][d] : d \in Disk} \ {Absent}

StayInv ==
  \A p \in Process :
    /\ Surveyed(p) =>
         /\ \A d \in Disk : place[p][d] # Absent => media[place[p][d]] = d
         /\ keepsOpen[p] = Held(p)
    /\ \A s \in child[p] \ {"hook"} : media[s] \in Disk
    /\ stage[p] \in {"idle", "lock"} => place[p] = Nowhere /\ keepsOpen[p] = {}

LEMMA NothingHeld == \A p \in Process : place[p] = Nowhere => Held(p) = {}
BY DEF Held, Nowhere

LEMMA StayInit == RunInit => StayInv
BY DEF RunInit, StayInv, Surveyed

(* A step that identifies nothing, and neither mounts nor unmounts.             *)
LEMMA StayUntouched ==
  ASSUME StayInv, UNCHANGED media,
         \A p \in Process :
           /\ stage'[p] \in {"idle", "lock", "work", "survey", "hook", "read"} =>
                /\ place'[p] = place[p] /\ keepsOpen'[p] = keepsOpen[p]
                /\ Surveyed(p)' => Surveyed(p)
                /\ ~Surveyed(p)' => stage'[p] = stage[p] \/ stage[p] = "idle"
           /\ \A s \in child'[p] \ {"hook"} : s \in child[p] \/ media[s] \in Disk
  PROVE  StayInv'
<1> SUFFICES ASSUME NEW p \in Process
             PROVE  /\ Surveyed(p)' =>
                         /\ \A d \in Disk : place'[p][d] # Absent => media'[place'[p][d]] = d
                         /\ keepsOpen'[p] = Held(p)'
                    /\ \A s \in child'[p] \ {"hook"} : media'[s] \in Disk
                    /\ stage'[p] \in {"idle", "lock"} => place'[p] = Nowhere /\ keepsOpen'[p] = {}
  BY DEF StayInv
<1>1. CASE Surveyed(p)'
  <2>1. Surveyed(p) /\ place'[p] = place[p] /\ keepsOpen'[p] = keepsOpen[p]
    BY <1>1 DEF Surveyed
  <2>2. Held(p)' = Held(p)
    BY <2>1 DEF Held
  <2> QED
    BY <1>1, <2>1, <2>2 DEF StayInv, Surveyed
<1>2. CASE ~Surveyed(p)'
  BY <1>2 DEF StayInv, Surveyed
<1> QED
  BY <1>1, <1>2

(* Programs that are gone, and a hook that is started.                        *)
LEMMA ChildrenGone ==
  ASSUME RunTypeOK, NEW p \in Process, NEW gone,
         child' = [child EXCEPT ![p] = child[p] \ gone]
  PROVE  \A r \in Process : child'[r] \subseteq child[r]
<1>1. child'[p] = child[p] \ gone /\ \A r \in Process : r # p => child'[r] = child[r]
  BY DEF RunTypeOK
<1> QED
  BY <1>1

LEMMA HookStarted ==
  ASSUME RunTypeOK, NEW p \in Process, child' = [child EXCEPT ![p] = child[p] \cup {"hook"}]
  PROVE  \A r \in Process : child'[r] \ {"hook"} \subseteq child[r]
<1>1. /\ child'[p] = child[p] \cup {"hook"}
      /\ \A r \in Process : r # p => child'[r] = child[r]
  BY DEF RunTypeOK
<1> QED
  BY <1>1

(* The end of a run.                                                         *)
LEMMA StayAtEnd ==
  ASSUME RunTypeOK, StayInv, UNCHANGED media, NEW p \in Process, NEW failed, NEW children,
         End(p, failed, children),
         child' = child \/ child' = [child EXCEPT ![p] = child[p] \ {"hook"}]
  PROVE  StayInv'
<1>1. /\ stage' = [stage EXCEPT ![p] = "ended"]
      /\ place' = [place EXCEPT ![p] = Nowhere]
      /\ keepsOpen' = [keepsOpen EXCEPT ![p] = {}]
  BY DEF End
<1>2. \A r \in Process : stage'[r] # "ended" =>
        stage'[r] = stage[r] /\ place'[r] = place[r] /\ keepsOpen'[r] = keepsOpen[r]
  BY <1>1 DEF RunTypeOK
<1>3. \A r \in Process : child'[r] \subseteq child[r]
  <2>1. CASE child' = child
    BY <2>1
  <2>2. CASE child' = [child EXCEPT ![p] = child[p] \ {"hook"}]
    BY <2>2, ChildrenGone
  <2> QED
    BY <2>1, <2>2
<1> QED
  BY <1>2, <1>3, StayUntouched DEF Surveyed

(* A step from one stage to another.                                         *)
LEMMA StayOn ==
  ASSUME RunTypeOK, StayInv, UNCHANGED media, NEW p \in Process, NEW next,
         stage' = [stage EXCEPT ![p] = next], UNCHANGED <<place, keepsOpen>>,
         \/ Surveyed(p)
         \/ next = "lock" /\ stage[p] = "idle"
         \/ next = "report" /\ stage[p] \notin {"idle", "lock"},
         next \in {"lock", "work", "survey", "hook", "read", "post", "report"},
         next = "lock" => stage[p] = "idle",
         \A r \in Process : child'[r] \ {"hook"} \subseteq child[r]
  PROVE  StayInv'
<1> USE DEF Surveyed
<1>1. \A r \in Process \ {p} : stage'[r] = stage[r]
  BY DEF RunTypeOK
<1>2. stage'[p] = next
  BY DEF RunTypeOK
<1>3. \A r \in Process : place'[r] = place[r] /\ keepsOpen'[r] = keepsOpen[r]
  OBVIOUS
<1>4. \A r \in Process : \A s \in child'[r] \ {"hook"} : s \in child[r]
  OBVIOUS
<1>5. \A r \in Process :
        stage'[r] \in {"idle", "lock", "work", "survey", "hook", "read"} =>
           /\ Surveyed(r)' => Surveyed(r)
           /\ ~Surveyed(r)' => stage'[r] = stage[r] \/ stage[r] = "idle"
  <2>1. ASSUME NEW r \in Process \ {p}
        PROVE  (Surveyed(r)' => Surveyed(r)) /\ stage'[r] = stage[r]
    BY <1>1
  <2>2. stage'[p] \in {"idle", "lock", "work", "survey", "hook", "read"} =>
           /\ Surveyed(p)' => Surveyed(p)
           /\ ~Surveyed(p)' => stage'[p] = stage[p] \/ stage[p] = "idle"
    BY <1>2
  <2> QED
    BY <2>1, <2>2
<1> QED
  BY <1>3, <1>4, <1>5, StayUntouched

LEMMA StayWithin ==
  ASSUME RunTypeOK, StayInv, UNCHANGED media, NEW p \in Process,
         NEW next \in {"work", "survey", "hook", "read"},
         stage' = [stage EXCEPT ![p] = next], UNCHANGED place, UNCHANGED keepsOpen,
         Surveyed(p),
         \A r \in Process : child'[r] \ {"hook"} \subseteq child[r]
  PROVE  StayInv'
<1>1. next = "lock" => stage[p] = "idle"
  OBVIOUS
<1>2. \/ Surveyed(p)
      \/ next = "lock" /\ stage[p] = "idle"
      \/ next = "report" /\ stage[p] \notin {"idle", "lock"}
  OBVIOUS
<1>3. next \in {"lock", "work", "survey", "hook", "read", "post", "report"}
  OBVIOUS
<1>4. UNCHANGED <<place, keepsOpen>>
  OBVIOUS
<1> QED
  BY <1>1, <1>2, <1>3, <1>4, StayOn

LEMMA StayNext == RunTypeOK /\ StayInv /\ [RunNext]_program => StayInv'
<1> SUFFICES ASSUME RunTypeOK, StayInv, [RunNext]_program
             PROVE  StayInv'
  OBVIOUS
<1>1. CASE UNCHANGED program
  BY <1>1 DEF program, StayInv, Surveyed, Held
<1>2. ASSUME NEW p \in Process, NEW q \in Request, Begin(p, q)
      PROVE  StayInv'
  <2>1. stage[p] = "idle" /\ UNCHANGED <<media, child>>
    BY <1>2 DEF Begin
  <2>2. CASE \E failed : End(p, failed, child[p])
    BY <2>1, <2>2, StayAtEnd
  <2>3. CASE Goto(p, "lock") /\ UNCHANGED <<errors, keepsOpen, survey, place>>
    BY <2>1, <2>3, StayOn DEF Goto
  <2> QED
    BY <1>2, <2>2, <2>3 DEF Begin
<1>3. ASSUME NEW p \in Process, TakeLock(p)
      PROVE  StayInv'
  <2>1. stage[p] = "lock" /\ UNCHANGED <<media, child>>
    BY <1>3 DEF TakeLock
  <2>2. CASE End(p, FALSE, child[p])
    BY <2>1, <2>2, StayAtEnd
  <2>3. CASE stage' = [stage EXCEPT ![p] = "work"] /\ UNCHANGED <<keepsOpen, data>>
    <3>1. place[p] = Nowhere /\ keepsOpen[p] = {} /\ UNCHANGED place
      BY <2>1, <2>3 DEF StayInv, data
    <3>2. /\ \A d \in Disk : place'[p][d] = Absent
          /\ Held(p)' = {} /\ keepsOpen'[p] = {}
      BY <2>3, <3>1 DEF Held, Nowhere
    <3>3. \A r \in Process : r # p => stage'[r] = stage[r]
      BY <2>3 DEF RunTypeOK
    <3>4. \A r \in Process : Held(r)' = Held(r)
      BY <3>1 DEF Held
    <3>5. stage'[p] = "work"
      BY <2>3 DEF RunTypeOK
    <3> QED
      BY <2>1, <2>3, <3>1, <3>2, <3>3, <3>4, <3>5 DEF StayInv, Surveyed
  <2> QED
    BY <1>3, <2>2, <2>3 DEF TakeLock
<1>4. ASSUME NEW p \in Process, NEW m \in {"enabled", "disabled"}, StartSurvey(p, m)
      PROVE  StayInv'
  <2>1. /\ stage[p] = "work" /\ stage' = [stage EXCEPT ![p] = "survey"]
        /\ UNCHANGED media /\ UNCHANGED place /\ UNCHANGED keepsOpen /\ UNCHANGED child
    BY <1>4 DEF StartSurvey, Goto
  <2>2. Surveyed(p)
    BY <2>1 DEF Surveyed
  <2>3. \A r \in Process : child'[r] \ {"hook"} \subseteq child[r]
    BY <2>1
  <2> QED
    BY <2>1, <2>2, <2>3, StayWithin
<1>5. ASSUME NEW p \in Process, ExamineStore(p)
      PROVE  StayInv'
  <2>1. /\ stage[p] = "survey" /\ UNCHANGED <<media, place, keepsOpen>>
        /\ \E next \in {"survey", "hook", "read"} : stage' = [stage EXCEPT ![p] = next]
        /\ child' = child \/ child' = [child EXCEPT ![p] = child[p] \cup {"hook"}]
    BY <1>5 DEF ExamineStore, UnavailableStore, BadStore, NextStore, data
  <2>2. \A r \in Process : child'[r] \ {"hook"} \subseteq child[r]
    <3>1. CASE child' = child
      BY <3>1
    <3> QED
      BY <2>1, <3>1, HookStarted
  <2>3. PICK next \in {"survey", "hook", "read"} : stage' = [stage EXCEPT ![p] = next]
    BY <2>1
  <2>4. Surveyed(p)
    BY <2>1 DEF Surveyed
  <2>5. UNCHANGED media /\ UNCHANGED place /\ UNCHANGED keepsOpen
    BY <2>1
  <2> QED
    BY <2>2, <2>3, <2>4, <2>5, StayWithin
<1>6. ASSUME NEW p \in Process, PreHookEnds(p) \/ PostHookEnds(p)
      PROVE  StayInv'
  <2>1. /\ child' = [child EXCEPT ![p] = child[p] \ {"hook"}]
        /\ UNCHANGED media
        /\ stage[p] \in {"hook", "post"}
    BY <1>6 DEF PreHookEnds, PostHookEnds
  <2>2. CASE End(p, TRUE, child[p] \ {"hook"})
    BY <2>1, <2>2, StayAtEnd
  <2>3. CASE /\ UNCHANGED <<keepsOpen, data>>
             /\ Goto(p, "report") \/ (stage[p] = "hook" /\ Goto(p, "read"))
    <3>1. \A r \in Process : child'[r] \ {"hook"} \subseteq child[r]
      BY <2>1, ChildrenGone
    <3>2. UNCHANGED media /\ UNCHANGED place /\ UNCHANGED keepsOpen
      BY <2>1, <2>3 DEF data
    <3>3. CASE stage' = [stage EXCEPT ![p] = "report"]
      BY <2>1, <3>1, <3>2, <3>3, StayOn
    <3>4. CASE stage[p] = "hook" /\ stage' = [stage EXCEPT ![p] = "read"]
      <4>1. Surveyed(p)
        BY <3>4 DEF Surveyed
      <4> QED
        BY <3>1, <3>2, <3>4, <4>1, StayWithin
    <3> QED
      BY <2>3, <3>3, <3>4 DEF Goto
  <2> QED
    BY <1>6, <2>2, <2>3 DEF PreHookEnds, PostHookEnds
<1>7. ASSUME NEW p \in Process, ReadDeviceId(p)
      PROVE  StayInv'
  <2>1. stage[p] = "read" /\ UNCHANGED <<media, child>>
    BY <1>7 DEF ReadDeviceId
  <2>2. CASE End(p, TRUE, child[p])
    BY <2>1, <2>2, StayAtEnd
  <2>3. CASE stage' = [stage EXCEPT ![p] = "survey"] /\ UNCHANGED <<place, keepsOpen>>
    <3>1. Surveyed(p) /\ UNCHANGED media /\ UNCHANGED place /\ UNCHANGED keepsOpen
      BY <2>1, <2>3 DEF Surveyed
    <3>2. \A r \in Process : child'[r] \ {"hook"} \subseteq child[r]
      BY <2>1
    <3> QED
      BY <2>3, <3>1, <3>2, StayWithin
  <2>4. ASSUME NEW d \in Disk, NEW s \in Path, media[s] = d, place[p][d] = Absent,
               stage' = [stage EXCEPT ![p] = "survey"],
               place' = [place EXCEPT ![p] = [place[p] EXCEPT ![d] = s]],
               keepsOpen' = [keepsOpen EXCEPT ![p] = keepsOpen[p] \cup {s}]
        PROVE  StayInv'
    <3>1. /\ place[p] \in [Disk -> Path \cup {Absent}] /\ s # Absent
          /\ place'[p] = [place[p] EXCEPT ![d] = s]
          /\ keepsOpen'[p] = keepsOpen[p] \cup {s}
          /\ stage'[p] = "survey"
      BY <2>4, RunAssumption DEF RunTypeOK
    <3>2. \A r \in Process : r # p =>
            stage'[r] = stage[r] /\ place'[r] = place[r] /\ keepsOpen'[r] = keepsOpen[r]
      BY <2>4 DEF RunTypeOK
    <3>3. /\ \A e \in Disk : place[p][e] # Absent => media[place[p][e]] = e
          /\ keepsOpen[p] = Held(p)
      BY <2>1 DEF StayInv, Surveyed
    <3>4. \A e \in Disk : place'[p][e] # Absent => media'[place'[p][e]] = e
      BY <2>1, <2>4, <3>1, <3>3
    <3>5. Held(p)' = Held(p) \cup {s}
      BY <2>4, <3>1 DEF Held
    <3>6. \A r \in Process : r # p => Held(r)' = Held(r)
      BY <3>2 DEF Held
    <3>7. ASSUME NEW c \in child'[p] \ {"hook"}
          PROVE  media'[c] \in Disk
      BY <2>1, <3>7 DEF StayInv
    <3>8. ASSUME NEW r \in Process, r # p
          PROVE  /\ Surveyed(r)' =>
                      /\ \A e \in Disk : place'[r][e] # Absent => media'[place'[r][e]] = e
                      /\ keepsOpen'[r] = Held(r)'
                 /\ \A c \in child'[r] \ {"hook"} : media'[c] \in Disk
                 /\ stage'[r] \in {"idle", "lock"} => place'[r] = Nowhere /\ keepsOpen'[r] = {}
      BY <2>1, <3>2, <3>6, <3>8 DEF StayInv, Surveyed
    <3>9. keepsOpen'[p] = Held(p)'
      BY <3>1, <3>3, <3>5
    <3> QED
      BY <3>1, <3>4, <3>7, <3>8, <3>9 DEF StayInv
  <2>5. Paths[survey[p].next] \in Path
    <3>1. survey[p].next <= Len(Paths) /\ survey[p] \in SurveyType
      BY <2>1 DEF RunTypeOK, SurveyType
    <3> QED
      BY <3>1, PathsAre DEF SurveyType
  <2> QED
    BY <1>7, <2>2, <2>3, <2>4, <2>5 DEF ReadDeviceId, UnavailableStore, BadStore, FatalStoreError, NextStore
<1>8. ASSUME NEW p \in Process, SurveyEnds(p)
      PROVE  StayInv'
  <2>1. /\ stage[p] = "survey" /\ stage' = [stage EXCEPT ![p] = "work"]
        /\ UNCHANGED media /\ UNCHANGED place /\ UNCHANGED keepsOpen /\ UNCHANGED child
    BY <1>8 DEF SurveyEnds, Goto
  <2>2. Surveyed(p)
    BY <2>1 DEF Surveyed
  <2>3. \A r \in Process : child'[r] \ {"hook"} \subseteq child[r]
    BY <2>1
  <2> QED
    BY <2>1, <2>2, <2>3, StayWithin
<1>9. ASSUME NEW p \in Process, NEW d \in Disk, StartProgram(p, d)
      PROVE  StayInv'
  <2>1. /\ stage[p] = "work" /\ UNCHANGED <<media, stage, keepsOpen, place>>
        /\ place[p][d] \in known[p].enabled
        /\ child' = [child EXCEPT ![p] = child[p] \cup {place[p][d]}]
    BY <1>9 DEF StartProgram, memory, data
  <2>2. place[p][d] # Absent
    BY <2>1, RunAssumption DEF RunTypeOK
  <2>3. media[place[p][d]] \in Disk
    BY <2>1, <2>2 DEF StayInv, Surveyed
  <2>4. \A r \in Process : \A s \in child'[r] : s \in child[r] \/ media[s] \in Disk
    BY <2>1, <2>3 DEF RunTypeOK
  <2> QED
    BY <2>1, <2>4, StayUntouched DEF Surveyed
<1>10. ASSUME NEW p \in Process, NEW s \in Path \cup {"hook"}, ProgramEnds(p, s)
       PROVE  StayInv'
  <2>1. /\ UNCHANGED <<media, stage, keepsOpen, place>>
        /\ child' = [child EXCEPT ![p] = child[p] \ {s}]
    BY <1>10 DEF ProgramEnds, memory, data
  <2>2. \A r \in Process : child'[r] \subseteq child[r]
    BY <2>1, ChildrenGone
  <2> QED
    BY <2>1, <2>2, StayUntouched DEF Surveyed
<1>11. ASSUME NEW p \in Process, NEW b \in BOOLEAN, CommandDone(p, b)
       PROVE  StayInv'
  BY <1>11, StayUntouched DEF CommandDone, Surveyed
<1>12. ASSUME NEW p \in Process, CloseDevices(p)
       PROVE  StayInv'
  <2>1. /\ stage[p] = "work" /\ UNCHANGED <<media, place>>
        /\ \E next \in {"post", "report"} : stage' = [stage EXCEPT ![p] = next]
        /\ keepsOpen' = keepsOpen \/ keepsOpen' = [keepsOpen EXCEPT ![p] = {}]
        /\ child' = child \/ child' = [child EXCEPT ![p] = child[p] \cup {"hook"}]
    BY <1>12 DEF CloseDevices, Goto
  <2>2. \A r \in Process : stage'[r] \notin {"post", "report"} =>
          stage'[r] = stage[r] /\ keepsOpen'[r] = keepsOpen[r]
    BY <2>1 DEF RunTypeOK
  <2>3. \A r \in Process : child'[r] \ {"hook"} \subseteq child[r]
    <3>1. CASE child' = child
      BY <3>1
    <3> QED
      BY <2>1, <3>1, HookStarted
  <2> QED
    BY <2>1, <2>2, <2>3, StayUntouched DEF Surveyed
<1>13. ASSUME NEW p \in Process, NEW b \in BOOLEAN, Exit(p, b) \/ Killed(p)
       PROVE  StayInv'
  <2>1. UNCHANGED <<media, child>> /\ \E failed : End(p, failed, child[p])
    BY <1>13 DEF Exit, Killed
  <2> QED
    BY <2>1, StayAtEnd
<1>14. ASSUME NEW s \in Path, Unmount(s) \/ \E l \in site.labels : Mount(s, l)
       PROVE  StayInv'
  <2>1. /\ UNCHANGED <<stage, place, keepsOpen, child>>
        /\ \E l : media' = [media EXCEPT ![s] = l]
        /\ media[s] = Absent \/ ~Busy(s)
    BY <1>14 DEF Unmount, Mount, memory, data
  <2>2. ASSUME NEW p \in Process, Surveyed(p), NEW d \in Disk, place[p][d] # Absent
        PROVE  media'[place[p][d]] = d
    <3>1. media[place[p][d]] = d /\ place[p][d] \in Held(p) /\ keepsOpen[p] = Held(p)
      BY <2>2 DEF StayInv, Held
    <3>2. d # Absent
      BY RunAssumption DEF Label
    <3>3. place[p][d] # s
      BY <2>1, <3>1, <3>2 DEF Busy
    <3> QED
      BY <2>1, <3>1, <3>3
  <2>3. ASSUME NEW p \in Process, NEW c \in child[p] \ {"hook"}
        PROVE  media'[c] \in Disk
    <3>1. media[c] \in Disk
      BY <2>3 DEF StayInv
    <3>2. Absent \notin Disk
      BY RunAssumption DEF Label
    <3>3. c # s
      BY <2>1, <2>3, <3>1, <3>2 DEF Busy
    <3> QED
      BY <2>1, <3>1, <3>3
  <2>4. \A p \in Process : Held(p)' = Held(p) /\ Surveyed(p)' = Surveyed(p)
    BY <2>1 DEF Held, Surveyed
  <2> QED
    BY <2>1, <2>2, <2>3, <2>4 DEF StayInv
<1> QED
  <2>1. CASE RunNext
    <3>1. CASE \E p \in Process, b \in BOOLEAN : Exit(p, b) \/ Killed(p)
      BY <3>1, <1>13
    <3>2. CASE \E s \in Path : Unmount(s) \/ \E l \in site.labels : Mount(s, l)
      BY <3>2, <1>14
    <3> QED
      BY <2>1, <3>1, <3>2, <1>2, <1>3, <1>4, <1>5, <1>6, <1>7, <1>8, <1>9, <1>10,
         <1>11, <1>12, RunSteps
  <2> QED
    BY <1>1, <2>1

(* A device that a run has identified stays where it is until the files of its  *)
(* stores are closed, and no program loses the disk that it works on.           *)
THEOREM Staying == RunSpec => []DevicesStay
<1>1. StayInv => DevicesStay
  BY DEF StayInv, DevicesStay, Held
<1> QED
  BY <1>1, TypeInit, TypeNext, StayInit, StayNext, PTL DEF RunSpec

-----------------------------------------------------------------------------
(* What a run has left behind at each stage. It comes to the end of its        *)
(* commands, and so to the hook and the report, only when its programs are gone; *)
(* the hook is a program of the stages that wait for it, and of no other.        *)
Settled(p) ==
  /\ stage[p] \in {"idle", "lock"} => child[p] = {} /\ ~devicesReady[p]
  /\ stage[p] = "idle" => todo[p] = <<>>
  /\ "hook" \in child[p] => stage[p] \in {"hook", "post", "ended"}
  /\ stage[p] = "work" /\ todo[p] = <<>> => child[p] = {}
  /\ stage[p] \in {"survey", "hook", "read"} => todo[p] # <<>>
  /\ stage[p] = "post" => todo[p] = <<>> /\ keepsOpen[p] = {} /\ child[p] = {"hook"}
  /\ stage[p] = "report" => todo[p] = <<>> /\ child[p] = {} /\ ~devicesReady[p]
  /\ stage[p] = "ended" /\ ~errors[p] =>
       /\ ~devicesReady[p] /\ child[p] = {}
       /\ request[p].wait => todo[p] = <<>>

TidyInv ==
  /\ todo = [p \in Process |-> todo[p]]
  /\ \A p \in Process : Settled(p)

LEMMA TidyInit == RunInit => TidyInv
BY DEF RunInit, TidyInv, Settled

(* A step of one run is none of another.                                      *)
LEMMA TidyStep ==
  ASSUME TidyInv, NEW p \in Process,
         \A r \in Process \ {p} :
           /\ stage'[r] = stage[r] /\ todo'[r] = todo[r] /\ child'[r] = child[r]
           /\ keepsOpen'[r] = keepsOpen[r] /\ devicesReady'[r] = devicesReady[r]
           /\ errors'[r] = errors[r] /\ request'[r] = request[r],
         todo' = [r \in Process |-> todo'[r]],
         Settled(p)'
  PROVE  TidyInv'
BY DEF TidyInv, Settled

(* The end of a run is well only where nothing is left to do.                  *)
LEMMA TidyAtEnd ==
  ASSUME RunTypeOK, TidyInv, NEW p \in Process, NEW failed \in BOOLEAN, NEW children,
         End(p, failed, children), UNCHANGED <<todo, devicesReady>>,
         \A r \in Process \ {p} : child'[r] = child[r] /\ request'[r] = request[r],
         \/ failed
         \/ /\ ~devicesReady[p] /\ child'[p] = {}
            /\ request'[p].wait => todo[p] = <<>>
  PROVE  TidyInv'
<1>1. /\ stage' = [stage EXCEPT ![p] = "ended"]
      /\ errors' = [errors EXCEPT ![p] = failed]
      /\ keepsOpen' = [keepsOpen EXCEPT ![p] = {}]
  BY DEF End
<1>2. stage'[p] = "ended" /\ errors'[p] = failed
  BY <1>1 DEF RunTypeOK
<1>3. Settled(p)'
  BY <1>2 DEF Settled
<1>4. \A r \in Process \ {p} :
        /\ stage'[r] = stage[r] /\ errors'[r] = errors[r] /\ keepsOpen'[r] = keepsOpen[r]
  BY <1>1 DEF RunTypeOK
<1> QED
  BY <1>3, <1>4, TidyStep DEF TidyInv

LEMMA TidyNext == RunTypeOK /\ TidyInv /\ [RunNext]_program => TidyInv'
<1> SUFFICES ASSUME RunTypeOK, TidyInv, [RunNext]_program
             PROVE  TidyInv'
  OBVIOUS
<1>t. todo = [r \in Process |-> todo[r]]
  BY DEF TidyInv
<1>s. \A r \in Process : Settled(r)
  BY DEF TidyInv
<1>1. CASE UNCHANGED program
  BY <1>1 DEF program, TidyInv, Settled
<1>2. ASSUME NEW p \in Process, NEW q \in Request, Begin(p, q)
      PROVE  TidyInv'
  <2>1. /\ stage[p] = "idle" /\ UNCHANGED <<devicesReady, child>>
        /\ request' = [request EXCEPT ![p] = q]
        /\ todo[p] = <<>> /\ child[p] = {} /\ ~devicesReady[p]
    BY <1>2, <1>s DEF Begin, Settled
  <2>2. \A r \in Process \ {p} : request'[r] = request[r]
    BY <2>1 DEF RunTypeOK
  <2>3. CASE \E failed \in BOOLEAN : End(p, failed, child[p]) /\ UNCHANGED todo
    BY <2>1, <2>2, <2>3, TidyAtEnd
  <2>4. CASE /\ Goto(p, "lock")
             /\ todo' = [todo EXCEPT ![p] = Tasks(q)]
             /\ UNCHANGED <<errors, keepsOpen, survey, place>>
    <3>1. /\ stage'[p] = "lock"
          /\ \A r \in Process \ {p} : stage'[r] = stage[r]
      BY <2>4 DEF Goto, RunTypeOK
    <3>2. \A r \in Process \ {p} : todo'[r] = todo[r]
      BY <2>4, <1>t
    <3>3. todo' = [r \in Process |-> todo'[r]]
      BY <2>4, <1>t
    <3>4. Settled(p)'
      BY <2>1, <3>1 DEF Settled
    <3> QED
      BY <2>1, <2>2, <2>4, <3>1, <3>2, <3>3, <3>4, TidyStep
  <2>5. (CommandError(q) \/ ~site.readable) \in BOOLEAN
    BY DEF CommandError, Incompatible, BadSelections
  <2> QED
    BY <1>2, <2>3, <2>4, <2>5 DEF Begin
<1>3. ASSUME NEW p \in Process, TakeLock(p)
      PROVE  TidyInv'
  <2>1. /\ stage[p] = "lock" /\ UNCHANGED <<request, child, todo, devicesReady>>
        /\ child[p] = {} /\ ~devicesReady[p]
    BY <1>3, <1>s DEF TakeLock, Settled
  <2>2. CASE ~request[p].wait /\ End(p, FALSE, child[p])
    BY <2>1, <2>2, TidyAtEnd
  <2>3. CASE stage' = [stage EXCEPT ![p] = "work"] /\ UNCHANGED <<errors, keepsOpen>>
    <3>1. stage'[p] = "work" /\ \A r \in Process \ {p} : stage'[r] = stage[r]
      BY <2>3 DEF RunTypeOK
    <3>2. Settled(p)'
      BY <2>1, <3>1 DEF Settled
    <3> QED
      BY <1>t, <2>1, <2>3, <3>1, <3>2, TidyStep
  <2> QED
    BY <1>3, <2>2, <2>3 DEF TakeLock
<1>4. ASSUME NEW p \in Process, NEW m \in {"enabled", "disabled"}, StartSurvey(p, m)
      PROVE  TidyInv'
  <2>1. /\ stage[p] = "work" /\ todo[p] # <<>>
        /\ stage' = [stage EXCEPT ![p] = "survey"]
        /\ UNCHANGED <<request, todo, keepsOpen, devicesReady, errors, child>>
    BY <1>4 DEF StartSurvey, Goto
  <2>2. stage'[p] = "survey" /\ \A r \in Process \ {p} : stage'[r] = stage[r]
    BY <2>1 DEF RunTypeOK
  <2>3. Settled(p)'
    BY <1>s, <2>1, <2>2 DEF Settled
  <2> QED
    BY <1>t, <2>1, <2>2, <2>3, TidyStep
<1>5. ASSUME NEW p \in Process, ExamineStore(p)
      PROVE  TidyInv'
  <2>1. /\ stage[p] = "survey" /\ todo[p] # <<>> /\ "hook" \notin child[p]
        /\ UNCHANGED <<request, todo, keepsOpen>>
    BY <1>5, <1>s DEF ExamineStore, Settled, UnavailableStore, BadStore
  <2>2. /\ \/ /\ stage' = [stage EXCEPT ![p] = "hook"]
              /\ child' = [child EXCEPT ![p] = child[p] \cup {"hook"}]
           \/ /\ stage' = [stage EXCEPT ![p] = "read"] \/ stage' = [stage EXCEPT ![p] = "survey"]
              /\ child' = child
        /\ devicesReady' = devicesReady \/ devicesReady' = [devicesReady EXCEPT ![p] = TRUE]
        /\ errors' = errors \/ \E e : errors' = [errors EXCEPT ![p] = e]
    BY <1>5 DEF ExamineStore, UnavailableStore, BadStore, NextStore
  <2>3. /\ stage'[p] = "hook" \/ (stage'[p] \in {"read", "survey"} /\ child'[p] = child[p])
        /\ \A r \in Process \ {p} :
             /\ stage'[r] = stage[r] /\ child'[r] = child[r]
             /\ devicesReady'[r] = devicesReady[r] /\ errors'[r] = errors[r]
    BY <2>2 DEF RunTypeOK
  <2>4. Settled(p)'
    BY <2>1, <2>3 DEF Settled
  <2> QED
    BY <1>t, <2>1, <2>3, <2>4, TidyStep
<1>6. ASSUME NEW p \in Process, PreHookEnds(p) \/ PostHookEnds(p)
      PROVE  TidyInv'
  <2>1. /\ UNCHANGED <<request, todo>>
        /\ child'[p] = child[p] \ {"hook"}
        /\ \A r \in Process \ {p} : child'[r] = child[r]
    BY <1>6 DEF PreHookEnds, PostHookEnds, RunTypeOK
  <2>2. CASE End(p, TRUE, child[p] \ {"hook"}) /\ UNCHANGED devicesReady
    BY <2>1, <2>2, TidyAtEnd
  <2>3. ASSUME NEW next, NEW ready \in BOOLEAN, stage' = [stage EXCEPT ![p] = next],
               devicesReady' = [devicesReady EXCEPT ![p] = ready],
               UNCHANGED <<errors, keepsOpen>>,
               \/ stage[p] = "hook" /\ next = "read"
               \/ stage[p] = "post" /\ next = "report" /\ ready = FALSE
        PROVE  TidyInv'
    <3>1. /\ stage'[p] = next /\ devicesReady'[p] = ready
          /\ \A r \in Process \ {p} :
               stage'[r] = stage[r] /\ devicesReady'[r] = devicesReady[r]
      BY <2>3 DEF RunTypeOK
    <3>2. Settled(p)'
      BY <1>s, <2>1, <2>3, <3>1 DEF Settled
    <3> QED
      BY <1>t, <2>1, <2>3, <3>1, <3>2, TidyStep
  <2> QED
    BY <1>6, <2>2, <2>3 DEF PreHookEnds, PostHookEnds, Goto
<1>7. ASSUME NEW p \in Process, ReadDeviceId(p)
      PROVE  TidyInv'
  <2>1. /\ stage[p] = "read" /\ todo[p] # <<>> /\ "hook" \notin child[p]
        /\ UNCHANGED <<request, todo, child, devicesReady>>
    BY <1>7, <1>s DEF ReadDeviceId, Settled
  <2>2. CASE End(p, TRUE, child[p])
    BY <2>1, <2>2, TidyAtEnd
  <2>3. CASE /\ stage' = [stage EXCEPT ![p] = "survey"]
             /\ keepsOpen' = keepsOpen \/ \E s : keepsOpen' = [keepsOpen EXCEPT ![p] = s]
             /\ errors' = errors \/ \E e : errors' = [errors EXCEPT ![p] = e]
    <3>1. /\ stage'[p] = "survey"
          /\ \A r \in Process \ {p} :
               stage'[r] = stage[r] /\ keepsOpen'[r] = keepsOpen[r] /\ errors'[r] = errors[r]
      BY <2>3 DEF RunTypeOK
    <3>2. Settled(p)'
      BY <2>1, <3>1 DEF Settled
    <3> QED
      BY <1>t, <2>1, <3>1, <3>2, TidyStep
  <2> QED
    BY <1>7, <2>2, <2>3 DEF ReadDeviceId, UnavailableStore, BadStore, FatalStoreError, NextStore
<1>8. ASSUME NEW p \in Process, SurveyEnds(p)
      PROVE  TidyInv'
  <2>1. /\ stage[p] = "survey" /\ todo[p] # <<>> /\ "hook" \notin child[p]
        /\ stage' = [stage EXCEPT ![p] = "work"]
        /\ UNCHANGED <<request, todo, keepsOpen, devicesReady, child>>
        /\ \E e : errors' = [errors EXCEPT ![p] = e]
    BY <1>8, <1>s DEF SurveyEnds, Goto, Settled
  <2>2. /\ stage'[p] = "work"
        /\ \A r \in Process \ {p} : stage'[r] = stage[r] /\ errors'[r] = errors[r]
    BY <2>1 DEF RunTypeOK
  <2>3. Settled(p)'
    BY <2>1, <2>2 DEF Settled
  <2> QED
    BY <1>t, <2>1, <2>2, <2>3, TidyStep
<1>9. ASSUME NEW p \in Process, NEW d \in Disk, StartProgram(p, d)
      PROVE  TidyInv'
  <2>1. /\ stage[p] = "work" /\ todo[p] # <<>> /\ place[p][d] \in known[p].enabled
        /\ child' = [child EXCEPT ![p] = child[p] \cup {place[p][d]}]
        /\ UNCHANGED <<stage, request, todo, devicesReady, keepsOpen, errors>>
    BY <1>9 DEF StartProgram, memory
  <2>2. place[p][d] # "hook"
    BY <2>1, RunAssumption DEF RunTypeOK
  <2>3. /\ child'[p] = child[p] \cup {place[p][d]}
        /\ \A r \in Process \ {p} : child'[r] = child[r]
    BY <2>1 DEF RunTypeOK
  <2>4. Settled(p)'
    BY <1>s, <2>1, <2>2, <2>3 DEF Settled
  <2> QED
    BY <1>t, <2>1, <2>3, <2>4, TidyStep
<1>10. ASSUME NEW p \in Process, NEW s \in Path \cup {"hook"}, ProgramEnds(p, s)
       PROVE  TidyInv'
  <2>1. /\ s \in child[p] /\ (s = "hook" => stage[p] = "ended")
        /\ child' = [child EXCEPT ![p] = child[p] \ {s}]
        /\ UNCHANGED <<stage, request, todo, devicesReady, keepsOpen, errors>>
    BY <1>10 DEF ProgramEnds, memory
  <2>2. /\ child'[p] = child[p] \ {s}
        /\ \A r \in Process \ {p} : child'[r] = child[r]
    BY <2>1 DEF RunTypeOK
  <2>3. stage[p] # "post"
    BY <1>s, <2>1 DEF Settled
  <2>4. Settled(p)'
    BY <1>s, <2>1, <2>2, <2>3 DEF Settled
  <2> QED
    BY <1>t, <2>1, <2>2, <2>4, TidyStep
<1>11. ASSUME NEW p \in Process, NEW b \in BOOLEAN, CommandDone(p, b)
       PROVE  TidyInv'
  <2>1. /\ stage[p] = "work" /\ child[p] = {}
        /\ todo' = [todo EXCEPT ![p] = Tail(todo[p])]
        /\ \E e : errors' = [errors EXCEPT ![p] = e]
        /\ UNCHANGED <<stage, request, devicesReady, keepsOpen, child>>
    BY <1>11 DEF CommandDone
  <2>2. /\ todo' = [r \in Process |-> todo'[r]]
        /\ \A r \in Process \ {p} : todo'[r] = todo[r] /\ errors'[r] = errors[r]
    BY <1>t, <2>1 DEF RunTypeOK
  <2>3. Settled(p)'
    BY <2>1 DEF Settled
  <2> QED
    BY <2>1, <2>2, <2>3, TidyStep
<1>12. ASSUME NEW p \in Process, CloseDevices(p)
       PROVE  TidyInv'
  <2>1. /\ stage[p] = "work" /\ todo[p] = <<>> /\ child[p] = {}
        /\ UNCHANGED <<request, todo, errors>>
    BY <1>12, <1>s DEF CloseDevices, Settled
  <2>2. CASE devicesReady[p] /\ site.hooks
    <3>1. /\ stage'[p] = "post" /\ keepsOpen'[p] = {} /\ child'[p] = {"hook"}
          /\ \A r \in Process \ {p} :
               /\ stage'[r] = stage[r] /\ keepsOpen'[r] = keepsOpen[r]
               /\ child'[r] = child[r] /\ devicesReady'[r] = devicesReady[r]
      BY <1>12, <2>1, <2>2 DEF CloseDevices, Goto, RunTypeOK
    <3>2. Settled(p)'
      BY <2>1, <3>1 DEF Settled
    <3> QED
      BY <1>t, <2>1, <3>1, <3>2, TidyStep
  <2>3. CASE ~(devicesReady[p] /\ site.hooks)
    <3>1. /\ stage'[p] = "report" /\ child'[p] = {} /\ ~devicesReady'[p]
          /\ \A r \in Process \ {p} :
               /\ stage'[r] = stage[r] /\ keepsOpen'[r] = keepsOpen[r]
               /\ child'[r] = child[r] /\ devicesReady'[r] = devicesReady[r]
      BY <1>12, <2>1, <2>3 DEF CloseDevices, Goto, RunTypeOK
    <3>2. Settled(p)'
      BY <2>1, <3>1 DEF Settled
    <3> QED
      BY <1>t, <2>1, <3>1, <3>2, TidyStep
  <2> QED
    BY <2>2, <2>3
<1>13. ASSUME NEW p \in Process, NEW b \in BOOLEAN, Exit(p, b)
       PROVE  TidyInv'
  <2>1. /\ stage[p] = "report" /\ End(p, errors[p] \/ b, child[p])
        /\ UNCHANGED <<request, child, todo, devicesReady>>
        /\ child[p] = {} /\ ~devicesReady[p] /\ todo[p] = <<>>
    BY <1>13, <1>s DEF Exit, Settled
  <2>2. (errors[p] \/ b) \in BOOLEAN
    OBVIOUS
  <2> QED
    BY <2>1, <2>2, TidyAtEnd
<1>14. ASSUME NEW p \in Process, Killed(p)
       PROVE  TidyInv'
  BY <1>14, TidyAtEnd DEF Killed
<1>15. ASSUME NEW s \in Path, NEW l, Unmount(s) \/ Mount(s, l)
       PROVE  TidyInv'
  BY <1>15 DEF Unmount, Mount, memory, TidyInv, Settled
<1> QED
  <2>1. CASE RunNext
    <3>1. CASE \E s \in Path : Unmount(s) \/ \E l \in site.labels : Mount(s, l)
      BY <3>1, <1>15
    <3> QED
      BY <2>1, <3>1, <1>2, <1>3, <1>4, <1>5, <1>6, <1>7, <1>8, <1>9, <1>10, <1>11,
         <1>12, <1>13, <1>14, RunSteps
  <2> QED
    BY <1>1, <2>1

(* The post-device-hook never runs while a file of the run is open on a device;  *)
(* and a run that ends well has run it if it touched devices, has left no        *)
(* program behind, and has carried out all its commands if it was told to wait.  *)
THEOREM Tidiness == RunSpec => []TidyEnd
<1>1. TidyInv => TidyEnd
  BY DEF TidyInv, Settled, TidyEnd
<1> QED
  BY <1>1, TypeInit, TypeNext, TidyInit, TidyNext, PTL DEF RunSpec
=============================================================================

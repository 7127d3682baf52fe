---------------------------- MODULE PrunePolicies ----------------------------
(***************************************************************************)
(* Which complete backups of a volume a run of --prune condemns: the         *)
(* policies age, decay, exec and never (src/src/PrunePolicy*.cc), as          *)
(* findObsoleteBackups() (Prune.cc) applies them to one device after the      *)
(* other; and the backups that the backup policies (BackupPolicy*.cc) let     *)
(* in. Day after day, since what a policy keeps is what it starts from on     *)
(* the next day. Every look at the clock is a step, as midnight may pass      *)
(* between two of them.                                                     *)
(***************************************************************************)
EXTENDS Integers, FiniteSets

CONSTANTS
  Device,         \* the devices
  Configuration,  \* the configurations of the volume
  PerDay,         \* the moments of a day at which something happens
  MaxTime,        \* bound: the last moment
  MaxMidnights    \* bound: the midnights that pass in the middle of runs

(* Intervals in days, min-interval in moments. The scale is a whole number,   *)
(* where the code has a floating point number.                              *)
Configurable ==
  [devices      : SUBSET Device,
   policy       : {"age", "decay", "exec", "never"},
   backupPolicy : {"always", "daily", "interval"},
   minInterval  : Nat \ {0},
   pruneAge     : Nat \ {0},
   minBackups   : Nat \ {0},
   decayStart   : Nat \ {0},
   decayWindow  : Nat \ {0},
   decayScale   : Nat \ {0, 1},
   decayLimit   : Nat \ {0}]

ASSUME PolicyAssumption ==
  /\ IsFiniteSet(Device)
  /\ Configuration \subseteq Configurable
  /\ PerDay \in Nat \ {0}
  /\ MaxTime \in Nat /\ MaxMidnights \in Nat

VARIABLES
  conf,      \* the configuration, read once
  now,       \* Date::now()
  complete,  \* Volume::backups with the status COMPLETE, by device
  pc,        \* where findObsoleteBackups() is
  rest,      \* the devices it has still to look at
  device,    \* the one it is looking at
  queue,     \* the backups that the loop of the policy has still to look at
  left,      \* conf.pruneAge: left
  oldest,    \* PruneDecay: oldest, from buckets to backups
  prune,     \* the backups condemned, by device
  made,      \* history: every backup that was ever complete
  since,     \* history: the day on which the run began
  midnights, \* history: the midnights that have passed in the middle of runs
  daily      \* history: whether every day saw a whole run, up to this one

history == <<made, since, midnights, daily>>

vars == <<conf, now, complete, pc, rest, device, queue, left, oldest, prune,
          history>>

Time == 0 .. MaxTime

Day(t) == t \div PerDay

(* Date::today() - Date(backup->time)                                       *)
Age(b) == Day(now) - Day(b)

TypeOK ==
  /\ conf \in Configuration
  /\ now \in Time
  /\ complete \in [Device -> SUBSET Time]
  /\ pc \in {"idle", "devices", "age", "sort", "judge", "exec", "aborted"}
  /\ rest \subseteq Device
  /\ device \in Device
  /\ queue \subseteq Time
  /\ left \in Nat
  /\ DOMAIN oldest \subseteq Nat /\ \A n \in DOMAIN oldest : oldest[n] \in Time
  /\ prune \in [Device -> SUBSET Time]
  /\ made \in [Device -> SUBSET Time]
  /\ since \in Nat
  /\ midnights \in 0 .. MaxMidnights
  /\ daily \in {"due", "seen", "lapsed"}

None == [d \in Device |-> {}]

NoBucket == [n \in {} |-> 0]

(* The variables of the policy and of the run go with them.                   *)
Leave ==
  /\ queue' = {}
  /\ left' = 0
  /\ oldest' = NoBucket

Init ==
  /\ conf \in Configuration
  /\ now = 0
  /\ complete = None
  /\ pc = "idle"
  /\ rest = {}
  /\ device \in Device
  /\ queue = {}
  /\ left = 0
  /\ oldest = NoBucket
  /\ prune = None
  /\ made = None
  /\ since = 0
  /\ midnights = 0
  /\ daily = "due"

-----------------------------------------------------------------------------
(* prune_decay_bucket(): the logarithm of what the age is in windows, rounded *)
(* up, less one; which is the number of the powers of the scale that are less. *)
(* It is exact here, where the code divides two logarithms.                 *)
Power(s) ==
  LET power[n \in Nat] == IF n = 0 THEN 1 ELSE s * power[n - 1]
  IN  power

(* Faulty: the end of a window is not part of it.                            *)
BeyondStrictly(n, a) ==
  conf.decayWindow * (Power(conf.decayScale)[n] - 1) > (conf.decayScale - 1) * a

Beyond(n, a) ==
  conf.decayWindow * (Power(conf.decayScale)[n] - 1) >= (conf.decayScale - 1) * a

Bucket(a) == Cardinality({n \in 1 .. a : ~ Beyond(n, a)})

(* BackupPolicy::backup(): always, at most once a day, or at an interval.     *)
Due(d) ==
  \/ conf.backupPolicy = "always"
  \/ conf.backupPolicy = "daily" /\ \A b \in complete[d] : Day(b) # Day(now)
  \/ conf.backupPolicy = "interval" /\ \A b \in complete[d] : now - b >= conf.minInterval

Complete(d) ==
  /\ pc = "idle"
  /\ d \in conf.devices /\ Due(d)
  /\ complete' = [complete EXCEPT ![d] = @ \cup {now}]
  /\ made' = [made EXCEPT ![d] = @ \cup {now}]
  /\ UNCHANGED <<conf, now, pc, rest, device, queue, left, oldest, prune, since,
                 midnights, daily>>

Tick ==
  /\ now < MaxTime
  /\ now' = now + 1
  /\ IF pc # "idle" /\ Day(now + 1) # Day(now)
       THEN midnights < MaxMidnights /\ midnights' = midnights + 1
       ELSE UNCHANGED midnights
  /\ daily' = IF Day(now + 1) = Day(now) THEN daily
              ELSE IF pc = "idle" /\ daily = "seen" THEN "due" ELSE "lapsed"
  /\ UNCHANGED <<conf, complete, pc, rest, device, queue, left, oldest, prune, made,
                 since>>

-----------------------------------------------------------------------------
Find ==
  /\ pc = "idle"
  /\ pc' = "devices"
  /\ rest' = {d \in Device : complete[d] # {}}
  /\ since' = Day(now)
  /\ UNCHANGED <<conf, now, complete, device, queue, left, oldest, prune, made,
                 midnights, daily>>

(* Faulty: the backups left are those of all devices.                        *)
ExamineCountingAll(d) ==
  /\ pc = "devices"
  /\ d \in rest
  /\ rest' = rest \ {d}
  /\ device' = d
  /\ queue' = complete[d]
  /\ left' = Cardinality(UNION {{e} \X complete[e] : e \in Device})
  /\ oldest' = NoBucket
  /\ pc' = "age"
  /\ UNCHANGED <<conf, now, complete, prune, history>>

(* The policy never, and decay with a single backup, return at once.         *)
Untouched(d) ==
  \/ conf.policy = "never"
  \/ conf.policy = "decay" /\ Cardinality(complete[d]) = 1

FirstLoop == [age |-> "age", decay |-> "sort", exec |-> "exec"]

(* backupPrunable(): what the policy does before its first loop. The devices  *)
(* come in any order, where the code has that of their names.                *)
Examine(d) ==
  /\ pc = "devices"
  /\ d \in rest
  /\ rest' = rest \ {d}
  /\ device' = d
  /\ IF Untouched(d)
       THEN pc' = "devices" /\ Leave
       ELSE /\ pc' = FirstLoop[conf.policy]
            /\ queue' = complete[d]
            /\ left' = Cardinality(complete[d])
            /\ oldest' = NoBucket
  /\ UNCHANGED <<conf, now, complete, prune, history>>

(* The loops look at the backups in the order of Volume::backups.            *)
Following(b) == b \in queue /\ \A c \in queue : b <= c

Condemn(b) == prune' = [prune EXCEPT ![device] = @ \cup {b}]

(* The end of the loop of the policy.                                       *)
Examined ==
  /\ pc \in {"age", "judge"}
  /\ queue = {}
  /\ pc' = "devices"
  /\ Leave
  /\ UNCHANGED <<conf, now, complete, rest, device, prune, history>>

(* Faulty: a backup of exactly prune-age is old enough.                      *)
JudgeByAgeEarly(b) ==
  /\ pc = "age"
  /\ Following(b)
  /\ queue' = queue \ {b}
  /\ IF Age(b) < conf.pruneAge \/ left <= conf.minBackups
       THEN UNCHANGED <<prune, left>>
       ELSE Condemn(b) /\ left' = left - 1
  /\ UNCHANGED <<conf, now, complete, pc, rest, device, oldest, history>>

(* Faulty: one more than min-backups stays.                                  *)
JudgeByAgeUncounted(b) ==
  /\ pc = "age"
  /\ Following(b)
  /\ queue' = queue \ {b}
  /\ IF Age(b) <= conf.pruneAge \/ left <= conf.minBackups + 1
       THEN UNCHANGED <<prune, left>>
       ELSE Condemn(b) /\ left' = left - 1
  /\ UNCHANGED <<conf, now, complete, pc, rest, device, oldest, history>>

JudgeByAge(b) ==
  /\ pc = "age"
  /\ Following(b)
  /\ queue' = queue \ {b}
  /\ IF Age(b) <= conf.pruneAge \/ left <= conf.minBackups
       THEN UNCHANGED <<prune, left>>
       ELSE Condemn(b) /\ left' = left - 1
  /\ UNCHANGED <<conf, now, complete, pc, rest, device, oldest, history>>

-----------------------------------------------------------------------------
(* The decay policy: too young, too old, or in a bucket.                     *)
Young(b) == Age(b) <= conf.decayStart

TooOld(b) == ~ Young(b) /\ Age(b) > conf.decayLimit

BucketOf(b) == Bucket(Age(b) - conf.decayStart)

Put(n, b) ==
  oldest' = [m \in DOMAIN oldest \cup {n} |-> IF m = n THEN b ELSE oldest[m]]

(* Faulty: the youngest of a bucket is put there.                            *)
SortYoungest(b) ==
  /\ pc = "sort"
  /\ Following(b)
  /\ queue' = queue \ {b}
  /\ \/ Young(b) /\ UNCHANGED <<prune, oldest>>
     \/ TooOld(b) /\ Condemn(b) /\ UNCHANGED oldest
     \/ /\ ~ Young(b) /\ ~ TooOld(b)
        /\ Put(BucketOf(b), b)
        /\ UNCHANGED prune
  /\ UNCHANGED <<conf, now, complete, pc, rest, device, left, history>>

Sort(b) ==
  /\ pc = "sort"
  /\ Following(b)
  /\ queue' = queue \ {b}
  /\ \/ Young(b) /\ UNCHANGED <<prune, oldest>>
     \/ TooOld(b) /\ Condemn(b) /\ UNCHANGED oldest
     \/ /\ ~ Young(b) /\ ~ TooOld(b)
        /\ IF BucketOf(b) \in DOMAIN oldest /\ b >= oldest[BucketOf(b)]
             THEN UNCHANGED oldest
             ELSE Put(BucketOf(b), b)
        /\ UNCHANGED prune
  /\ UNCHANGED <<conf, now, complete, pc, rest, device, left, history>>

Sorted ==
  /\ pc = "sort"
  /\ queue = {}
  /\ pc' = "judge"
  /\ queue' = complete[device]
  /\ UNCHANGED <<conf, now, complete, rest, device, left, oldest, prune, history>>

(* Faulty: the second loop does not leave out what is too old.               *)
JudgeTooOld(b) ==
  /\ pc = "judge"
  /\ Following(b)
  /\ queue' = queue \ {b}
  /\ \/ Young(b) /\ UNCHANGED <<pc, prune>>
     \/ /\ ~ Young(b)
        /\ BucketOf(b) \notin DOMAIN oldest
        /\ pc' = "aborted"
        /\ UNCHANGED prune
     \/ /\ ~ Young(b)
        /\ BucketOf(b) \in DOMAIN oldest
        /\ IF b # oldest[BucketOf(b)] THEN Condemn(b) ELSE UNCHANGED prune
        /\ UNCHANGED pc
  /\ UNCHANGED <<conf, now, complete, rest, device, left, oldest, history>>

(* The second loop looks at the clock again. The assertion ends the program. *)
Judge(b) ==
  /\ pc = "judge"
  /\ Following(b)
  /\ queue' = queue \ {b}
  /\ \/ (Young(b) \/ TooOld(b)) /\ UNCHANGED <<pc, prune>>
     \/ /\ ~ Young(b) /\ ~ TooOld(b)
        /\ BucketOf(b) \notin DOMAIN oldest
        /\ pc' = "aborted"
        /\ UNCHANGED prune
     \/ /\ ~ Young(b) /\ ~ TooOld(b)
        /\ BucketOf(b) \in DOMAIN oldest
        /\ IF b # oldest[BucketOf(b)] THEN Condemn(b) ELSE UNCHANGED prune
        /\ UNCHANGED pc
  /\ UNCHANGED <<conf, now, complete, rest, device, left, oldest, history>>

-----------------------------------------------------------------------------
(* The exec policy: the program lists backups of the device, each once.      *)
Execute ==
  /\ pc = "exec"
  /\ pc' = "devices"
  /\ \E listed \in SUBSET complete[device] :
       prune' = [prune EXCEPT ![device] = listed]
  /\ Leave
  /\ UNCHANGED <<conf, now, complete, rest, device, history>>

(* Anything else, and a program that fails, is an exception that ends the     *)
(* run with nothing recorded.                                               *)
ExecuteFails ==
  /\ pc = "exec"
  /\ pc' = "idle"
  /\ rest' = {}
  /\ prune' = None
  /\ Leave
  /\ UNCHANGED <<conf, now, complete, device, history>>

(* markObsoleteBackups(), when every device has been looked at.              *)
Mark ==
  /\ pc = "devices"
  /\ rest = {}
  /\ pc' = "idle"
  /\ complete' = [d \in Device |-> complete[d] \ prune[d]]
  /\ prune' = None
  /\ daily' = IF since = Day(now) /\ daily = "due" THEN "seen" ELSE daily
  /\ UNCHANGED <<conf, now, rest, device, queue, left, oldest, made, since, midnights>>

Over == now = MaxTime \/ pc = "aborted"

Finished == Over /\ UNCHANGED vars

Next ==
  \/ \E d \in Device : Complete(d) \/ Examine(d)
  \/ \E b \in queue : JudgeByAge(b) \/ Sort(b) \/ Judge(b)
  \/ Tick \/ Find \/ Examined \/ Sorted \/ Execute \/ ExecuteFails \/ Mark
  \/ Finished

Spec == Init /\ [][Next]_vars

-----------------------------------------------------------------------------
(* "Pruning will never cause the number of backups to fall below this value"  *)
(* (rsbackup.5, min-backups), on any device.                                *)
MinBackupsKept ==
  [][conf.policy = "age" =>
       \A d \in Device :
         \/ complete[d] \subseteq complete'[d]
         \/ Cardinality(complete'[d]) >= conf.minBackups]_vars

Threshold == IF conf.policy = "age" THEN conf.pruneAge ELSE conf.decayStart

(* "Only backups more than this many days old will be pruned" (prune-age,     *)
(* decay-start).                                                            *)
YoungKept ==
  [][conf.policy \in {"age", "decay"} =>
       \A d \in Device : \A b \in complete[d] \ complete'[d] :
         Age(b) > Threshold]_vars

Marking == pc = "devices" /\ rest = {} /\ since = Day(now) /\ pc' = "idle"

(* A run that one day sees whole prunes by age all it may.                   *)
AgeThorough ==
  [][Marking /\ conf.policy = "age" =>
       \A d \in Device :
         \/ Cardinality(complete'[d]) <= conf.minBackups
         \/ \A b \in complete'[d] : Age(b) <= conf.pruneAge]_vars

(* The windows of rsbackup.5: each is a fixed multiple of the one before.     *)
Ends(w, s) ==
  LET ends[n \in Nat] == w * Power(s)[n] + (IF n = 0 THEN 0 ELSE ends[n - 1])
  IN  ends

Reach(n) == IF n < 0 THEN 0 ELSE Ends(conf.decayWindow, conf.decayScale)[n]

InWindow(b, n) ==
  LET a == Age(b) - conf.decayStart
  IN  Reach(n - 1) < a /\ a <= Reach(n)

Window == 0 .. MaxTime

(* "Only one backup (per device) is preserved within each window", namely     *)
(* the oldest there was, and the young ones are preserved too.               *)
OneEachWindow ==
  [][Marking /\ conf.policy = "decay" =>
       \A d \in Device : \A n \in Window :
         LET before == {b \in complete[d] : InWindow(b, n) /\ ~ TooOld(b)}
         IN  {b \in complete'[d] : InWindow(b, n) /\ ~ TooOld(b)}
               = {b \in before : \A c \in before : b <= c}]_vars

(* With a backup and a whole run on every day, and no run across midnight,      *)
Regular(d) ==
  /\ daily # "lapsed"
  /\ \A b \in made[d] : \A t \in Day(b) .. Day(now) - 1 : \E c \in made[d] : Day(c) = t

(* history is thinned, and no gap opens in it: each window that there ever was   *)
(* a backup for has one, but for those that the limit empties.                 *)
HistoryCovered ==
  [][Marking /\ conf.policy = "decay" =>
       \A d \in Device : Regular(d) =>
         \A b \in made[d] : \A n \in Window :
           InWindow(b, n) /\ conf.decayStart + Reach(n) <= conf.decayLimit =>
             \E c \in complete'[d] : InWindow(c, n)]_vars

(* The assertion of prunable() (PrunePolicyDecay.cc:122) can fail only in a   *)
(* run during which midnight passes.                                        *)
BucketFound == pc = "aborted" => since < Day(now)

(* "Backups older than this will always be pruned unless this would leave no  *)
(* backups at all" (rsbackup.5, decay-limit).                               *)
NeverNone ==
  conf.policy = "decay" => \A d \in Device : made[d] # {} => complete[d] # {}

-----------------------------------------------------------------------------
(* What every reachable state satisfies: only what is complete is condemned,   *)
(* and only on devices that have been looked at;                             *)
Condemned ==
  /\ \A d \in Device : prune[d] \subseteq complete[d]
  /\ pc = "idle" => prune = None
  /\ \A d \in rest : prune[d] = {}

(* the policy that is at work has its device before it, and left counts what   *)
(* is not condemned there;                                                  *)
Looking ==
  /\ pc \in {"age", "sort", "judge", "exec"} => device \notin rest
  /\ pc = "age" => /\ conf.policy = "age"
                  /\ queue \subseteq complete[device] \ prune[device]
                  /\ left = Cardinality(complete[device] \ prune[device])
  /\ pc \in {"sort", "judge"} => /\ conf.policy = "decay"
                                /\ queue \subseteq complete[device]
  /\ pc = "exec" => conf.policy = "exec"

(* enough is left of a device of which anything is condemned; and what is      *)
(* condemned is old.                                                        *)
Enough ==
  conf.policy = "age" =>
    \A d \in Device : \/ prune[d] = {}
                     \/ Cardinality(complete[d] \ prune[d]) >= conf.minBackups

OldEnough ==
  conf.policy \in {"age", "decay"} =>
    \A d \in Device : \A b \in prune[d] : Age(b) > Threshold

(* On the day on which the run began, what the age policy is done with is      *)
(* young, or as few as may be;                                               *)
Dated == since <= Day(now)

Judged ==
  since = Day(now) /\ conf.policy = "age" /\ pc # "idle" =>
    \A d \in Device \ rest :
      \/ Cardinality(complete[d] \ prune[d]) <= conf.minBackups
      \/ \A b \in complete[d] \ prune[d] :
           \/ Age(b) <= conf.pruneAge
           \/ pc = "age" /\ d = device /\ b \in queue

(* and what the first loop of the decay policy has sorted has its bucket.     *)
Filled ==
  since = Day(now) =>
    /\ pc # "aborted"
    /\ pc \in {"sort", "judge"} =>
         \A b \in complete[device] :
           \/ pc = "sort" /\ b \in queue
           \/ Young(b) \/ TooOld(b)
           \/ BucketOf(b) \in DOMAIN oldest

Consistent ==
  /\ TypeOK /\ Condemned /\ Looking /\ Enough /\ OldEnough
  /\ Dated /\ Judged /\ Filled
=============================================================================

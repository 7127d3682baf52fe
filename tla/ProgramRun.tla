------------------------------ MODULE ProgramRun ------------------------------
(***************************************************************************)
(* Runs of rsbackup beside each other, as cron and operators start them: the   *)
(* command line (Command.cc), the stores it overrides, the lock (FileLock.cc), *)
(* the commands in turn (rsbackup.cc), the stores that each needs identified   *)
(* (Conf::identifyDevices(), Store.cc), and the device hooks around all access *)
(* to devices (DeviceAccess.cc). What a command does to backups is in          *)
(* BackupThreads and BackupLifecycle; here it runs programs on stores.         *)
(*                                                                         *)
(* Meanwhile hooks and operators mount and unmount disks. A disk that a        *)
(* program works on, or of which a file is open, cannot be unmounted.          *)
(***************************************************************************)
EXTENDS Naturals, Sequences, FiniteSets, SequencesExt

CONSTANTS
  Process,    \* runs
  Paths,      \* where stores may be, in the order of their names
  Disk,       \* the devices of the configuration
  Absent,     \* nothing there; not identified; not locked
  Site,       \* configurations
  Request     \* command lines

Path == ToSet(Paths)

(* What a device-id may hold: a device, something else (or the directory is     *)
(* not private), or it cannot be read though it is there.                     *)
Label == Disk \cup {"bad", "unreadable"}

ASSUME RunAssumption ==
  /\ Paths \in Seq(Path) /\ IsInjective(Paths)
  /\ Absent \notin Process \cup Path \cup Label
  /\ "hook" \notin Path
  /\ \A c \in Site :
       /\ c.readable \in BOOLEAN /\ c.lock \in BOOLEAN /\ c.hooks \in BOOLEAN
       /\ c.stores \subseteq Path /\ c.mounted \subseteq c.stores
       /\ c.plain \subseteq Path /\ c.missing \subseteq Path
       /\ c.labels \subseteq Label
  /\ \A q \in Request :
       /\ q.wait \in BOOLEAN /\ q.warnStore \in BOOLEAN /\ q.forgetOnly \in BOOLEAN
       /\ q.stores \subseteq Path /\ q.unmountedStores \subseteq Path

VARIABLES
  site,          \* globalConfig
  media,         \* what is mounted on, or simply in, each path
  flocked,       \* the run whose open of the lock file holds the lock
  stage,         \* where main() is
  request,       \* globalCommand
  todo,          \* the commands it has not carried out
  known,         \* Conf::stores: their states, and whether they must be mounted
  survey,        \* devicesIdentified, and identifyDevices() under way
  place,         \* Device::store
  keepsOpen,     \* filesToClose
  leaked,        \* files that nothing will close before the exit
  devicesReady,  \* the pre-device-hook has run
  errors,        \* globalErrors is not 0
  child          \* the stores its programs work on, or "hook"

data == <<known, survey, place>>
memory == <<todo, data, devicesReady>>
program == <<site, media, flocked, stage, request, todo, known, survey, place,
             keepsOpen, leaked, devicesReady, errors, child>>

-----------------------------------------------------------------------------
(* Command::parse(): a selection is of a "volume", of a "host", of all hosts    *)
(* ("*"), "negative", or "invalid", as one with any other pattern is.          *)
Reports == {"html", "text", "email"}
ReadWrite == {"backup", "prune", "pruneIncomplete", "retireDevice", "retire"}
Selecting == {"backup", "prune", "pruneIncomplete", "retire", "latest"}

(* Various options are incompatible with one another                         *)
Incompatible(q) ==
  \/ Cardinality(q.actions \cap {"retire", "retireDevice", "backup"}) > 1
  \/ q.forgetOnly /\ "retire" \notin q.actions
  \/ /\ Cardinality(q.actions) > 1
     /\ q.actions \cap {"checkUnexpected", "dumpConfig", "latest"} # {}

BadSelections(q) ==
  \/ "invalid" \in q.args
  \/ "latest" \in q.actions /\ q.args \cap {"host", "*"} # {}
  \/ "retire" \in q.actions /\ q.args \cap {"*", "negative"} # {}
  \/ q.actions \cap {"retire", "latest"} # {} /\ q.args = {}

CommandError(q) ==
  \/ Incompatible(q)
  \/ q.actions = {}
  \/ q.actions \cap Selecting # {} /\ BadSelections(q)
  \/ "retireDevice" \in q.actions /\ q.args = {}
  \/ q.actions \cap {"checkUnexpected", "dumpConfig"} # {} /\ q.args # {}

(* The stores of a run: those of the configuration, of which the command line   *)
(* leaves enabled only those it names, and those that it adds.                 *)
Stores(q) ==
  LET named == q.stores \cup q.unmountedStores
  IN  [all |-> site.stores \cup named,
       enabled |-> IF named = {} THEN site.stores ELSE named,
       mounted |-> site.mounted \cup (q.stores \ site.stores)]

(* The commands, in the order in which they are carried out.                  *)
Commands ==
  <<<<"backup", {"backup"}>>, <<"retire", {"retire"}>>,
    <<"retireDevice", {"retireDevice"}>>, <<"prune", {"prune", "pruneIncomplete"}>>,
    <<"pruneLogs", {"prune"}>>, <<"checkUnexpected", {"checkUnexpected"}>>,
    <<"latest", {"latest"}>>>>

Tasks(q) ==
  LET asked == SelectSeq(Commands, LAMBDA c : c[2] \cap q.actions # {})
  IN  [i \in 1 .. Len(asked) |-> asked[i][1]]

NeedsLock(p) == site.lock /\ request[p].actions \cap ReadWrite # {}

-----------------------------------------------------------------------------
Nowhere == [d \in Disk |-> Absent]
Unsurveyed == [done |-> {}, states |-> "enabled", next |-> 1, found |-> FALSE]
NoStores == [all |-> {}, enabled |-> {}, mounted |-> {}]

Blank ==
  [actions |-> {}, args |-> {}, stores |-> {}, unmountedStores |-> {},
   wait |-> FALSE, warnStore |-> FALSE, forgetOnly |-> FALSE]

RunInit ==
  /\ site \in Site
  /\ media \in [Path -> Label \cup {Absent}]
  /\ \A s \in Path : media[s] # Absent => s \in site.plain /\ media[s] \in site.labels
  /\ flocked = Absent
  /\ stage = [p \in Process |-> "idle"]
  /\ request = [p \in Process |-> Blank]
  /\ todo = [p \in Process |-> <<>>]
  /\ known = [p \in Process |-> NoStores]
  /\ survey = [p \in Process |-> Unsurveyed]
  /\ place = [p \in Process |-> Nowhere]
  /\ keepsOpen = [p \in Process |-> {}]
  /\ leaked = [p \in Process |-> {}]
  /\ devicesReady = [p \in Process |-> FALSE]
  /\ errors = [p \in Process |-> FALSE]
  /\ child = [p \in Process |-> {}]

-----------------------------------------------------------------------------
(* Faulty: no program inherits it.                                           *)
LockOfMain(p, alive, children) ==
  IF flocked = p /\ ~alive THEN Absent ELSE flocked

(* The lock belongs to an open of the lock file, which the programs that the    *)
(* run has started share: ensureOpen() means to set FD_CLOEXEC, but with       *)
(* F_SETFL. It is free again when the last of them is gone.                   *)
LockAfter(p, alive, children) ==
  IF flocked = p /\ ~alive /\ children = {} THEN Absent ELSE flocked

(* exit(), or what the kernel does instead: the memory of the run is gone.      *)
End(p, failed, children) ==
  /\ stage' = [stage EXCEPT ![p] = "ended"]
  /\ errors' = [errors EXCEPT ![p] = failed]
  /\ keepsOpen' = [keepsOpen EXCEPT ![p] = {}]
  /\ leaked' = [leaked EXCEPT ![p] = {}]
  /\ known' = [known EXCEPT ![p] = NoStores]
  /\ survey' = [survey EXCEPT ![p] = Unsurveyed]
  /\ place' = [place EXCEPT ![p] = Nowhere]
  /\ flocked' = LockAfter(p, FALSE, children)

Goto(p, next) ==
  /\ stage' = [stage EXCEPT ![p] = next]
  /\ UNCHANGED <<leaked, flocked>>

(* Command line and configuration; --dump-config ends here. The errors are      *)
(* counted and give an exit status of 1.                                     *)
Begin(p, q) ==
  LET refused == CommandError(q) \/ ~site.readable
  IN  /\ stage[p] = "idle"
      /\ request' = [request EXCEPT ![p] = q]
      /\ IF refused \/ "dumpConfig" \in q.actions
         THEN End(p, refused, child[p]) /\ UNCHANGED todo
         ELSE /\ Goto(p, "lock")
              /\ todo' = [todo EXCEPT ![p] = Tasks(q)]
              /\ known' = [known EXCEPT ![p] = Stores(q)]
              /\ UNCHANGED <<errors, keepsOpen, survey, place>>
      /\ UNCHANGED <<site, media, devicesReady, child>>

(* FileLock::acquire(). Without --wait a run that finds the lock taken is over,  *)
(* with status 0.                                                           *)
TakeLock(p) ==
  /\ stage[p] = "lock"
  /\ \/ /\ ~NeedsLock(p) \/ flocked = Absent
        /\ stage' = [stage EXCEPT ![p] = "work"]
        /\ flocked' = IF NeedsLock(p) THEN p ELSE flocked
        /\ UNCHANGED <<errors, keepsOpen, leaked, data>>
     \/ /\ NeedsLock(p) /\ flocked # Absent
        /\ ~request[p].wait
        /\ End(p, FALSE, child[p])
  /\ UNCHANGED <<site, media, request, child, todo, devicesReady>>

-----------------------------------------------------------------------------
(* Conf::identifyDevices(). Every command that touches devices identifies the   *)
(* enabled stores; a backup with store warnings then looks at the others, to    *)
(* say why a device is not there.                                            *)
Surveying == {"backup", "retire", "prune", "checkUnexpected", "latest"}

StartSurvey(p, states) ==
  /\ stage[p] = "work" /\ todo[p] # <<>>
  /\ Head(todo[p]) \in Surveying
  /\ states \notin survey[p].done
  /\ states = "disabled" =>
       /\ Head(todo[p]) = "backup" /\ request[p].warnStore
       /\ "enabled" \in survey[p].done
       /\ \E d \in Disk : place[p][d] \notin known[p].enabled
  /\ survey' = [survey EXCEPT
       ![p] = [done |-> survey[p].done, states |-> states, next |-> 1,
               found |-> FALSE]]
  /\ Goto(p, "survey")
  /\ UNCHANGED <<site, media, request, todo, known, place, keepsOpen, devicesReady,
                 errors, child>>

(* What comes of a store: it is found, it is not, which is an error of an       *)
(* enabled store, or it ends the run.                                        *)
NextStore(p, found) ==
  /\ UNCHANGED known
  /\ survey' = [survey EXCEPT
       ![p] = [done |-> survey[p].done, states |-> survey[p].states,
               next |-> survey[p].next + 1, found |-> survey[p].found \/ found]]
  /\ stage' = [stage EXCEPT ![p] = "survey"]
  /\ UNCHANGED flocked

Enabled(p) == survey[p].states = "enabled"

UnavailableStore(p) ==
  NextStore(p, FALSE) /\ UNCHANGED <<place, keepsOpen, errors>>

BadStore(p) ==
  /\ NextStore(p, FALSE)
  /\ errors' = [errors EXCEPT ![p] = errors[p] \/ Enabled(p)]
  /\ UNCHANGED <<place, keepsOpen>>

FatalStoreError(p) ==
  \/ Enabled(p) /\ End(p, TRUE, child[p])
  \/ ~Enabled(p) /\ UnavailableStore(p) /\ UNCHANGED leaked

(* Store::identify(), up to preDeviceAccess(). A store that must be mounted and *)
(* is not is given up before the hook could mount it. No store comes here twice, *)
(* so that none has been identified already.                                  *)
ExamineStore(p) ==
  /\ stage[p] = "survey" /\ survey[p].next <= Len(Paths)
  /\ LET s == Paths[survey[p].next]
         wanted == s \in known[p].all /\ (Enabled(p) <=> s \in known[p].enabled)
         unmounted == s \in known[p].mounted /\ (media[s] = Absent \/ s \in site.plain)
     IN  \/ /\ ~wanted
            /\ UnavailableStore(p) /\ UNCHANGED <<devicesReady, child>>
         \/ /\ wanted /\ s \in site.missing
            /\ BadStore(p) /\ UNCHANGED <<devicesReady, child>>
         \/ /\ wanted /\ s \notin site.missing /\ unmounted
            /\ UnavailableStore(p) /\ UNCHANGED <<devicesReady, child>>
         \/ /\ wanted /\ s \notin site.missing /\ ~unmounted
            /\ UNCHANGED <<data, keepsOpen, errors, flocked>>
            /\ IF site.hooks /\ ~devicesReady[p]
               THEN /\ stage' = [stage EXCEPT ![p] = "hook"]
                    /\ child' = [child EXCEPT ![p] = child[p] \cup {"hook"}]
                    /\ UNCHANGED devicesReady
               ELSE /\ stage' = [stage EXCEPT ![p] = "read"]
                    /\ devicesReady' = [devicesReady EXCEPT ![p] = TRUE]
                    /\ UNCHANGED child
  /\ UNCHANGED <<site, media, request, todo, leaked>>

(* The pre-device-hook has ended; its failure ends the run.                   *)
PreHookEnds(p) ==
  /\ stage[p] = "hook"
  /\ child' = [child EXCEPT ![p] = child[p] \ {"hook"}]
  /\ \/ /\ Goto(p, "read")
        /\ devicesReady' = [devicesReady EXCEPT ![p] = TRUE]
        /\ UNCHANGED <<errors, keepsOpen, data>>
     \/ End(p, TRUE, child[p] \ {"hook"}) /\ UNCHANGED devicesReady
  /\ UNCHANGED <<site, media, request, todo>>

(* Faulty: the file is closed once it has been read.                          *)
ReadDeviceIdAndClose(p) ==
  /\ stage[p] = "read"
  /\ LET s == Paths[survey[p].next]
     IN  IF media[s] \in Disk /\ place[p][media[s]] = Absent
         THEN /\ NextStore(p, TRUE)
              /\ place' = [place EXCEPT ![p] = [place[p] EXCEPT ![media[s]] = s]]
              /\ UNCHANGED <<errors, keepsOpen>>
         ELSE BadStore(p)
  /\ UNCHANGED <<site, media, request, todo, devicesReady, child, leaked>>

(* The rest of Store::identify(). The file stays open so that the disk cannot be *)
(* unmounted; so does, for want of a delete, one that could not be read.        *)
ReadDeviceId(p) ==
  /\ stage[p] = "read"
  /\ LET s == Paths[survey[p].next]
         d == media[s]
     IN  \/ d = Absent /\ UnavailableStore(p) /\ UNCHANGED leaked
         \/ d = "bad" /\ BadStore(p) /\ UNCHANGED leaked
         \/ /\ d = "unreadable"
            /\ BadStore(p)
            /\ leaked' = [leaked EXCEPT ![p] = leaked[p] \cup {s}]
         \/ d \in Disk /\ place[p][d] # Absent /\ FatalStoreError(p)
         \/ /\ d \in Disk /\ place[p][d] = Absent
            /\ NextStore(p, TRUE)
            /\ place' = [place EXCEPT ![p] = [place[p] EXCEPT ![d] = s]]
            /\ keepsOpen' = [keepsOpen EXCEPT ![p] = keepsOpen[p] \cup {s}]
            /\ UNCHANGED <<errors, leaked>>
  /\ UNCHANGED <<site, media, request, todo, devicesReady, child>>

(* No store is enough of an error, of enabled ones.                           *)
SurveyEnds(p) ==
  /\ stage[p] = "survey" /\ survey[p].next > Len(Paths)
  /\ survey' = [survey EXCEPT
       ![p] = [done |-> survey[p].done \cup {survey[p].states}, next |-> 1,
               states |-> survey[p].states, found |-> survey[p].found]]
  /\ errors' = [errors EXCEPT ![p] = errors[p] \/ (Enabled(p) /\ ~survey[p].found)]
  /\ Goto(p, "work")
  /\ UNCHANGED <<site, media, request, todo, known, place, keepsOpen, devicesReady,
                 child>>

-----------------------------------------------------------------------------
(* A command runs a program on a device: rsync, rm. It does so on enabled      *)
(* stores only, which BackupThreads, Pruning and Retirement look up.            *)
Working == {"backup", "retire", "prune"}

StartProgram(p, d) ==
  /\ stage[p] = "work" /\ todo[p] # <<>>
  /\ Head(todo[p]) \in Working
  /\ place[p][d] \in known[p].enabled
  /\ child' = [child EXCEPT ![p] = child[p] \cup {place[p][d]}]
  /\ UNCHANGED <<site, media, flocked, stage, request, memory, keepsOpen, leaked,
                 errors>>

(* A program ends, its run being over or not. The failure is counted by then.   *)
ProgramEnds(p, s) ==
  /\ s \in child[p]
  /\ s = "hook" => stage[p] = "ended"
  /\ child' = [child EXCEPT ![p] = child[p] \ {s}]
  /\ flocked' = LockAfter(p, stage[p] # "ended", child[p] \ {s})
  /\ UNCHANGED <<site, media, stage, request, memory, keepsOpen, leaked, errors>>

(* A command has been carried out, with errors or without.                    *)
CommandDone(p, failed) ==
  /\ stage[p] = "work" /\ todo[p] # <<>> /\ child[p] = {}
  /\ Head(todo[p]) \in {"checkUnexpected", "latest"} => "enabled" \in survey[p].done
  /\ todo' = [todo EXCEPT ![p] = Tail(todo[p])]
  /\ errors' = [errors EXCEPT ![p] = errors[p] \/ failed]
  /\ UNCHANGED <<site, media, flocked, stage, request, known, survey, place,
                 keepsOpen, leaked, devicesReady, child>>

(* Faulty: the hook runs while the files are still open.                      *)
CloseDevicesLater(p) ==
  /\ stage[p] = "work" /\ todo[p] = <<>>
  /\ Goto(p, IF devicesReady[p] THEN "post" ELSE "report")
  /\ child' = [child EXCEPT ![p] = IF devicesReady[p] THEN {"hook"} ELSE {}]
  /\ UNCHANGED <<site, media, request, todo, known, survey, place, keepsOpen, errors,
                 devicesReady>>

(* postDeviceAccess(): the files are closed, and then the hook may unmount.     *)
CloseDevices(p) ==
  /\ stage[p] = "work" /\ todo[p] = <<>>
  /\ IF devicesReady[p]
     THEN /\ keepsOpen' = [keepsOpen EXCEPT ![p] = {}]
          /\ IF site.hooks
             THEN /\ Goto(p, "post")
                  /\ child' = [child EXCEPT ![p] = child[p] \cup {"hook"}]
                  /\ UNCHANGED devicesReady
             ELSE /\ Goto(p, "report")
                  /\ devicesReady' = [devicesReady EXCEPT ![p] = FALSE]
                  /\ UNCHANGED child
     ELSE Goto(p, "report") /\ UNCHANGED <<keepsOpen, devicesReady, child>>
  /\ UNCHANGED <<site, media, request, todo, known, survey, place, errors>>

PostHookEnds(p) ==
  /\ stage[p] = "post"
  /\ child' = [child EXCEPT ![p] = child[p] \ {"hook"}]
  /\ \/ /\ Goto(p, "report")
        /\ devicesReady' = [devicesReady EXCEPT ![p] = FALSE]
        /\ UNCHANGED <<errors, keepsOpen, data>>
     \/ End(p, TRUE, child[p] \ {"hook"}) /\ UNCHANGED devicesReady
  /\ UNCHANGED <<site, media, request, todo>>

(* The report, if one is asked for, and the exit.                             *)
Exit(p, failed) ==
  /\ stage[p] = "report"
  /\ failed => request[p].actions \cap Reports # {}
  /\ End(p, errors[p] \/ failed, child[p])
  /\ UNCHANGED <<site, media, request, child, todo, devicesReady>>

-----------------------------------------------------------------------------
(* A run that is killed, or that an exception ends in a thread of makeBackups(), *)
(* leaves its programs behind.                                              *)
Killed(p) ==
  /\ stage[p] \notin {"idle", "ended"}
  /\ End(p, TRUE, child[p])
  /\ UNCHANGED <<site, media, request, child, todo, devicesReady>>

(* Hooks and operators. What is simply in a directory stays there.             *)
Mount(s, l) ==
  /\ s \notin site.plain \cup site.missing /\ media[s] = Absent
  /\ media' = [media EXCEPT ![s] = l]
  /\ UNCHANGED <<site, flocked, stage, request, memory, keepsOpen, leaked, errors,
                 child>>

Busy(s) == \E p \in Process : s \in keepsOpen[p] \cup leaked[p] \cup child[p]

Unmount(s) ==
  /\ s \notin site.plain /\ media[s] # Absent /\ ~Busy(s)
  /\ media' = [media EXCEPT ![s] = Absent]
  /\ UNCHANGED <<site, flocked, stage, request, memory, keepsOpen, leaked, errors,
                 child>>

Proceed(p) ==
  \/ TakeLock(p)
  \/ \E m \in {"enabled", "disabled"} : StartSurvey(p, m)
  \/ ExamineStore(p) \/ PreHookEnds(p) \/ ReadDeviceId(p) \/ SurveyEnds(p)
  \/ \E d \in Disk : StartProgram(p, d)
  \/ \E b \in BOOLEAN : CommandDone(p, b)
  \/ CloseDevices(p) \/ PostHookEnds(p)
  \/ \E b \in BOOLEAN : Exit(p, b)

Children(p) == \E s \in Path \cup {"hook"} : ProgramEnds(p, s)

RunNext ==
  \/ \E p \in Process : \E q \in Request : Begin(p, q)
  \/ \E p \in Process : Proceed(p) \/ Children(p) \/ Killed(p)
  \/ \E s \in Path : Unmount(s)
  \/ \E s \in Path, l \in site.labels : Mount(s, l)

RunSpec == RunInit /\ [][RunNext]_program

-----------------------------------------------------------------------------
(* What the runs and the programs hold.                                      *)
RunTypeOK ==
  /\ site \in Site
  /\ media \in [Path -> Label \cup {Absent}]
  /\ flocked \in Process \cup {Absent}
  /\ stage \in [Process -> {"idle", "lock", "work", "survey", "hook", "read", "post",
                            "report", "ended"}]
  /\ request \in [Process -> Request \cup {Blank}]
  /\ known \in [Process -> [all : SUBSET Path, enabled : SUBSET Path, mounted : SUBSET Path]]
  /\ survey \in [Process -> [done : SUBSET {"enabled", "disabled"}, found : BOOLEAN,
                             states : {"enabled", "disabled"}, next : 1 .. Len(Paths) + 1]]
  /\ \A p \in Process : stage[p] \in {"hook", "read"} => survey[p].next <= Len(Paths)
  /\ place \in [Process -> [Disk -> Path \cup {Absent}]]
  /\ keepsOpen \in [Process -> SUBSET Path]
  /\ leaked \in [Process -> SUBSET Path]
  /\ devicesReady \in [Process -> BOOLEAN]
  /\ errors \in [Process -> BOOLEAN]
  /\ child \in [Process -> SUBSET (Path \cup {"hook"})]

(* Main or a program of a run is at work that needs the lock.                  *)
Underway(p) == stage[p] \notin {"idle", "lock", "ended"} \/ child[p] # {}

(* "Take the lock, if one is defined": no two runs that change backups or their  *)
(* records are under way at once, the programs included that a killed run       *)
(* leaves behind.                                                            *)
OneWriter ==
  \A p, r \in Process :
    /\ Underway(p) /\ NeedsLock(p)
    /\ Underway(r) /\ NeedsLock(r)
    => p = r

(* "leave a file open on the store to stop it being unmounted while ... it's a   *)
(* potential destination for backups": from its identification to the           *)
(* post-device-hook a device is where it was found, and a program works on the  *)
(* disk that it was started for, or on the same as those before it.             *)
Surveyed(p) == stage[p] \in {"work", "survey", "hook", "read"}

DevicesStay ==
  \A p \in Process :
    /\ Surveyed(p) =>
         /\ \A d \in Disk : place[p][d] # Absent => media[place[p][d]] = d
         /\ keepsOpen[p] = {place[p][d] : d \in Disk} \ {Absent}
    /\ \A s \in child[p] \ {"hook"} : media[s] \in Disk

(* When the post-device-hook runs, nothing of the run is open on a device that   *)
(* it identified; and a run that ends well after touching devices has run it,   *)
(* and has carried out all its commands, unless it found the lock taken.        *)
TidyEnd ==
  \A p \in Process :
    /\ stage[p] = "post" => keepsOpen[p] = {} /\ child[p] = {"hook"}
    /\ stage[p] = "ended" /\ ~errors[p] =>
         /\ ~devicesReady[p] /\ child[p] = {}
         /\ request[p].wait => todo[p] = <<>>

=============================================================================

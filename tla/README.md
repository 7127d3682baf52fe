# rsbackup: specifications, model checking and proofs

This directory holds TLA+ specifications of rsbackup (`src/`), the TLC
configurations that check them on small instances, and proofs that TLAPS checks
for every value of their constants.

    tlc -config schedule.cfg MCActionList        a run
    tlapm ActionListProofs.tla                   the proofs of a module

`PROJECT.json` says which lines of the source each definition stands for
(`map`), which properties each run checks, a faulty variant of the code that
each property catches (`mutants`), and what can go wrong where (`hazards`).

## The system

rsbackup backs up volumes of remote hosts to local disks with rsync, prunes old
backups by a policy, retires volumes and devices, and reports. One program
(`rsbackup.cc`) is run again and again, by cron or by hand; what lasts between
runs is a SQLite database of backups, and on each disk a tree per backup with
`<backup>.incomplete` marker files beside the trees.

| Component | State | Operations | Hard behaviour |
|---|---|---|---|
| Action lists (`Action.cc`) | the actions, their states, resources held, a time limit | `add`, `go`, `trigger`, `completed` | `completed()` and `trigger()` call each other; failures spread along dependencies; the limit races with exits |
| Event loop (`EventLoop.cc`) | descriptors, timeouts, pids waited for | `wait`, `when*`, `terminateSubprocesses` | callbacks change what is being scanned; when the loop ends |
| Subprocesses (`Subprocess.cc`) | pid, status, captured output | `go`, `launch`, `onWait`, `onTimeout`, `runAndWait` | kill against exit; exceptions |
| Backup threads (`MakeBackup.cc`) | global lock, condition variable, limits of devices and groups, hook states | a thread per host and per volume; hooks; rsync with the lock released | lost wakeups, overlap of hooks and backups, exceptions in threads |
| Volumes and hosts (`Volume.cc`, `Host.cc`) | paths, backups, checks | `needsBackup`, `available` | checks that throw; a path that the hook rewrites |
| One backup (`MakeBackup.cc`) | row, marker, tree | `BeforeBackup`, rsync, recording | crashes between steps; a busy database |
| Pruning (`Prune.cc`, `BulkRemove.cc`) | rows, markers, removals | find, mark, flag, remove, complete | the same, and the time limit, and absent disks |
| Retirement (`RetireVolumes.cc`, `RetireDevices.cc`) | rows, trees | remove, forget | failed removals |
| Database (`Database.cc`, `Backup.cc`) | rows; an open transaction | insert, update, begin, commit | busy errors |
| Configuration file (`ConfDirective.cc`, `ConfBase.cc`, `Indent.cc`, `Conf.cc`) | the context a line is about; hosts, volumes, devices, stores | read, include, validate, dump | what applies to what, by indentation and order; a dump that is read again |
| Policies (`PrunePolicy*.cc`, `BackupPolicy*.cc`) | none | `prunable`, `backup` | boundaries of ages and windows; what a run keeps is what the next one starts from; midnight |
| Runs (`rsbackup.cc`, `Command.cc`, `Store.cc`, `DeviceAccess.cc`, `FileLock.cc`) | the lock, store states, open files, whether devices are ready | the lock, `identifyDevices`, device hooks, the commands in order, the exit | runs at once, programs that outlive them, disks that come and go, early exits |
| Records (`Conf::readState`, `Volume.cc`, `Report.cc`, `Latest.cc`, `CheckBackups.cc`) | statistics of volumes, unknown names | load, update, report | statistics kept up to date through a run; the order of rows |
| Documents (`Document.cc`, `Text.cc`, `HTML.cc`) | a table and its cursor | `addCell`, `newRow`, render | cells over several columns and rows |
| Dates (`Date.cc`) | none | `++`, `-`, `addMonth` | leap years |
| Graphs, mail, colours | none that lasts | | sequential, unit tested |

They meet like this: `main` runs the commands of one command line in a fixed
order. `makeBackups()` starts the threads; each volume thread runs its hooks and
its rsync in an action list of its own, on an event loop of its own.
`pruneBackups()` and `retireVolumes()` run all their removals in one action list
with the device as a resource. All of them change the database and the disks,
and share the backups in memory (`Volume::backups`), whose statistics the report
at the end of the run shows. Before them, `main` reads the configuration and
takes the lock; around them, it identifies the devices and runs the device
hooks.

## The modules

| Module | What it models |
|---|---|
| `ActionList` | an action list on its event loop in one thread, with subprocesses and a clock |
| `ActionSchedule` | what an action list promises its client: the abstract specification |
| `BackupThreads` | the threads of `makeBackups()`, the lock, the condition variable, the limits, the hooks |
| `BackupLifecycle` | the backups of a volume through runs that back up, prune and retire, with crashes and failures between any two changes to the database and the disks |
| `Subprocesses` | single commands with captures and timeouts, on event loops of several threads, down to pipes and who holds them |
| `PrunePolicies` | the prune and backup policies, day after day, with every look at the clock |
| `ProgramRun` | runs beside each other: command line, lock, stores, device hooks, the order of commands, exits, and the disks under them |
| `ConfigFile` | the reader of configuration files, directive by directive, and the dump it reads again |
| `Reports` | the records as a run loads and changes them, the statistics, and what the report, `--latest` and `--check-unexpected` make of them |
| `ReportTables` | the cells of the summary table, and its layout as text and HTML |
| `Dates` | the calendar, and the arithmetic of dates |
| `MCProgram` | the last five, in one run of TLC |
| `MCActionList`, `MCBackupThreads`, ... | instances of these for TLC |
| `ActionListProofs`, `BackupThreadsProofs`, ... | their proofs |

What a module leaves open another works out: `ActionList` takes the end of a
subprocess as one event, which `Subprocesses` takes apart; `BackupThreads` and
`BackupLifecycle` let a policy decide freely, which `PrunePolicies` makes
definite. `BackupLifecycle` has one run at a time, which is what `OneWriter` of
`ProgramRun` says of those that need the lock; that a disk stays where it is
while it is worked on is `DevicesStay`. `PrunePolicies` and `Reports` count days
as they pass, and `Dates` says where the code's subtraction does not.

### ActionList and ActionSchedule

An action is a name. What the client configures - resources, predecessors with
their flags, priority - is a constant function of the name, and the client adds
any subset of the actions. The variables are the fields of `ActionList`
(`actions`, `states`, `resources`, `timedOut`), `Action::state`, what the event
loop knows (`armed`, `child`), the processes themselves and the clock. `pc` and
`frames` hold where the thread is in the recursion: `trigger()` starts an action
and calls itself; an action whose `go()` completes it at once (`Sync`, as
`RemovedBackup` does) reaches `trigger()` again from inside. `trigger()` is
one step from one external effect to the next: a scan with all the actions it
fails, until it starts an action or returns. The order of the names is that of
`std::map`; the choice by priority is the code's (the first of the highest).
The glob and the success flags of a dependency are treated as in
`failed_by_dependency()`: a glob ignores the success flag.

`ActionSchedule` has one variable per action and says when it may begin, end and
be given up. `ImplementsSchedule` is the refinement: `Status` maps the four
places in which an action list remembers an action to that variable.

### BackupThreads

`main`, `host[h]` and `vol[v]` are the places of the threads; `lock` is the
owner of `globalLock`; a thread in `"waiting"` is in the condition variable's
wait set and `NotifyAll` moves it to `"woken"`, from which it takes the lock
again. `Take` and `Release` are `TakeConcurrencyLimit`. What a thread does while
it holds the lock and waits for a command (a hook, a check) keeps the lock, and
only rsync releases it; each such command is a step of its own because other
threads move between its start and its end. `outcome`, `preRuns` and `postRuns`
record what happened. An exception that leaves a thread function ends the
program (`aborted`): a check that fails with a capture, a command killed by a
signal, a database that cannot be written.

### BackupLifecycle

Each backup has a row (`db`), a tree and a marker that last, and its copy in
memory (`mem`). A run is a command line (`StartRun`) with the disks it will
find; `MakeBackups`, `PruneBackups`, `PrunePruneLogs`, `RetireVolumes` and
`RetireDevice` are its commands in the order of `main()`, each split at every
change to the database or to a disk, because `Crash`, a locked database (`Busy`,
and `RecordBusy` where the code retries) and a failure of the disk can come in
between. `rm` and rsync make a tree partial when they start and empty or whole
when they succeed. An `rm` that the program no longer waits for, after an
exception, goes on as an orphan. What the prune policy chooses is any set of
complete backups. `tried` and `retired` are histories.

### Subprocesses

Each command has a thread that runs it (`pc`), a process (`proc`), the fields of
`Subprocess` (`pid`, `status`) and the entries of its event loop (`reading`,
`waiting`, `timer`). `writers[c]` is who holds the writing end of the pipe of
`c`: the program between `capture()` and the end of `launch()`, the child, any
child of another thread that was forked in that time (the pipes have no
close-on-exec flag), and an heir, a process that the child leaves behind (an ssh
master, a mount helper). `Read` and `Sweep` are one round of
`EventLoop::wait()`: it reads some of what is there, and at the end of the
file ends the capture; then it reaps what has ended. `wait()` goes on while
there is a capture or a process (`Looping`), and `Return` is what its caller
then hears (`ThrowOn`). `written`, `fate` and `strayed` are histories: what was
written, how the process ended, and whether a reaped pid was signalled. A
command has one capture here; hooks have two, which behave alike.

### PrunePolicies

A backup is the moment at which it was made; `Day` cuts moments into days.
`Complete` makes a backup when the backup policy lets it (`Due`). `Find` begins
a run of `findObsoleteBackups()`, `Examine` calls `backupPrunable()` for a
device, and from there each pass of a loop of the policy is a step
(`JudgeByAge`; `Sort` and `Judge`; `Execute`), because each asks for today's date
again and `Tick` may come in between. `Mark` is `markObsoleteBackups()`.
`Bucket` counts the powers of the scale below the age in windows, which is the
rounded logarithm of the code; for the ages and windows of
`src/src/test-prunedecay.cc` it gives the buckets that test expects. The
properties do not use it: they define the windows as the manual does, each a
multiple of the one before (`Ends`). `daily` is a history: the run that is due
today is still to come (`"due"`), has been (`"seen"`), or there was a day without a
whole run, or one with a run across midnight (`"lapsed"`). `HistoryCovered` is about
backups and runs on every day (`Regular`), and does not hold otherwise. With windows
of 1, 2, 4, ... days from `decay-start` 1, backups on the days 0, 7 and 10 only, and
a run on every day, the backups of the days 0 and 7 meet in one window on day 16
and the younger goes; on day 17 the older leaves that window, and nothing is in it.

### ProgramRun

`stage` is where the `main()` of each run is, `todo` the commands that it has not
carried out, in the code's order. `Begin` is `Command::parse()` and the reading
of the configuration, with every reason to refuse; `TakeLock` is
`FileLock::acquire()`. `flocked` belongs to the open of the lock file and not to the
process: it is free when the run and all programs it started are gone, since the
flag that should close it in them is not set. `StartSurvey` to `SurveyEnds`
are `identifyDevices()`, store by store, each with the outcome of
`Store::identify()`; `StartProgram` and `ProgramEnds` are what the commands run on
a device. `Mount` and `Unmount` are hooks and operators, at any moment, but for a
disk of which something is open or on which a program works; `Killed` may come
at any moment and leaves the programs. `Site` is the configuration: whether it
can be read, has a lock and hooks, which stores there are, must be mounted
(`mounted`), are plain directories, and do not exist.

### ConfigFile

`subject` is a set of lines, and the file is any sequence of them: each step reads
one more, so every file of up to `MaxLines` lines is read. A directive is a
record: the words it stands for (those that do the same to different settings
share one), its form, its arguments, the levels it is accepted at and the level
it opens. A form says what arguments denote (`Reads`, `Value`) and what becomes
of them. `files` is the stack of files being read, each with its own stack of
indentations (`Depths`) and its own context (`at`), as `readOneFile()` starts with
a new `ConfContext`. `Dump` writes rows (`ConfWrite`) and the reader reads them
again. A read beyond the end of the words of a line (`Overrun`) is a choice of
what may be there. `SettingsInForce` does not use the machine's stack: it finds
the block of each line from the text alone, and what is in force in a block from
the lines.

### Reports and ReportTables

`rows` is the table `backup`. `StartReading`, `ReadRow` and `ReadingEnds` are
`readState()`, in any order of rows, and `AddBackup` what it does with each:
those pruned, of unknown devices, hosts and volumes. `BackupBegins`, `BackupEnds`,
`MarkObsolete` and `Removed` change rows, volumes and statistics as
`MakeBackup.cc` and `Prune.cc` do. The report is a function of the state, and
`ReportRight` compares it, at any moment between changes, with what the rows
say. `ReportTables` adds the cells that `Report::summary()` adds, one by one, at the
cursor of `Document::Table`; its text and HTML renderings are functions of the
finished table.

### Dates

Dates are records; `MDay`, `MonthLength`, `Successor`, `AddMonth` and `Number` are the
functions of `Date.cc`. A walk from a day to the next counts the days that have
passed, against which `CalendarRight` holds the arithmetic.

### MCProgram

`Dates`, `ConfigFile`, `ProgramRun`, `Reports` and `ReportTables` share no state and
no steps. `MCProgram` puts them into one specification: `part` says which of them
goes, and the others stand still in one of their first states. Its states are
those of the five, one after another, and each of its properties is about one of
them.

## The runs

| Run | Instance | Shows |
|---|---|---|
| `schedule` | 7 actions on 2 resources: removals with follow-ups, a glob dependency, a dependency on success, a priority, a removal that hangs until it is signalled; limit 1, clock to 2; any subset added; 32,122 states | exclusion, order, justified skips, no idling, nothing left behind, the refinement, termination |
| `threads` | 2 hosts, 3 volumes in 2 groups, 2 devices, all kinds of hook and check, one spurious wakeup; about 575,000 states | limits, hooks, wakeups, joins, error counts, termination |
| `lifecycle` | 2 backups on 2 disks, 7 command lines, up to 3 troubles; about 320,000 states | markers, rows, trees and memory agree at every moment; the order of a removal; what is left behind is cleared |
| `commands` | an rsync with a timeout that may hang or leave a process, and a check in another thread; all outcomes, forks at any moment; 415,460 states | complete output, the right outcome, no stray kill, the timeout kills, termination |
| `policies` | 6 configurations: never, age on one and two devices, decay with windows of 1 and 2 days and with a limit that bites, exec; 6 days of 2 moments, one midnight in the middle of a run; 3,157,358 states | what each run keeps, and what lasts after many |
| `program` | one part after another: 2 runs on 3 stores and 2 devices, with 4 sites and 5 command lines; configuration files of up to 4 lines and 3 files from 7 sets of lines, and their dumps; up to 2 of 9 records at first and 2 changes on 2 volumes and 2 devices; 4 tables; 430 days from 4 dates; 486,147 states | one writer, devices that stay, tidy ends; settings in force, dumps that read back; right reports and tables; the calendar |
| `limit_reported` | as `schedule` | finding 1 |
| `check_mounted` | 1 host, 2 volumes, 2 devices | finding 2 |
| `real_path` | the same | finding 3 |
| `busy_record` | as `lifecycle`, 1 trouble | finding 4 |
| `hook_timeout` | 1 hook that leaves a process for good | finding 5 |
| `decay_limit` | decay with a limit of 2 days, 7 days | finding 6 |

Why the bounds are enough. `schedule` has each kind of dependency and of
action at least once, two actions that compete for one resource, and two that do
not; a clock of three values has a moment before, at and after the limit.
`threads` has two volumes of one group and one outside it, so that a volume can
be held up by its group or by a device; the devices are fewer than the volumes.
`lifecycle` lets two backups meet in one run, on the same and on different
disks' fates; three troubles are one more than the longest chain that matters
(a failure, then a crash of the run that clears up, then an absent disk).
`commands` has a pipe that is full after one write, so that a command can be
stopped by it, and a second write to be read after the exit; two commands are
enough for one to inherit the pipe of the other. `policies` has ages up to
five days, which are three windows of decay; two moments a day, so that a
day can have two backups; and intervals short and long enough for a run to find
several backups in a window and none. `program`: two runs are as many as can be in
each other's way, and three stores let two carry one device; a file of four lines has a
host, a volume and two settings, before, between and after them; its sets of
lines have each form of directive, and settings that the dump leaves out; two
records and two changes give a volume two backups on one device, of which one
goes while it is reported, and a run that reads what another has left; tables
have no device, one and two, and hosts without and with several volumes; and 430
days reach from January of a leap year past the next March. `MaxTime`, `MaxSpurious`, `MaxTrouble`,
`MaxOutput` (with `PipeSize`), `MaxMidnights`, `MaxLines`, `MaxFiles`, `LastSecond`, `MaxChanges`
and `MaxDays` are the only bounds in guards; `AtFirst` bounds the first records.

### Findings

1. `LimitReported`: `trigger()` cancels what is pending when its own reading of
   the clock is past the limit, but `timeLimitExceeded()` reports what the
   timeout reactor saw. When the last command ends late in the round in which
   the limit passes, actions are cancelled and the list says it did not time
   out. `pruneBackups()` then does not complete the removals that ended.
2. `FailedCheckSkips`: a `check-mounted` whose `stat` fails throws out of the
   volume's thread and ends the program, where the test of it says "Backup is
   skipped if check-mounted fails".
3. `ChecksRealPath`: the manual says that the checks apply "to the real path to
   the volume, not the rewritten path"; on the second device they are done on
   what the pre-volume-hook printed.
4. `BusyIsRetried`: when recording a finished backup finds the database busy,
   the retry begins a transaction within the one left open and ends the program
   with an error that is not "busy".

5. `TimeoutGivesUp`: the timeout of a command kills the child and nothing else.
   A process that the child left behind and that holds its output keeps
   `wait()` waiting, where `Subprocess.h` says "give up and kill child" and the
   manual "concluding a hook has hung".
6. `NeverNone`: the manual promises that decay prunes what is older than
   `decay-limit` "unless this would leave no backups at all"; the code prunes
   them all if there are at least two.

### Remarks

Disagreements met while modelling that have no run of their own: the passing
runs state what the code does, and these say what it leaves open.

* `Date.cc:138`: the difference of two dates (`Date.h:56`, "Different between two
  dates in days") counts the leap day of a year from its January on, and from
  March once more: from 1999-12-31 to 2000-01-01 it is 2, from 2000-12-31 to
  2001-01-01 it is 0. Policies and reports use it. `CalendarRight` says by how
  much it is off, always.
* `FileLock.cc:37`: `FD_CLOEXEC` is set with `F_SETFL`, so that programs inherit the
  lock. `OneWriter` holds because of it: programs of a killed run keep the next one
  out.
* `Store.cc:37`: a store that must be mounted and is not is given up before the
  pre-device-hook could mount it (`rsbackup.5:101` describes such a hook); and an
  unreadable `device-id` is never closed (`leaked`).
* The post-device-hook runs on the normal path of `main()` only, and `--latest` and
  `--check-unexpected` run hooks without the lock.
* `Report.cc:92`: `backups_failed` (`Report.h:50`) is never counted, as only complete
  backups are looked at. `Volume.cc:49` leaves `oldest` as it was when the last
  complete backup goes, so that "Oldest" names a backup that is gone.
* `Report.cc:488`: the key `generated` of `rsbackup.5:128` is rejected.
* `Report.cc:227` divides by zero for a max-age of less than a day.
* `--dump-config` never writes stores, `max-usage`, `max-file-usage` and a `group` at top
  level; a time-out of 0, an empty `rsync-remote` and empty `devices` under a parent
  that has one are lost; font names of several words are not quoted
  (`Conf.cc:245`), nor are policies that are no single word (`ConfBase.cc:75`, `:97`);
  a list whose first element fills a line cannot be read (`ConfBase.cc:219`), and one
  whose first element is "+" is appended to the default instead of taking its place. `DumpReadsBack` names these and no others.
* `ConfDirective.cc:86`: `report`, `graph-layout` and the measures without an argument read
  beyond the words of the line.
* `rsbackup.5:472-477` says that settings of a host or volume override the outer
  ones; outer ones that come later in the file have no effect, as they are
  copied where the stanza begins.
* `PrunePolicyExec.cc:41`: an inherited parameter whose name is no name of a variable makes
  `exec` be refused.

And of the decay policy: the assertion
in the second loop of the decay policy can fail. If midnight passes between the
loops, a backup of exactly `decay-start` days is too young for the first and
needs a bucket in the second. `policies` reaches that state (`pc = "aborted"`),
and `BucketFound` says, and the proof shows, that nothing else leads there.

### Fairness

* `ActionList`: the thread runs, the clock goes on, and a subprocess that can end
  ends: one of `Hangs` only when signalled.
* `ProgramRun`, `ConfigFile`, `Reports`, `ReportTables` and `Dates` state none: their
  properties are of safety. What must end is in the others.
* `BackupThreads`: weak fairness for each thread, as the scheduler gives it. A
  thread that waits for the lock competes with others that release it for ever
  only if they run for ever, so no strong fairness is needed. Spurious wakeups
  are not fair.
* `Subprocesses`: the threads run and time passes; processes end, but for those
  that hang, which only have to be killed (`Hangs`), and heirs that live for
  ever (`Lingering`, in `hook_timeout` only).
* `BackupLifecycle`: a run goes on and orphans end; and strong fairness of a run
  of `--prune-incomplete` with all disks there, which is what the cron job and
  an operator who mounts disks do. Without it nothing is ever cleared up.

## The proofs

For each module the proof has one inductive invariant, `Consistent`, that TLC
would also find true, and lemmas that every action preserves it, one step per
action. Safety properties then follow from it.

* **ActionList** (`ActionListProofs`). `Consistent` says that `resources` is the
  union of what the running actions use, that an action is in the list exactly
  while it is pending or running, that its children are the running actions
  which are not synchronous, and that at most one synchronous action runs, only
  in `"sync"`. From it: `Exclusion` (`ResourceExclusion`), `NothingLeft`. `Order`
  and `Skipping` add that outcomes never change once given. `NoIdling` rests on
  `StepSettles`: a step that ends in the event loop leaves nothing that could
  be started. `Refinement` (`Spec => ImplementsSchedule`) maps each action to a
  step or a stutter of `ActionSchedule`; the sweep in which a scan fails one
  action after another is one abstract action per step.
* **BackupThreads** (`BackupThreadsProofs`). `Consistent` relates the lock to the
  places of the threads (`Locking`), the limits to the threads that hold them
  (`Limits`), the loop's variables to its place (`Looping`), the hook states to
  the counts (`Hooking`), outcomes to the devices left (`Settled`) and the
  threads to those that join them (`Started`). From it: `Exclusion`,
  `HookExclusion`, `Bracketing`, `NoLostWakeup`, `Joined`, `ErrorCount`.
* **BackupLifecycle** (`BackupLifecycleProofs`). `Consistent` says for each place
  of a run what the row, the tree and the marker of the backup it is making
  (`Making`) or removing (`Removing`) look like, that orphans only remove what is
  PRUNING or gone, and that memory agrees with the rows but for the backup in
  hand (`Remembering`). From it: `Marked`, `Whole`, `Known`, `Memory`, and the
  action property `Ordered`.

* **Subprocesses** (`SubprocessesProofs`). `Consistent` says for each command how
  the process, its status and `pid` go with the place of its thread (`Running`),
  and that what was written is in the pipe or in the string and an ended
  capture has no writer left (`Capturing`): an end of a pipe can only be copied
  from one that is still open. From it: `NothingLost`, `OutcomeKnown`,
  `OnlyOwnKilled`.
* **PrunePolicies** (`PrunePoliciesProofs`). `Consistent` says that only complete
  backups of devices already seen are condemned (`Condemned`), that `left` is the
  number of the others (`Looking`), that of a device of which anything is
  condemned enough is left (`Enough`), that what is condemned is old
  (`OldEnough`), and, as long as it is the day on which the run began, that what
  the age policy is done with is young or as few as may be (`Judged`) and what
  the first loop of decay has sorted has its bucket (`Filled`). From it:
  `MinBackupsAlwaysKept`, `YoungAlwaysKept`, `AgeAlwaysThorough`,
  `BucketAlwaysFound`. `Windowed` adds, as long as it is the day of the run, that of
  the backups of a device that is done with all are condemned that have an older
  one in their bucket, and no others (`OthersCondemned`, from `OldestFound`); a bucket is a
  window (`WindowOf`), which gives `OneEachWindowKept`. Over many days,
  `DailyInv` says which backup of a window is left: a window is as long as a multiple
  of each window before it, so it holds just one day that is a whole number of its
  lengths after the first (`OneMark`); the first backup of that day is what is left of the
  window, whatever windows it has been through (`Thinned`). That gives
  `HistoryAlwaysCovered`.

* **ProgramRun** (`ProgramRunProofs`). Two invariants. `LockInv` says that a run which
  needs the lock, and is past taking it or has programs, is the one that has it.
  From it: `Exclusion` (`OneWriter`). `StayInv` says that the places of devices
  are the files kept open and hold the device, and that what a program works on
  is a place that has a disk: nothing that is open can be unmounted, and
  nothing else changes a disk. From it: `Staying` (`DevicesStay`). `TidyInv` says for each
  place of a run what it still has open, has running and has to do: `Tidiness`
  (`TidyEnd`).
* **Reports** (`ReportsProofs`). `Consistent` says that no two records share volume,
  device and second (`Distinct`), that what a volume has is what it should have
  of the rows that are read and not being made, and the strange names are those
  of these rows (`Agreement`), that the record being made is in the table
  (`UnderwayKnown`), and that the statistics of each volume are those of its
  backups (`Current`): calculating them again changes nothing. From it:
  `ReportsAreRight` (`ReportRight`). It needs that sets of records have a first
  and a newest, from the well-foundedness of the numbers, and that these are
  unique. `PruneTablesExact` goes through `CompressTable.h`: one pass says what it
  said before (`TakeSays`) and leaves no two neighbours that it would merge
  (`PassIs`), and passes end because each but the last makes the table shorter
  (`CompressIs`).
* **ReportTables** (`ReportsProofs`). `Drawing` says where in the summary the table is
  (`Stage1` to `Stage8`: in the rows of headings, in a host, in the row of a
  volume): which cells are left, where the cursor is, how large the table is, that
  each place that is taken has just one cell (`Tiled`), that the cells have together as
  many places as are taken (`Measured`), and that what is taken of each column is
  all from the top to a line (`Skyline`), which is why a cell that is put where the
  columns under it are level overlaps none (`SkylineGrows`). One lemma for each stage
  shows that the next cell leads to the next (`FromStage1` to `FromStage8End`). After
  the last host the line is the same in each column: there are no gaps (`Filled`).
  From that alone follow, whatever the cells are, that texts fit (`TextsFit`: widening a
  column makes no other cell narrower), that lines are equally long (`LinesAlike`: a
  line up to a column is as long as the columns up to where its last cell ends)
  and that a row of the HTML has its cells (`RowIsCells`). With the cells of the
  summary: `SummariesSet` (`SummarySet`). The sums over columns, cells and hosts are
  folds in an order that is not known, so they rest on lemmas of their own (`SumSplit`,
  `SumSame`, `SumConcat`).
* **Dates** (`InputProofs`). `Calendar` is an induction over days: a successor is a
  date, is later, and has the next number but for the leap day; that a month
  later is in the next month follows for every date. The lengths of months are
  taken apart case by case.
* **ConfigFile** (`InputProofs`). `ReadRight` relates the machine of the reader to the
  text: the blocks that are open are those that lines of the file have opened
  (`FileRight`, which says for each depth on the stack which of the lines indented
  less is the last, and that it begins the block in which the reader is); all other
  files are outside of any block (`OthersOutside`); every line so far is in a block
  that there is (`LinesRight`); every host and volume has one line that made it
  (`Makers`); and the nodes hold what is in force (`ValuesRight`). Each line then
  needs three things: `FileAfter` (the stack is right again), `LinesAfter` (what was
  said of earlier lines stays, and the new one is in its block) and `ValuesAfter`
  (only what the line sets changes: `InForceGrows`). One lemma per directive
  (`AssignKeeps`, `HostKeeps`, `IncludeKeeps`, ...) shows that it has them. The table of
  directives is checked entry by entry (`TableOfDirectives`). From it:
  `SettingsAlwaysInForce`.
* **The dump** (`InputProofs`). What lines do to the hosts, volumes and devices is a relation
  of its own: `Takes` for one line, `Leads` for a sequence of them; and the reader, while
  it reads a dump, takes each line that can be taken (`LineReadBack`), so that it is
  enough to show where the lines of a dump lead. The words and parameters of a node are
  written in the order that a set is put in, so the rows of one node are taken in any
  order, one word at a time: what the rows so far say is there, and the rest is as it
  was (`ValuesLead`, `ParametersLead`, `RowsLead`). A list takes several lines, of which
  all but the first append (`ListsLead`). What is not written must be the same
  before the rows of the node are read: the default at top level, what the node
  above has at hosts and volumes (`ReadyRoot`, `ReadyHost`, `ReadyVolume`). Stanzas follow from
  their rows (`StanzaLeads`), hosts from their volumes (`HostsLead`), the dump from its parts
  (`DumpLeads`). Two more invariants carry this through a run: what lines can make
  can be written (`StorableInv`), and what is left to read of a dump leads, from what
  has been read of it, to what was dumped (`RereadInv`). With `ReadRight`:
  `DumpAlwaysReadsBack` (`DumpReadsBack`).

The type invariants (`TypeOK`, `RunTypeOK`, `CalendarTypeOK`, and in `Reports` the
part `Typed` of `Consistent`) are proved of each of these modules, and so are in
no run of their own.

They assume the named `ASSUME`s of the modules and nothing else: finite sets
of actions, volumes and devices, that the constant functions have their types,
of the words of the configuration that what is written of a value is read as that
value, the defaults included (`ConfigAssumption`), and of the records that the
database may hold at first that they have the fields of a record (`RecordType`), in
which a time is after 1970 began. In particular the number of backups, runs,
stores, disks, crashes, spurious wakeups, writes, days and midnights is unbounded
in the theorems (the bounds are arbitrary naturals).

What a recursive function or a fold computes is proved without an induction rule,
which would need an operator as a parameter: among the numbers for which a claim
fails there is a least one (`LeastNumber`, from the well-foundedness of the natural numbers),
and that leads to a contradiction; and that a function with the defining equation exists
at all is shown by giving, for each number, one that has it so far (`Recursion`,
`FoldExists`).

Only model-checked: `Termination` of `ActionList`, `BackupThreads` and
`Subprocesses`, `TimeoutKills` and `Cleared`, which are liveness under fairness;
and the six findings, which are behaviours. Every invariant and every action property
that a run checks is stated by a theorem.

## What is not modelled

* Dry runs (`--dry-run`): they change nothing.
* The choice of `--link-dest` candidates.
* Two attempts at one backup in the same second, which would have the same id:
  each backup of `BackupLifecycle` is attempted once, and `Reports` has no two
  backups of a volume on a device in one second.
* Runs that need the lock and have none configured; and in `BackupLifecycle` any
  runs that overlap: a lock file is configured. Runs without need of the lock
  read only, and what they read while another writes is not modelled.
* A crash takes along the commands that the program had started, in
  `BackupLifecycle`; an exception does not (`orphans`). `ProgramRun` has both.
* In `ProgramRun`: a file system mounted over a store that is a plain directory;
  the path of a program's working directory on a disk, which keeps it busy as the
  program itself does. In `BackupLifecycle` the fatal errors of
  `identifyDevices()` are runs that end early.
* In `ConfigFile`: how a line is split into words, and what arguments denote: the
  constants `Reading` and `Preset` say which, with the assumption that what is
  written of a value denotes the same value. The values of policy parameters are not
  validated.
* In `Reports`: elapsed times, colours, and the column "Oldest" of a volume that has
  lost all its complete backups. Days are those that have passed, without the
  slip of `Date::operator-`. Rows are deleted by a retirement before a run reads.
* The history graph, its layout and drawing, style sheets, mail; base64, Unicode,
  the conversions of dates, times and numbers; the dialogue of a retirement; the
  scripts in `src/tools`.
* Errors of `fork`, `dup2`, `close`, `pselect` and `wait4`, and the destructor of
  a subprocess, which kills it when an exception passes.
* A `decay-scale` that is not whole, windows of less than a day, and the
  rounding of the two logarithms that the code divides: `Bucket` is exact.

## Plan

The order was the core first: action lists and threads, the life of a backup,
what these take as given, commands and policies; then the program around them:
runs, configuration, records, reports and dates. What is left:

1. `PruneRun`: an action list with the actions of a prune, composed with rows,
   markers and trees, so that the steps of `BackupLifecycle` are those that
   `ActionList` allows; and an abstract "run a command" that `Subprocesses`
   implements.
2. The layout of the history graph (`HistoryGraph.cc`) and the order in which
   selections apply.
3. The values of policy parameters in `ConfigFile`, as `PrunePolicies` assumes them.

Theorems not there yet, with `PruneRun`: that memory and rows agree through it, from
the refinement, and that `Subprocesses` implements the abstract command.

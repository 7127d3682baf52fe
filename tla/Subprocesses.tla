----------------------------- MODULE Subprocesses -----------------------------
(***************************************************************************)
(* Commands run by rsbackup (src/src/Subprocess.cc), each on an event loop   *)
(* (src/src/EventLoop.cc) of the thread that runs it: hooks, checks, rsync.   *)
(* Threads fork in between each other's steps, so that a command inherits    *)
(* whatever pipes the program has open; and a command may leave an heir, a    *)
(* process of its own that keeps its output open.                           *)
(***************************************************************************)
EXTENDS Naturals

CONSTANTS
  Command,    \* the commands, each in a thread of its own
  Captured,   \* those whose output is captured
  Timed,      \* those with a timeout
  Hangs,      \* those that may never end by themselves
  Parents,    \* those that may leave an heir
  Lingering,  \* those whose heir never ends
  ThrowOn,    \* what wait() throws for: the WaitBehavior of each
  MaxOutput,  \* bound: the output of a command, in writes
  PipeSize    \* what a pipe holds, in writes

Outcome == {"ok", "error", "crash", "sigpipe"}

ASSUME SubprocessAssumption ==
  /\ Captured \subseteq Command /\ Timed \subseteq Command
  /\ Hangs \subseteq Command /\ Parents \subseteq Command
  /\ Lingering \subseteq Command
  /\ ThrowOn \in [Command -> SUBSET Outcome]
  /\ MaxOutput \in Nat
  /\ PipeSize \in Nat

VARIABLES
  pc,        \* where the thread of each command is
  proc,      \* the command's process
  heir,      \* the process it left behind
  pid,       \* Subprocess::pid is set
  status,    \* Subprocess::status
  reading,   \* EventLoop::readers has the capture
  waiting,   \* EventLoop::waiters has the process
  timer,     \* the entry in EventLoop::timeouts
  writers,   \* who holds the writing end of each command's pipe
  pipe,      \* what is in the pipe
  captured,  \* what has been appended to the string
  written,   \* history: what was written to the pipe
  fate,      \* history: how the process ended
  strayed    \* history: the commands whose kill() met a reaped process

vars == <<pc, proc, heir, pid, status, reading, waiting, timer, writers, pipe,
          captured, written, fate, strayed>>

processes == <<proc, heir, writers>>

loop == <<reading, waiting, timer>>

output == <<pipe, captured, written>>

(* Whoever can hold an end of a pipe: the program, a command, an heir.       *)
Program == <<"program">>
Child(c) == <<"child", c>>
Heir(c) == <<"heir", c>>

Holder == {Program} \cup UNION {{Child(c), Heir(c)} : c \in Command}

(* A process that has ended and waits to be reaped: proc is its outcome.      *)
Exited == Outcome

TypeOK ==
  /\ pc \in [Command -> {"idle", "captured", "forked", "loop", "sweep",
                         "returned", "threw"}]
  /\ proc \in [Command -> {"none", "alive", "reaped"} \cup Exited]
  /\ heir \in [Command -> {"none", "alive", "gone"}]
  /\ pid \in [Command -> BOOLEAN]
  /\ status \in [Command -> {"unset"} \cup Outcome]
  /\ reading \in [Command -> BOOLEAN]
  /\ waiting \in [Command -> BOOLEAN]
  /\ timer \in [Command -> {"off", "armed", "due"}]
  /\ writers \in [Command -> SUBSET Holder]
  /\ pipe \in [Command -> Nat]
  /\ captured \in [Command -> Nat]
  /\ written \in [Command -> Nat]
  /\ fate \in [Command -> {"unset"} \cup Outcome]
  /\ strayed \subseteq Command

Init ==
  /\ pc = [c \in Command |-> "idle"]
  /\ proc = [c \in Command |-> "none"]
  /\ heir = [c \in Command |-> "none"]
  /\ pid = [c \in Command |-> FALSE]
  /\ status = [c \in Command |-> "unset"]
  /\ reading = [c \in Command |-> FALSE]
  /\ waiting = [c \in Command |-> FALSE]
  /\ timer = [c \in Command |-> "off"]
  /\ writers = [c \in Command |-> {}]
  /\ pipe = [c \in Command |-> 0]
  /\ captured = [c \in Command |-> 0]
  /\ written = [c \in Command |-> 0]
  /\ fate = [c \in Command |-> "unset"]
  /\ strayed = {}

-----------------------------------------------------------------------------
(* capture(): a pipe, of which nothing is closed when a command is executed. *)
Capture(c) ==
  /\ pc[c] = "idle"
  /\ pc' = [pc EXCEPT ![c] = "captured"]
  /\ writers' = [writers EXCEPT ![c] = IF c \in Captured THEN {Program} ELSE {}]
  /\ UNCHANGED <<proc, heir, pid, status, loop, output, fate, strayed>>

(* launch(): fork() copies every descriptor of the program. The child closes *)
(* those of its own pipe that it does not use, not those of other threads.   *)
Launch(c) ==
  /\ pc[c] = "captured"
  /\ pc' = [pc EXCEPT ![c] = "forked"]
  /\ proc' = [proc EXCEPT ![c] = "alive"]
  /\ pid' = [pid EXCEPT ![c] = TRUE]
  /\ writers' = [d \in Command |-> IF Program \in writers[d]
                                     THEN writers[d] \cup {Child(c)}
                                     ELSE writers[d]]
  /\ UNCHANGED <<heir, status, loop, output, fate, strayed>>

(* Faulty: the program keeps its own writing end.                            *)
SetupOnly(c) ==
  /\ pc[c] = "forked"
  /\ pc' = [pc EXCEPT ![c] = "loop"]
  /\ reading' = IF c \in Captured THEN [reading EXCEPT ![c] = TRUE] ELSE reading
  /\ waiting' = [waiting EXCEPT ![c] = TRUE]
  /\ timer' = [timer EXCEPT ![c] = IF c \in Timed THEN "armed" ELSE "off"]
  /\ UNCHANGED <<processes, pid, status, output, fate, strayed>>

(* The end of launch(), where the program closes the ends it gave to the     *)
(* child, and setup().                                                      *)
Setup(c) ==
  /\ pc[c] = "forked"
  /\ pc' = [pc EXCEPT ![c] = "loop"]
  /\ writers' = [writers EXCEPT ![c] = @ \ {Program}]
  /\ reading' = IF c \in Captured THEN [reading EXCEPT ![c] = TRUE] ELSE reading
  /\ waiting' = [waiting EXCEPT ![c] = TRUE]
  /\ timer' = [timer EXCEPT ![c] = IF c \in Timed THEN "armed" ELSE "off"]
  /\ UNCHANGED <<proc, heir, pid, status, output, fate, strayed>>

-----------------------------------------------------------------------------
(* The condition of the loop in EventLoop::wait().                           *)
Looping(c) == pc[c] = "loop" /\ (reading[c] \/ waiting[c])

(* A process is gone, with the ends of pipes it held.                        *)
Leave(who) == [d \in Command |-> writers[d] \ {who}]

(* Faulty: timeouts are looked at only when nothing is left to read.         *)
TimeoutWhenQuiet(c) ==
  /\ Looping(c)
  /\ ~ reading[c]
  /\ timer[c] = "due"
  /\ timer' = [timer EXCEPT ![c] = "off"]
  /\ IF pid[c] /\ proc[c] = "alive"
       THEN /\ proc' = [proc EXCEPT ![c] = "crash"]
            /\ writers' = Leave(Child(c))
            /\ fate' = [fate EXCEPT ![c] = "crash"]
       ELSE UNCHANGED <<proc, writers, fate>>
  /\ UNCHANGED <<pc, heir, pid, status, reading, waiting, output, strayed>>

(* onTimeout(): the child is killed if there is one. The timer may be due    *)
(* when it has been reaped and its output is still being read.              *)
Timeout(c) ==
  /\ Looping(c)
  /\ timer[c] = "due"
  /\ timer' = [timer EXCEPT ![c] = "off"]
  /\ IF pid[c] /\ proc[c] = "alive"
       THEN /\ proc' = [proc EXCEPT ![c] = "crash"]
            /\ writers' = Leave(Child(c))
            /\ fate' = [fate EXCEPT ![c] = "crash"]
       ELSE UNCHANGED <<proc, writers, fate>>
  /\ strayed' = IF pid[c] /\ proc[c] = "reaped" THEN strayed \cup {c}
                                                 ELSE strayed
  /\ UNCHANGED <<pc, heir, pid, status, reading, waiting, output>>

(* Faulty: what is left in the pipe when the process has ended is dropped.    *)
ReadUntilExit(c) ==
  /\ Looping(c)
  /\ timer[c] # "due"
  /\ pc' = [pc EXCEPT ![c] = "sweep"]
  /\ IF reading[c] /\ proc[c] \in Exited
       THEN /\ reading' = [reading EXCEPT ![c] = FALSE]
            /\ UNCHANGED output
       ELSE IF reading[c] /\ pipe[c] > 0
       THEN /\ captured' = [captured EXCEPT ![c] = @ + pipe[c]]
            /\ pipe' = [pipe EXCEPT ![c] = 0]
            /\ UNCHANGED <<written, reading>>
       ELSE /\ reading' = IF writers[c] = {} THEN [reading EXCEPT ![c] = FALSE]
                                             ELSE reading
            /\ UNCHANGED output
  /\ UNCHANGED <<processes, pid, status, waiting, timer, fate, strayed>>

(* pselect() and what is readable: onReadable() appends some of it, and at    *)
(* the end of the file, when nobody can write, ends the capture.             *)
Read(c) ==
  /\ Looping(c)
  /\ timer[c] # "due"
  /\ pc' = [pc EXCEPT ![c] = "sweep"]
  /\ IF reading[c] /\ pipe[c] > 0
       THEN \E n \in 1 .. pipe[c] :
              /\ captured' = [captured EXCEPT ![c] = @ + n]
              /\ pipe' = [pipe EXCEPT ![c] = @ - n]
              /\ UNCHANGED <<written, reading>>
       ELSE /\ reading' = IF writers[c] = {} THEN [reading EXCEPT ![c] = FALSE]
                                             ELSE reading
            /\ UNCHANGED output
  /\ UNCHANGED <<processes, pid, status, waiting, timer, fate, strayed>>

(* Faulty: onWait() does not reset Subprocess::pid.                          *)
SweepKeepsPid(c) ==
  /\ pc[c] = "sweep"
  /\ pc' = [pc EXCEPT ![c] = "loop"]
  /\ IF waiting[c] /\ proc[c] \in Exited
       THEN /\ status' = [status EXCEPT ![c] = proc[c]]
            /\ proc' = [proc EXCEPT ![c] = "reaped"]
            /\ waiting' = [waiting EXCEPT ![c] = FALSE]
       ELSE UNCHANGED <<status, proc, waiting>>
  /\ UNCHANGED <<heir, pid, writers, reading, timer, output, fate, strayed>>

(* The sweep of wait4() over the waiters, and onWait().                      *)
Sweep(c) ==
  /\ pc[c] = "sweep"
  /\ pc' = [pc EXCEPT ![c] = "loop"]
  /\ IF waiting[c] /\ proc[c] \in Exited
       THEN /\ status' = [status EXCEPT ![c] = proc[c]]
            /\ pid' = [pid EXCEPT ![c] = FALSE]
            /\ proc' = [proc EXCEPT ![c] = "reaped"]
            /\ waiting' = [waiting EXCEPT ![c] = FALSE]
       ELSE UNCHANGED <<status, pid, proc, waiting>>
  /\ UNCHANGED <<heir, writers, reading, timer, output, fate, strayed>>

(* Faulty: the loop is over when nothing is left to read.                    *)
ReturnAtEndOfFile(c) ==
  /\ pc[c] = "loop"
  /\ ~ reading[c]
  /\ pc' = [pc EXCEPT ![c] = IF status[c] \in ThrowOn[c] THEN "threw"
                                                          ELSE "returned"]
  /\ pid' = [pid EXCEPT ![c] = FALSE]
  /\ UNCHANGED <<processes, status, loop, output, fate, strayed>>

(* Nothing is left to wait for, and the caller of wait() hears the outcome.   *)
Return(c) ==
  /\ pc[c] = "loop"
  /\ ~ Looping(c)
  /\ pc' = [pc EXCEPT ![c] = IF status[c] \in ThrowOn[c] THEN "threw"
                                                          ELSE "returned"]
  /\ pid' = [pid EXCEPT ![c] = FALSE]
  /\ UNCHANGED <<processes, status, loop, output, fate, strayed>>

Thread(c) ==
  \/ Capture(c) \/ Launch(c) \/ Setup(c)
  \/ Timeout(c) \/ Read(c) \/ Sweep(c) \/ Return(c)

-----------------------------------------------------------------------------
(* What the processes do. A process writes only to its own output; if it is   *)
(* the last to hold an end that it inherited, it does not know.              *)
Write(c) ==
  /\ written[c] < MaxOutput
  /\ pipe[c] < PipeSize
  /\ \/ proc[c] = "alive" /\ Child(c) \in writers[c]
     \/ heir[c] = "alive" /\ Heir(c) \in writers[c]
  /\ written' = [written EXCEPT ![c] = @ + 1]
  /\ pipe' = [pipe EXCEPT ![c] = @ + 1]
  /\ UNCHANGED <<pc, processes, pid, status, loop, captured, fate, strayed>>

Exit(c, outcome) ==
  /\ proc[c] = "alive"
  /\ proc' = [proc EXCEPT ![c] = outcome]
  /\ fate' = [fate EXCEPT ![c] = outcome]
  /\ writers' = Leave(Child(c))
  /\ UNCHANGED <<pc, heir, pid, status, loop, output, strayed>>

CloseOutput(c) ==
  /\ proc[c] = "alive"
  /\ Child(c) \in writers[c]
  /\ writers' = [writers EXCEPT ![c] = @ \ {Child(c)}]
  /\ UNCHANGED <<pc, proc, heir, pid, status, loop, output, fate, strayed>>

LeaveHeir(c) ==
  /\ c \in Parents
  /\ proc[c] = "alive"
  /\ heir[c] = "none"
  /\ heir' = [heir EXCEPT ![c] = "alive"]
  /\ writers' = [d \in Command |-> IF Child(c) \in writers[d]
                                     THEN writers[d] \cup {Heir(c)}
                                     ELSE writers[d]]
  /\ UNCHANGED <<pc, proc, pid, status, loop, output, fate, strayed>>

HeirEnds(c) ==
  /\ heir[c] = "alive"
  /\ c \notin Lingering
  /\ heir' = [heir EXCEPT ![c] = "gone"]
  /\ writers' = Leave(Heir(c))
  /\ UNCHANGED <<pc, proc, pid, status, loop, output, fate, strayed>>

TimePasses(c) ==
  /\ timer[c] = "armed"
  /\ timer' = [timer EXCEPT ![c] = "due"]
  /\ UNCHANGED <<pc, processes, pid, status, reading, waiting, output, fate,
                 strayed>>

Finished ==
  /\ \A c \in Command : pc[c] \in {"returned", "threw"}
  /\ UNCHANGED vars

Next ==
  \/ \E c \in Command :
       \/ Thread(c)
       \/ Write(c) \/ CloseOutput(c) \/ LeaveHeir(c) \/ HeirEnds(c)
       \/ \E outcome \in Outcome : Exit(c, outcome)
       \/ TimePasses(c)
  \/ Finished

Spec == Init /\ [][Next]_vars

(* The threads run, time passes, and processes end that can.                 *)
Fairness ==
  \A c \in Command :
    /\ WF_vars(Thread(c))
    /\ WF_vars(TimePasses(c))
    /\ WF_vars(HeirEnds(c))
    /\ c \notin Hangs => WF_vars(\E outcome \in Outcome : Exit(c, outcome))

FairSpec == Spec /\ Fairness

-----------------------------------------------------------------------------
Over(c) == pc[c] \in {"returned", "threw"}

(* All that was written to a captured output is in the string when wait()    *)
(* is over, in whatever order the exit, the end of the file and the timeout   *)
(* came, also when the command was killed or left an heir.                  *)
CaptureComplete ==
  \A c \in Captured : Over(c) => captured[c] = written[c]

(* The caller hears how the process ended, once it has ended, and leaves no   *)
(* zombie behind.                                                           *)
OutcomeReported ==
  \A c \in Command : Over(c) =>
    /\ proc[c] = "reaped"
    /\ status[c] = fate[c] /\ fate[c] # "unset"
    /\ pc[c] = "threw" <=> fate[c] \in ThrowOn[c]

(* No process is signalled by a pid that may have become somebody else's.     *)
NoStrayKill == strayed = {}

(* What every reachable state satisfies.                                    *)
Running(c) ==
  /\ pc[c] \in {"idle", "captured"} =>
       proc[c] = "none" /\ fate[c] = "unset" /\ status[c] = "unset"
  /\ pc[c] = "forked" => proc[c] \in {"alive"} \cup Exited
  /\ proc[c] = "none" => pc[c] \in {"idle", "captured"}
  /\ proc[c] = "alive" => fate[c] = "unset"
  /\ proc[c] \in Exited => fate[c] = proc[c]
  /\ proc[c] = "reaped" <=> status[c] # "unset"
  /\ proc[c] = "reaped" => status[c] = fate[c] /\ ~ pid[c]
  /\ pc[c] \in {"loop", "sweep"} => (waiting[c] <=> proc[c] # "reaped")
  /\ Over(c) => proc[c] = "reaped"

Capturing(c) ==
  /\ written[c] = captured[c] + pipe[c]
  /\ pc[c] \in {"idle", "captured", "forked"} => captured[c] = 0
  /\ c \notin Captured => writers[c] = {} /\ pipe[c] = 0
  /\ Over(c) => ~ reading[c]
  /\ ~ reading[c] /\ pc[c] \notin {"captured", "forked"} =>
       writers[c] = {} /\ pipe[c] = 0

Consistent ==
  /\ TypeOK
  /\ NoStrayKill
  /\ OutcomeReported
  /\ \A c \in Command : Running(c) /\ Capturing(c)

(* A command that exceeds its timeout ends, whatever it does and whoever      *)
(* else keeps its output open.                                              *)
TimeoutKills ==
  \A c \in Command :
    timer[c] = "due" /\ proc[c] = "alive" ~> proc[c] # "alive"

(* Every wait() is over one day, if the processes end that hold the pipes,    *)
(* or have a timeout.                                                       *)
Termination == <>(\A c \in Command : Over(c))

(* "Number of seconds after which to give up and kill child" (Subprocess.h),  *)
(* and "how long to wait before concluding a hook has hung" (rsbackup.5):    *)
(* when the time is over the caller goes on.                                *)
TimeoutGivesUp ==
  \A c \in Timed : timer[c] = "due" ~> Over(c)
=============================================================================

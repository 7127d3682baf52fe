------------------------- MODULE SubprocessesProofs -------------------------
(***************************************************************************)
(* Proofs about Subprocesses, for any commands, with any output, timeouts,   *)
(* heirs and places in which other threads fork.                            *)
(*                                                                         *)
(* The argument: what was written is in the pipe or in the string, and a     *)
(* capture that has ended has an empty pipe and no writer (Capturing): none   *)
(* can come back, since an end is only ever copied from one that is there.   *)
(* And a process is reaped by the sweep that stores its status and resets     *)
(* pid, once it has ended (Running).                                        *)
(***************************************************************************)
EXTENDS Subprocesses, TLAPS

USE SubprocessAssumption
    DEF Consistent, TypeOK, NoStrayKill, OutcomeReported, Running, Capturing,
        Over, Exited, Outcome, Looping, Leave, processes, loop, output

LEMMA HolderType ==
  /\ Program \in Holder
  /\ \A c \in Command : Child(c) \in Holder /\ Heir(c) \in Holder
BY DEF Holder

(* No command has been run.                                                 *)
LEMMA InitConsistent == Init => Consistent
BY DEF Init

(* The pipe is made, and the program alone holds its writing end.           *)
LEMMA CaptureConsistent ==
  ASSUME Consistent, NEW c \in Command, Capture(c)
  PROVE  Consistent'
<1>1. TypeOK'
  BY HolderType DEF Capture
<1>2. NoStrayKill' /\ OutcomeReported'
  BY DEF Capture
<1>3. ASSUME NEW d \in Command PROVE Running(d)'
  BY DEF Capture
<1>4. ASSUME NEW d \in Command PROVE Capturing(d)'
  BY DEF Capture
<1> QED
  BY <1>1, <1>2, <1>3, <1>4

(* A fork gives the child what the program holds, which is nothing of a pipe*)
(* whose end of file has been seen.                                         *)
LEMMA LaunchConsistent ==
  ASSUME Consistent, NEW c \in Command, Launch(c)
  PROVE  Consistent'
<1>1. TypeOK'
  BY HolderType DEF Launch
<1>2. NoStrayKill' /\ OutcomeReported'
  BY DEF Launch
<1>3. ASSUME NEW d \in Command PROVE Running(d)'
  BY DEF Launch
<1>4. ASSUME NEW d \in Command PROVE Capturing(d)'
  BY DEF Launch
<1> QED
  BY <1>1, <1>2, <1>3, <1>4

(* The program lets go of its end, and the capture is read from now on.     *)
LEMMA SetupConsistent ==
  ASSUME Consistent, NEW c \in Command, Setup(c)
  PROVE  Consistent'
<1>1. TypeOK'
  BY HolderType DEF Setup
<1>2. NoStrayKill' /\ OutcomeReported'
  BY DEF Setup
<1>3. ASSUME NEW d \in Command PROVE Running(d)'
  BY DEF Setup
<1>4. ASSUME NEW d \in Command PROVE Capturing(d)'
  BY DEF Setup
<1> QED
  BY <1>1, <1>2, <1>3, <1>4

(* The child is killed, if it has not been reaped: pid says so.             *)
LEMMA TimeoutConsistent ==
  ASSUME Consistent, NEW c \in Command, Timeout(c)
  PROVE  Consistent'
<1>1. TypeOK'
  <2>1. CASE pid[c] /\ proc[c] = "alive"
    <3>1. proc' \in [Command -> {"none", "alive", "reaped"} \cup Exited]
      BY <2>1 DEF Timeout
    <3>2. writers' \in [Command -> SUBSET Holder]
      BY <2>1 DEF Timeout
    <3>3. fate' \in [Command -> {"unset"} \cup Outcome]
      BY <2>1 DEF Timeout
    <3>4. timer' \in [Command -> {"off", "armed", "due"}]
      BY DEF Timeout
    <3>5. strayed' \subseteq Command
      BY <2>1 DEF Timeout
    <3> QED
      BY <3>1, <3>2, <3>3, <3>4, <3>5 DEF Timeout
  <2>2. CASE ~ (pid[c] /\ proc[c] = "alive")
    <3>1. strayed' \subseteq Command
      BY <2>2 DEF Timeout
    <3> QED
      BY <2>2, <3>1 DEF Timeout
  <2> QED
    BY <2>1, <2>2
<1>2. NoStrayKill' /\ OutcomeReported'
  BY DEF Timeout
<1>3. ASSUME NEW d \in Command PROVE Running(d)'
  BY DEF Timeout
<1>4. ASSUME NEW d \in Command PROVE Capturing(d)'
  BY DEF Timeout
<1> QED
  BY <1>1, <1>2, <1>3, <1>4

(* Some output moves from the pipe to the string; the capture ends only     *)
(* when the pipe is empty and nobody can fill it.                           *)
LEMMA ReadConsistent ==
  ASSUME Consistent, NEW c \in Command, Read(c)
  PROVE  Consistent'
<1>1. TypeOK'
  <2>1. CASE reading[c] /\ pipe[c] > 0
    <3>1. PICK n \in 1 .. pipe[c] :
            /\ captured' = [captured EXCEPT ![c] = @ + n]
            /\ pipe' = [pipe EXCEPT ![c] = @ - n]
      BY <2>1 DEF Read
    <3>2. captured[c] + n \in Nat /\ pipe[c] - n \in Nat
      OBVIOUS
    <3>3. captured' \in [Command -> Nat] /\ pipe' \in [Command -> Nat]
      BY <3>1, <3>2
    <3> QED
      BY <2>1, <3>3 DEF Read
  <2>2. CASE ~ (reading[c] /\ pipe[c] > 0)
    <3>1. reading' \in [Command -> BOOLEAN]
      <4>1. CASE writers[c] = {}
        <5>1. reading' = [reading EXCEPT ![c] = FALSE]
          BY <2>2, <4>1 DEF Read
        <5> QED
          BY <5>1
      <4>2. CASE writers[c] # {}
        <5>1. reading' = reading
          BY <2>2, <4>2 DEF Read
        <5> QED
          BY <5>1
      <4> QED
        BY <4>1, <4>2
    <3>2. UNCHANGED output
      BY <2>2 DEF Read
    <3>3. pc' \in [Command -> {"idle", "captured", "forked", "loop", "sweep",
                              "returned", "threw"}]
      BY DEF Read
    <3> QED
      BY <3>1, <3>2, <3>3 DEF Read
  <2> QED
    BY <2>1, <2>2
<1>2. NoStrayKill' /\ OutcomeReported'
  BY DEF Read
<1>3. ASSUME NEW d \in Command PROVE Running(d)'
  BY DEF Read
<1>4. ASSUME NEW d \in Command PROVE Capturing(d)'
  BY DEF Read
<1> QED
  BY <1>1, <1>2, <1>3, <1>4

(* The process is reaped, and the outcome is what it ended with.            *)
LEMMA SweepConsistent ==
  ASSUME Consistent, NEW c \in Command, Sweep(c)
  PROVE  Consistent'
<1>1. TypeOK'
  <2>1. CASE waiting[c] /\ proc[c] \in Exited
    <3>1. status' \in [Command -> {"unset"} \cup Outcome]
      BY <2>1 DEF Sweep
    <3>2. pid' \in [Command -> BOOLEAN] /\ waiting' \in [Command -> BOOLEAN]
      <4>1. /\ pid' = [pid EXCEPT ![c] = FALSE]
            /\ waiting' = [waiting EXCEPT ![c] = FALSE]
        BY <2>1 DEF Sweep
      <4> QED
        BY <4>1
    <3>3. proc' \in [Command -> {"none", "alive", "reaped"} \cup Exited]
      BY <2>1 DEF Sweep
    <3>4. pc' \in [Command -> {"idle", "captured", "forked", "loop", "sweep",
                              "returned", "threw"}]
      BY <2>1 DEF Sweep
    <3> QED
      BY <2>1, <3>1, <3>2, <3>3, <3>4 DEF Sweep
  <2>2. CASE ~ (waiting[c] /\ proc[c] \in Exited)
    BY <2>2 DEF Sweep
  <2> QED
    BY <2>1, <2>2
<1>2. NoStrayKill' /\ OutcomeReported'
  BY DEF Sweep
<1>3. ASSUME NEW d \in Command PROVE Running(d)'
  BY DEF Sweep
<1>4. ASSUME NEW d \in Command PROVE Capturing(d)'
  BY DEF Sweep
<1> QED
  BY <1>1, <1>2, <1>3, <1>4

(* The loop ends when there is neither a capture nor a process.             *)
LEMMA ReturnConsistent ==
  ASSUME Consistent, NEW c \in Command, Return(c)
  PROVE  Consistent'
<1>1. TypeOK'
  BY HolderType DEF Return
<1>2. NoStrayKill' /\ OutcomeReported'
  BY DEF Return
<1>3. ASSUME NEW d \in Command PROVE Running(d)'
  BY DEF Return
<1>4. ASSUME NEW d \in Command PROVE Capturing(d)'
  BY DEF Return
<1> QED
  BY <1>1, <1>2, <1>3, <1>4

(* The process ends, and with it goes what it held.                         *)
LEMMA ExitConsistent ==
  ASSUME Consistent, NEW c \in Command, NEW outcome \in Outcome, Exit(c, outcome)
  PROVE  Consistent'
<1>1. TypeOK'
  BY HolderType DEF Exit
<1>2. NoStrayKill' /\ OutcomeReported'
  BY DEF Exit
<1>3. ASSUME NEW d \in Command PROVE Running(d)'
  BY DEF Exit
<1>4. ASSUME NEW d \in Command PROVE Capturing(d)'
  BY DEF Exit
<1> QED
  BY <1>1, <1>2, <1>3, <1>4

(* Only somebody who holds the pipe writes, so that the capture is still read.*)
LEMMA WriteConsistent ==
  ASSUME Consistent, NEW c \in Command, Write(c)
  PROVE  Consistent'
<1>1. TypeOK'
  BY HolderType DEF Write
<1>2. NoStrayKill' /\ OutcomeReported'
  BY DEF Write
<1>3. ASSUME NEW d \in Command PROVE Running(d)'
  BY DEF Write
<1>4. ASSUME NEW d \in Command PROVE Capturing(d)'
  BY DEF Write
<1> QED
  BY <1>1, <1>2, <1>3, <1>4

(* A holder of the pipe lets go of it.                                      *)
LEMMA CloseOutputConsistent ==
  ASSUME Consistent, NEW c \in Command, CloseOutput(c)
  PROVE  Consistent'
<1>1. TypeOK'
  BY HolderType DEF CloseOutput
<1>2. NoStrayKill' /\ OutcomeReported'
  BY DEF CloseOutput
<1>3. ASSUME NEW d \in Command PROVE Running(d)'
  BY DEF CloseOutput
<1>4. ASSUME NEW d \in Command PROVE Capturing(d)'
  BY DEF CloseOutput
<1> QED
  BY <1>1, <1>2, <1>3, <1>4

(* An heir holds what the child holds.                                      *)
LEMMA LeaveHeirConsistent ==
  ASSUME Consistent, NEW c \in Command, LeaveHeir(c)
  PROVE  Consistent'
<1>1. TypeOK'
  BY HolderType DEF LeaveHeir
<1>2. NoStrayKill' /\ OutcomeReported'
  BY DEF LeaveHeir
<1>3. ASSUME NEW d \in Command PROVE Running(d)'
  BY DEF LeaveHeir
<1>4. ASSUME NEW d \in Command PROVE Capturing(d)'
  BY DEF LeaveHeir
<1> QED
  BY <1>1, <1>2, <1>3, <1>4

(* Another holder lets go.                                                  *)
LEMMA HeirEndsConsistent ==
  ASSUME Consistent, NEW c \in Command, HeirEnds(c)
  PROVE  Consistent'
<1>1. TypeOK'
  BY HolderType DEF HeirEnds
<1>2. NoStrayKill' /\ OutcomeReported'
  BY DEF HeirEnds
<1>3. ASSUME NEW d \in Command PROVE Running(d)'
  BY DEF HeirEnds
<1>4. ASSUME NEW d \in Command PROVE Capturing(d)'
  BY DEF HeirEnds
<1> QED
  BY <1>1, <1>2, <1>3, <1>4

(* Nothing but the timer changes.                                           *)
LEMMA TimePassesConsistent ==
  ASSUME Consistent, NEW c \in Command, TimePasses(c)
  PROVE  Consistent'
<1>1. TypeOK'
  BY HolderType DEF TimePasses
<1>2. NoStrayKill' /\ OutcomeReported'
  BY DEF TimePasses
<1>3. ASSUME NEW d \in Command PROVE Running(d)'
  BY DEF TimePasses
<1>4. ASSUME NEW d \in Command PROVE Capturing(d)'
  BY DEF TimePasses
<1> QED
  BY <1>1, <1>2, <1>3, <1>4

-----------------------------------------------------------------------------
(* The steps one by one.                                                    *)
LEMMA NextConsistent == Consistent /\ [Next]_vars => Consistent'
<1> SUFFICES ASSUME Consistent, [Next]_vars PROVE Consistent'
  OBVIOUS
<1>1. ASSUME NEW c \in Command, Thread(c)
      PROVE  Consistent'
  BY <1>1, CaptureConsistent, LaunchConsistent, SetupConsistent,
     TimeoutConsistent, ReadConsistent, SweepConsistent, ReturnConsistent
     DEF Thread
<1>2. ASSUME NEW c \in Command, NEW outcome \in Outcome, Exit(c, outcome)
      PROVE  Consistent'
  BY <1>2, ExitConsistent
<1>3. ASSUME NEW c \in Command, Write(c) \/ CloseOutput(c)
      PROVE  Consistent'
  BY <1>3, WriteConsistent, CloseOutputConsistent
<1>4. ASSUME NEW c \in Command, LeaveHeir(c) \/ HeirEnds(c)
      PROVE  Consistent'
  BY <1>4, LeaveHeirConsistent, HeirEndsConsistent
<1>5. ASSUME NEW c \in Command, TimePasses(c)
      PROVE  Consistent'
  BY <1>5, TimePassesConsistent
<1>6. CASE UNCHANGED vars
  BY <1>6 DEF vars
<1> QED
  BY <1>1, <1>2, <1>3, <1>4, <1>5, <1>6 DEF Next, Finished

THEOREM AlwaysConsistent == Spec => []Consistent
<1> QED
  BY InitConsistent, NextConsistent, PTL DEF Spec

(* The variables stay what they are declared to be.                         *)
THEOREM TypeCorrect == Spec => []TypeOK
<1>1. Consistent => TypeOK
  OBVIOUS
<1> QED
  BY <1>1, AlwaysConsistent, PTL

(* Whatever the order of exit, end of file, timeout and the forks of other    *)
(* threads, wait() returns (Subprocess.cc:220) with all the output that was   *)
(* written.                                                                 *)
THEOREM NothingLost == Spec => []CaptureComplete
<1>1. Consistent => CaptureComplete
  <2> SUFFICES ASSUME Consistent, NEW c \in Captured, Over(c)
               PROVE  captured[c] = written[c]
    BY DEF CaptureComplete
  <2>1. ~ reading[c] /\ pipe[c] = 0
    OBVIOUS
  <2> QED
    BY <2>1
<1> QED
  BY <1>1, AlwaysConsistent, PTL

(* wait() returns or throws by the outcome of the process, which it has       *)
(* reaped.                                                                  *)
THEOREM OutcomeKnown == Spec => []OutcomeReported
<1>1. Consistent => OutcomeReported
  BY DEF Consistent
<1> QED
  BY <1>1, AlwaysConsistent, PTL

(* onTimeout() (Subprocess.cc:185) signals no pid that has been reaped.       *)
THEOREM OnlyOwnKilled == Spec => []NoStrayKill
<1>1. Consistent => NoStrayKill
  BY DEF Consistent
<1> QED
  BY <1>1, AlwaysConsistent, PTL
=============================================================================

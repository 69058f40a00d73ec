---------------------------- MODULE ExternalLaunch ----------------------------
(***************************************************************************)
(* NF::PIEExternalLaunch: the editor runs the game as a child process and  *)
(* a monitor thread reads its output and reaps it.                         *)
(*                                                                         *)
(* Three actors.  The editor's thread calls launch, terminate,             *)
(* simulateExit and the destructor, one at a time; `ui' is where it is.    *)
(* The monitor thread runs monitorLoop; `mon' is where it is.  The child   *)
(* writes lines, closes its output and exits when it likes.  A launch is   *)
(* named by its number: m_launchCount, and its process if it has a real    *)
(* one.  A launch whose executable is not there is a stub without process. *)
(***************************************************************************)
EXTENDS Naturals, Sequences

CONSTANTS MaxLaunches,   \* bound on the calls of launch
          MaxLines       \* bound on the lines a child writes

ASSUME LaunchBounds == MaxLaunches \in Nat /\ MaxLines \in Nat

VARIABLES state, launchCount, lastExitCode, exitNotified, stopMonitor,
          nativePid,    \* launch whose process is not reaped, 0 for -1
          stdoutLines,  \* the launch each line came from
          ui, pidToKill, mon,
          monOf,        \* launch the monitor thread was started for
          child,        \* launch -> its process
          exitOf,       \* launch -> how its process ended
          signalled,    \* processes sent SIGTERM
          written,      \* launch -> lines written by its process
          pipe,         \* lines in the pipe
          told,         \* launch -> times onExited was called for it (history)
          late          \* launches that reset the flag before the monitor of
                        \* the previous one had tested it (history)

editor  == <<launchCount, ui, pidToKill>>
shared  == <<state, lastExitCode, exitNotified, stopMonitor, nativePid>>
process == <<child, exitOf, signalled, written>>
output  == <<stdoutLines, pipe>>
thread  == <<mon, monOf>>
vars == <<editor, shared, process, output, thread, told, late>>

Launches == 1 .. MaxLaunches
States == {"Idle", "Launching", "Running", "Exited", "Crashed"}
Codes  == {"zero", "nonzero", "signal", "stopped"}   \* "stopped" is the -1 of terminate

TypeOK ==
    /\ state \in States
    /\ launchCount \in 0 .. MaxLaunches
    /\ lastExitCode \in Codes
    /\ exitNotified \in BOOLEAN /\ stopMonitor \in BOOLEAN
    /\ nativePid \in 0 .. MaxLaunches
    /\ stdoutLines \in Seq(Launches)
    /\ ui \in {"idle", "reset", "clear", "start", "stop", "kill", "join", "reap",
               "notify", "destroy", "gone"}
    /\ pidToKill \in 0 .. MaxLaunches
    /\ mon \in {"none", "loop", "poll", "check", "wait", "record", "notify", "done"}
    /\ monOf \in 0 .. MaxLaunches
    /\ child \in [Launches -> {"none", "runs", "closed", "zombie", "reaped"}]
    /\ exitOf \in [Launches -> Codes]
    /\ signalled \subseteq Launches
    /\ written \in [Launches -> 0 .. MaxLines]
    /\ pipe \in Nat
    /\ told \in [Launches -> Nat]
    /\ late \subseteq Launches

Init ==
    /\ state = "Idle" /\ launchCount = 0 /\ lastExitCode = "zero"
    /\ exitNotified = FALSE /\ stopMonitor = FALSE
    /\ nativePid = 0
    /\ stdoutLines = <<>> /\ pipe = 0
    /\ ui = "idle" /\ pidToKill = 0
    /\ mon = "none" /\ monOf = 0
    /\ child = [n \in Launches |-> "none"]
    /\ exitOf = [n \in Launches |-> "zero"]
    /\ signalled = {}
    /\ written = [n \in Launches |-> 0]
    /\ told = [n \in Launches |-> 0]
    /\ late = {}

Lives(n) == child[n] \in {"runs", "closed"}

\* The thread object can be joined: the thread has returned or there is none.
Joinable == mon \in {"none", "done"}

\* exitNotified.exchange(true), and onExited if it was false (the slip does not
\* look at the old value).
NotifyAlways(n) ==
    /\ exitNotified' = TRUE
    /\ told' = [told EXCEPT ![n] = @ + 1]

NotifyOnce(n) ==
    /\ exitNotified' = TRUE
    /\ told' = IF exitNotified THEN told ELSE [told EXCEPT ![n] = @ + 1]

EndState(c) == IF c = "zero" THEN "Exited" ELSE "Crashed"

-----------------------------------------------------------------------------
(* launch.                                                                 *)

\* The slip counts a launch here and once more when its process runs.
CountedTwice == launchCount + 2
Counted == launchCount + 1

Launch ==
    /\ ui = "idle"
    /\ launchCount < MaxLaunches
    /\ state \notin {"Running", "Launching"}
    /\ state' = "Launching"
    /\ launchCount' = Counted
    /\ lastExitCode' = "zero"
    /\ ui' = "reset"
    /\ UNCHANGED <<pidToKill, exitNotified, stopMonitor, nativePid, process,
                   output, thread, told, late>>

\* A launch has not been reported yet (the slip keeps the flag of the last one).
KeptFlag == exitNotified
ClearedFlag == FALSE

ResetNotified ==
    /\ ui = "reset"
    /\ exitNotified' = ClearedFlag
    /\ late' = IF mon = "notify" THEN late \cup {launchCount} ELSE late
    /\ ui' = "clear"
    /\ UNCHANGED <<launchCount, pidToKill, state, lastExitCode, stopMonitor,
                   nativePid, process, output, thread, told>>

ClearLines ==
    /\ ui = "clear"
    /\ stdoutLines' = <<>>
    /\ ui' = "start"
    /\ UNCHANGED <<launchCount, pidToKill, shared, process, pipe, thread, told, late>>

\* pipe() fails before the old monitor is joined, fork() after it.
LaunchFails ==
    /\ ui = "start"
    /\ state' = "Idle"
    /\ ui' = "idle"
    /\ mon' \in IF Joinable THEN {mon, "none"} ELSE {mon}
    /\ UNCHANGED <<launchCount, pidToKill, lastExitCode, exitNotified, stopMonitor,
                   nativePid, process, output, monOf, told, late>>

\* The rest of launchPosix: join, fork, and only then a new monitor thread.
LaunchPosix ==
    /\ ui = "start"
    /\ Joinable
    /\ child' = [child EXCEPT ![launchCount] = "runs"]
    /\ nativePid' = launchCount
    /\ pipe' = 0
    /\ stopMonitor' = FALSE
    /\ state' = "Running"
    /\ mon' = "loop" /\ monOf' = launchCount
    /\ ui' = "idle"
    /\ UNCHANGED <<launchCount, pidToKill, lastExitCode, exitNotified, exitOf,
                   signalled, written, stdoutLines, told, late>>

\* The executable is not there: a synthetic pid and no thread.
LaunchStub ==
    /\ ui = "start"
    /\ Joinable
    /\ mon' = "none"
    /\ state' = "Running"
    /\ ui' = "idle"
    /\ UNCHANGED <<launchCount, pidToKill, lastExitCode, exitNotified, stopMonitor,
                   nativePid, process, output, monOf, told, late>>

-----------------------------------------------------------------------------
(* terminate, simulateExit and the destructor.                             *)

\* The state and the pid are read under the mutex and used after it.
Terminate ==
    /\ ui = "idle"
    /\ state \in {"Running", "Launching"}
    /\ pidToKill' = nativePid
    /\ IF nativePid > 0
       THEN ui' = "stop" /\ UNCHANGED <<state, lastExitCode>>
       ELSE ui' = "notify" /\ state' = "Exited" /\ lastExitCode' = "stopped"
    /\ UNCHANGED <<launchCount, exitNotified, stopMonitor, nativePid, process,
                   output, thread, told, late>>

StopMonitor ==
    /\ ui = "stop"
    /\ stopMonitor' = TRUE
    /\ ui' = "kill"
    /\ UNCHANGED <<launchCount, pidToKill, state, lastExitCode, exitNotified,
                   nativePid, process, output, thread, told, late>>

\* SIGTERM reaches the process if it still runs (the slip sends none).
NoneSignalled == signalled
Signalled == signalled \cup {pidToKill}

Kill ==
    /\ ui = "kill"
    /\ signalled' = Signalled
    /\ ui' = "join"
    /\ UNCHANGED <<launchCount, pidToKill, shared, child, exitOf, written,
                   output, thread, told, late>>

\* terminate joins the monitor before it looks at the process.
JoinMonitor ==
    /\ ui = "join"
    /\ Joinable
    /\ mon' = IF mon = "done" THEN "none" ELSE mon
    /\ ui' = "reap"
    /\ UNCHANGED <<launchCount, pidToKill, shared, process, output, monOf, told, late>>

\* The process is waited for if the monitor has not done so (the slip never does).
NeverReap == FALSE
LeftToReap == nativePid > 0

\* waitpid blocks, the mutex held, until the process is a zombie.
ReapChild ==
    /\ ui = "reap"
    /\ IF LeftToReap
       THEN /\ child[nativePid] = "zombie"
            /\ child' = [child EXCEPT ![nativePid] = "reaped"]
            /\ nativePid' = 0
       ELSE UNCHANGED <<child, nativePid>>
    /\ state' = "Exited"
    /\ lastExitCode' = "stopped"
    /\ ui' = "notify"
    /\ UNCHANGED <<launchCount, pidToKill, exitNotified, stopMonitor, exitOf,
                   signalled, written, output, thread, told, late>>

NotifyTerminated ==
    /\ ui = "notify"
    /\ NotifyOnce(IF pidToKill > 0 THEN pidToKill ELSE launchCount)
    /\ ui' = "idle"
    /\ UNCHANGED <<launchCount, pidToKill, state, lastExitCode, stopMonitor,
                   nativePid, process, output, thread, late>>

\* Callers keep to its comment and use it for a stub: the code itself tests the
\* state only.
SimulateExit(c) ==
    /\ ui = "idle"
    /\ nativePid = 0
    /\ state = "Running"
    /\ lastExitCode' = c
    /\ state' = EndState(c)
    /\ NotifyOnce(launchCount)
    /\ UNCHANGED <<editor, stopMonitor, nativePid, process, output, thread, late>>

\* The destructor stops the monitor first (the slip joins it as it is).
NotStopped == stopMonitor
Stopped == TRUE

Destroy ==
    /\ ui = "idle"
    /\ stopMonitor' = Stopped
    /\ ui' = "destroy"
    /\ UNCHANGED <<launchCount, pidToKill, state, lastExitCode, exitNotified,
                   nativePid, process, output, thread, told, late>>

FinishDestroy ==
    /\ ui = "destroy"
    /\ Joinable
    /\ mon' = "none"
    /\ ui' = "gone"
    /\ UNCHANGED <<launchCount, pidToKill, shared, process, output, monOf, told, late>>

-----------------------------------------------------------------------------
(* monitorLoop.                                                            *)

MonLoop ==
    /\ mon = "loop"
    /\ mon' = IF stopMonitor THEN "check" ELSE "poll"
    /\ UNCHANGED <<editor, shared, process, output, monOf, told, late>>

\* The pipe is at its end: the process has closed its output or exited.
AtEnd == ~(child[nativePid] = "runs")

Repeated(n, k) == [i \in 1 .. k |-> n]

\* POLLIN: some of the lines are read.
MonRead ==
    /\ mon = "poll"
    /\ ~AtEnd
    /\ \E k \in 1 .. pipe :
          /\ stdoutLines' = stdoutLines \o Repeated(monOf, k)
          /\ pipe' = pipe - k
    /\ mon' = "loop"
    /\ UNCHANGED <<editor, shared, process, monOf, told, late>>

MonTimeout ==
    /\ mon = "poll"
    /\ ~AtEnd /\ pipe = 0
    /\ mon' = "loop"
    /\ UNCHANGED <<editor, shared, process, output, monOf, told, late>>

\* POLLHUP: what is left is read first (the slip breaks at once).
Undrained == stdoutLines
Drained == stdoutLines \o Repeated(monOf, pipe)

MonHangup ==
    /\ mon = "poll"
    /\ AtEnd
    /\ stdoutLines' = Drained
    /\ pipe' = 0
    /\ mon' = "check"
    /\ UNCHANGED <<editor, shared, process, monOf, told, late>>

\* "If we stopped because stopMonitor was set, terminate() owns the cleanup"
\* (the slip leaves the cleanup to terminate in every case).
AlwaysOwned == TRUE
OwnedByTerminate == stopMonitor

MonCheck ==
    /\ mon = "check"
    /\ mon' = IF OwnedByTerminate THEN "done" ELSE "wait"
    /\ UNCHANGED <<editor, shared, process, output, monOf, told, late>>

MonWait ==
    /\ mon = "wait"
    /\ child[nativePid] = "zombie"
    /\ child' = [child EXCEPT ![nativePid] = "reaped"]
    /\ mon' = "record"
    /\ UNCHANGED <<editor, shared, exitOf, signalled, written, output, monOf, told, late>>

MonRecord ==
    /\ mon = "record"
    /\ lastExitCode' = exitOf[monOf]
    /\ state' = EndState(exitOf[monOf])
    /\ nativePid' = 0
    /\ mon' = "notify"
    /\ UNCHANGED <<editor, exitNotified, stopMonitor, process, output, monOf, told, late>>

MonNotify ==
    /\ mon = "notify"
    /\ NotifyOnce(monOf)
    /\ mon' = "done"
    /\ UNCHANGED <<editor, state, lastExitCode, stopMonitor, nativePid, process,
                   output, monOf, late>>

-----------------------------------------------------------------------------
(* The child process.                                                      *)

ChildWrites(n) ==
    /\ child[n] = "runs"
    /\ written[n] < MaxLines
    /\ written' = [written EXCEPT ![n] = @ + 1]
    /\ pipe' = pipe + 1
    /\ UNCHANGED <<editor, shared, child, exitOf, signalled, stdoutLines, thread, told, late>>

ChildCloses(n) ==
    /\ child[n] = "runs"
    /\ child' = [child EXCEPT ![n] = "closed"]
    /\ UNCHANGED <<editor, shared, exitOf, signalled, written, output, thread, told, late>>

ChildExits(n) ==
    /\ Lives(n)
    /\ child' = [child EXCEPT ![n] = "zombie"]
    /\ \E c \in {"zero", "nonzero"} \cup (IF n \in signalled THEN {"signal"} ELSE {}) :
          exitOf' = [exitOf EXCEPT ![n] = c]
    /\ UNCHANGED <<editor, shared, signalled, written, output, thread, told, late>>

-----------------------------------------------------------------------------
(* The program.                                                            *)

\* A call in progress goes on.
UiStep ==
    \/ ResetNotified \/ ClearLines \/ LaunchFails \/ LaunchPosix \/ LaunchStub
    \/ StopMonitor \/ Kill \/ JoinMonitor \/ ReapChild \/ NotifyTerminated
    \/ FinishDestroy

UiCall == Launch \/ Terminate \/ Destroy \/ \E c \in {"zero", "nonzero"} : SimulateExit(c)

Monitor ==
    \/ MonLoop \/ MonRead \/ MonTimeout \/ MonHangup
    \/ MonCheck \/ MonWait \/ MonRecord \/ MonNotify

Child == \E n \in Launches : ChildWrites(n) \/ ChildCloses(n) \/ ChildExits(n)

Next == UiCall \/ UiStep \/ Monitor \/ Child

Spec == Init /\ [][Next]_vars

\* Both threads are scheduled, and a game sent SIGTERM exits; nothing makes one
\* exit otherwise.
FairSpec ==
    /\ Spec
    /\ WF_vars(UiStep)
    /\ WF_vars(Monitor)
    /\ \A n \in Launches : WF_vars(n \in signalled /\ ChildExits(n))

-----------------------------------------------------------------------------
(* Properties.                                                             *)

\* The previous game is reaped before another is started, and a waitpid, of the
\* monitor or of terminate, is on a process that nobody has reaped.
ReapedByOne ==
    /\ \A n \in Launches : Lives(n) \/ child[n] = "zombie" => n = nativePid
    /\ mon \in {"loop", "poll", "check", "wait"} => nativePid = monOf /\ child[monOf] # "reaped"
    /\ ui = "reap" /\ nativePid > 0 => child[nativePid] # "reaped"

\* onExited is called at most once for a launch, although the monitor and
\* terminate may both be about to call it.
AtMostOneReport == \A n \in Launches : told[n] <= 1

\* Nothing is under way.
Quiet == ui = "idle" /\ Joinable

\* Once an ended launch is quiet its exit has been reported, unless the launch
\* cleared the flag while the monitor of the one before was still to test it.
ExitReported ==
    Quiet /\ launchCount > 0 /\ state \in {"Exited", "Crashed"} /\ launchCount \notin late
        => told[launchCount] = 1

\* Outside the first steps of launch the buffer holds lines of the current launch
\* only; and once its monitor is past the end of the pipe and has not been stopped,
\* all that its process has written: onExited never overtakes the output.
OutputBeforeExit ==
    /\ ui \notin {"reset", "clear"} => \A i \in DOMAIN stdoutLines : stdoutLines[i] = launchCount
    /\ mon \in {"wait", "record", "notify"} /\ monOf = launchCount
          => Len(stdoutLines) = written[monOf]

\* terminate returns.
TerminateReturns == ui = "stop" ~> ui = "idle"

\* The destructor returns, unless it finds the monitor already waiting for a game
\* that has closed its output and runs on.
DestructorReturns == (ui = "destroy" /\ mon # "wait") ~> (ui = "gone")

\* A game that has exited is reaped, by the monitor or by terminate, unless the
\* launcher is destroyed.
NoZombieStays ==
    \A n \in Launches : child[n] = "zombie" ~> (child[n] = "reaped" \/ ui = "gone")

-----------------------------------------------------------------------------
(* What the repository says of the launcher and the code does not do.      *)

\* "ensures onExited fires exactly once", for every launch that ends.
OnExitedExactlyOnce ==
    Quiet /\ launchCount > 0 /\ state \in {"Exited", "Crashed"} => told[launchCount] = 1
=============================================================================

------------------------- MODULE ExternalLaunchProofs -------------------------
(* TLAPS proofs about ExternalLaunch, for any number of launches and lines. *)
EXTENDS ExternalLaunch, TLAPS

Starting == {"reset", "clear", "start"}
Reading  == {"loop", "poll", "check", "wait", "record"}

\* There is one process that is not reaped, the one of the last launch.
Processes ==
    /\ \A n \in Launches : Lives(n) \/ child[n] = "zombie" => n = nativePid
    /\ nativePid > 0 => /\ nativePid = launchCount
                        /\ child[nativePid] # "none"
                        /\ child[nativePid] = "reaped" <=> mon = "record"
    /\ \A n \in Launches : n > launchCount \/ (n = launchCount /\ ui \in Starting)
          => child[n] = "none" /\ told[n] = 0 /\ written[n] = 0

\* The monitor works for that process, and is gone once terminate reaps it.
Threads ==
    /\ mon \in Reading => nativePid > 0 /\ monOf = nativePid
    /\ mon = "notify" => nativePid = 0 /\ monOf > 0 /\ state # "Running"
    /\ monOf <= launchCount
    /\ nativePid > 0 /\ Joinable => stopMonitor /\ ui \in {"kill", "join", "reap", "destroy", "gone"}
    /\ ui \in {"reap", "notify", "gone"} => Joinable
    /\ stopMonitor => Joinable \/ ui \in {"kill", "join", "destroy"}

\* Where a call of the editor is, and what it has found.
Calls ==
    /\ ui \in Starting <=> state = "Launching"
    /\ ui \in Starting => launchCount > 0 /\ monOf < launchCount
    /\ state \notin {"Running"} => nativePid = 0
    /\ state # "Idle" => launchCount > 0
    /\ ui \in {"stop", "kill", "join", "reap", "notify"}
          => pidToKill \in {0, launchCount} /\ launchCount > 0 /\ state # "Idle"
    /\ ui \in {"stop", "kill", "join", "reap"} => pidToKill > 0
    /\ ui = "notify" => nativePid = 0 /\ state = "Exited"

\* Who has called onExited, for which launch.
Reports ==
    /\ \A n \in Launches : told[n] <= 1
    /\ ~exitNotified /\ launchCount > 0 => told[launchCount] = 0
    /\ mon \in Reading \cup {"notify"} => told[monOf] = 0
    /\ exitNotified /\ launchCount > 0 /\ ui # "reset" /\ launchCount \notin late
          => told[launchCount] = 1
    /\ mon = "notify" /\ monOf # launchCount /\ ui # "reset" => launchCount \in late
    /\ state \in {"Exited", "Crashed"} => exitNotified \/ mon = "notify" \/ ui = "notify"

\* Where the lines of the last launch are.
Lines ==
    /\ ui \notin {"reset", "clear"} => \A i \in DOMAIN stdoutLines : stdoutLines[i] = launchCount
    /\ ui = "start" => stdoutLines = <<>>
    /\ mon \in Reading => Len(stdoutLines) + pipe = written[monOf]
    /\ mon = "check" /\ ~stopMonitor => pipe = 0 /\ child[monOf] # "runs"
    /\ mon \in {"wait", "record"} => pipe = 0 /\ child[monOf] # "runs"
    /\ mon = "notify" /\ monOf = launchCount => Len(stdoutLines) = written[monOf]

IInv == TypeOK /\ Processes /\ Threads /\ Calls /\ Reports /\ Lines

LEMMA InitIInv == Init => IInv
<1> SUFFICES ASSUME Init PROVE IInv
  OBVIOUS
<1>1. /\ state \in States /\ launchCount \in 0 .. MaxLaunches /\ nativePid \in 0 .. MaxLaunches
      /\ pidToKill \in 0 .. MaxLaunches /\ monOf \in 0 .. MaxLaunches
      /\ lastExitCode \in Codes
  BY LaunchBounds DEF Init, States, Codes
<1>2. /\ child \in [Launches -> {"none", "runs", "closed", "zombie", "reaped"}]
      /\ exitOf \in [Launches -> Codes]
      /\ told \in [Launches -> Nat]
  BY DEF Init, Codes
<1>3. written \in [Launches -> 0 .. MaxLines]
  BY LaunchBounds DEF Init
<1>4. TypeOK
  <2>1. stdoutLines \in Seq(Launches)
    BY DEF Init
  <2>2. signalled \subseteq Launches /\ late \subseteq Launches
    BY DEF Init
  <2>3. exitNotified \in BOOLEAN /\ stopMonitor \in BOOLEAN /\ pipe \in Nat
    BY DEF Init
  <2>4. ui = "idle" /\ mon = "none"
    BY DEF Init
  <2>5. QED
    BY <1>1, <1>2, <1>3, <2>1, <2>2, <2>3, <2>4 DEF TypeOK
<1>5. Processes /\ Threads
  BY DEF Init, Processes, Threads, Lives, Joinable, Starting, Reading
<1>6. Calls /\ Reports /\ Lines
  BY DEF Init, Calls, Reports, Lines, Starting, Reading
<1>7. QED
  BY <1>4, <1>5, <1>6 DEF IInv

\* The launches that calls, the monitor and the process are about.
LEMMA Numbers ==
    ASSUME IInv
    PROVE  /\ ui \in Starting \cup {"stop", "kill", "join", "reap", "notify"}
                 => launchCount \in Launches
           /\ ui \in {"stop", "kill", "join", "reap"} => pidToKill \in Launches
           /\ ui = "notify" => pidToKill \in {0, launchCount}
           /\ state # "Idle" => launchCount \in Launches
           /\ nativePid > 0 => nativePid \in Launches
           /\ mon \in Reading => nativePid \in Launches /\ monOf \in Launches
           /\ mon = "notify" => monOf \in Launches
BY LaunchBounds
   DEF IInv, TypeOK, Processes, Threads, Calls, Launches, Starting, Reading

\* What a read appends to the lines.
LEMMA Appended ==
    ASSUME NEW n \in Launches, NEW k \in Nat, stdoutLines \in Seq(Launches)
    PROVE  /\ stdoutLines \o Repeated(n, k) \in Seq(Launches)
           /\ Len(stdoutLines \o Repeated(n, k)) = Len(stdoutLines) + k
           /\ \A i \in DOMAIN (stdoutLines \o Repeated(n, k)) :
                 \/ (stdoutLines \o Repeated(n, k))[i] = n
                 \/ /\ i \in DOMAIN stdoutLines
                    /\ (stdoutLines \o Repeated(n, k))[i] = stdoutLines[i]
<1>1. Repeated(n, k) \in Seq(Launches) /\ Len(Repeated(n, k)) = k
  BY DEF Repeated
<1>2. \A i \in 1 .. k : Repeated(n, k)[i] = n
  BY DEF Repeated
<1>3. QED
  BY <1>1, <1>2

-----------------------------------------------------------------------------
(* Every step keeps the invariant.                                        *)

\* Every step keeps the types.
LEMMA NextTypeOK == IInv /\ [Next]_vars => TypeOK'
<1> SUFFICES ASSUME IInv, [Next]_vars PROVE TypeOK'
  OBVIOUS
<1>0. TypeOK
  BY DEF IInv
<1>a. /\ ui \in Starting \cup {"stop", "kill", "join", "reap", "notify"} => launchCount \in Launches
      /\ ui \in {"stop", "kill", "join", "reap"} => pidToKill \in Launches
      /\ ui = "notify" => pidToKill \in {0, launchCount}
      /\ state # "Idle" => launchCount \in Launches
      /\ nativePid > 0 => nativePid \in Launches
      /\ mon \in Reading => nativePid \in Launches /\ monOf \in Launches
      /\ mon = "notify" => monOf \in Launches
  BY Numbers
<1> USE DEF editor, shared, process, output, thread, TypeOK, States, Codes, Starting,
            Reading
<1>1. CASE Launch
  BY <1>1, <1>0, <1>a, LaunchBounds DEF Launch, Counted, Launches
<1>2. CASE ResetNotified
  BY <1>2, <1>0, <1>a, LaunchBounds DEF ResetNotified, ClearedFlag
<1>3. CASE ClearLines
  BY <1>3, <1>0, <1>a, LaunchBounds DEF ClearLines
<1>4. CASE LaunchFails
  BY <1>4, <1>0, <1>a, LaunchBounds DEF LaunchFails, Joinable
<1>5. CASE LaunchPosix
  <2>1. launchCount \in Launches
    BY <1>5, <1>a DEF LaunchPosix
  <2>2. child' \in [Launches -> {"none", "runs", "closed", "zombie", "reaped"}]
    BY <1>5, <1>0 DEF LaunchPosix
  <2>3. nativePid' \in 0 .. MaxLaunches /\ monOf' \in 0 .. MaxLaunches
    BY <1>5, <2>1, LaunchBounds DEF LaunchPosix, Launches
  <2>4. pipe' \in Nat
    BY <1>5, LaunchBounds DEF LaunchPosix
  <2>5. QED
    BY <1>5, <1>0, <2>2, <2>3, <2>4 DEF LaunchPosix
<1>6. CASE LaunchStub
  BY <1>6, <1>0, <1>a, LaunchBounds DEF LaunchStub, Joinable
<1>7. CASE Terminate
  BY <1>7, <1>0, <1>a, LaunchBounds DEF Terminate, Launches
<1>8. CASE StopMonitor
  BY <1>8, <1>0, <1>a, LaunchBounds DEF StopMonitor
<1>9. CASE Kill
  BY <1>9, <1>0, <1>a, LaunchBounds DEF Kill, Signalled
<1>10. CASE JoinMonitor
  BY <1>10, <1>0, <1>a, LaunchBounds DEF JoinMonitor, Joinable
<1>11. CASE ReapChild
  <2>1. child' \in [Launches -> {"none", "runs", "closed", "zombie", "reaped"}]
    BY <1>11, <1>0 DEF ReapChild
  <2>2. nativePid' \in 0 .. MaxLaunches
    BY <1>11, <1>0, LaunchBounds DEF ReapChild
  <2>3. QED
    BY <1>11, <1>0, <2>1, <2>2 DEF ReapChild
<1>12. CASE NotifyTerminated
  BY <1>12, <1>0, <1>a, LaunchBounds DEF NotifyTerminated, NotifyOnce
<1>13. CASE Destroy
  BY <1>13, <1>0, <1>a, LaunchBounds DEF Destroy, Stopped
<1>14. CASE FinishDestroy
  BY <1>14, <1>0, <1>a, LaunchBounds DEF FinishDestroy, Joinable
<1>15. CASE \E c \in {"zero", "nonzero"} : SimulateExit(c)
  BY <1>15, <1>0, <1>a, LaunchBounds DEF SimulateExit, NotifyOnce, EndState
<1>16. CASE MonLoop
  BY <1>16, <1>0, <1>a, LaunchBounds DEF MonLoop
<1>17. CASE MonRead
  <2>1. PICK k \in 1 .. pipe : stdoutLines' = stdoutLines \o Repeated(monOf, k) /\ pipe' = pipe - k
    BY <1>17 DEF MonRead
  <2>2. stdoutLines' \in Seq(Launches)
    BY <1>17, <1>0, <1>a, <2>1, Appended DEF MonRead
  <2>3. pipe' \in Nat
    BY <1>0, <2>1
  <2>4. QED
    BY <1>17, <1>0, <2>2, <2>3 DEF MonRead
<1>18. CASE MonTimeout
  BY <1>18, <1>0, <1>a, LaunchBounds DEF MonTimeout, AtEnd, Launches
<1>19. CASE MonHangup
  BY <1>19, <1>0, <1>a, LaunchBounds DEF MonHangup, AtEnd, Drained, Repeated, Launches
<1>20. CASE MonCheck
  BY <1>20, <1>0, <1>a, LaunchBounds DEF MonCheck, OwnedByTerminate
<1>21. CASE MonWait
  BY <1>21, <1>0, <1>a, LaunchBounds DEF MonWait
<1>22. CASE MonRecord
  BY <1>22, <1>0, <1>a, LaunchBounds DEF MonRecord, EndState
<1>23. CASE MonNotify
  BY <1>23, <1>0, <1>a, LaunchBounds DEF MonNotify, NotifyOnce
<1>24. ASSUME NEW n \in Launches, ChildWrites(n) PROVE TypeOK'
  BY <1>24, <1>0, <1>a, LaunchBounds DEF ChildWrites
<1>25. ASSUME NEW n \in Launches, ChildCloses(n) PROVE TypeOK'
  BY <1>25, <1>0, <1>a, LaunchBounds DEF ChildCloses
<1>26. ASSUME NEW n \in Launches, ChildExits(n) PROVE TypeOK'
  BY <1>26, <1>0, <1>a, LaunchBounds DEF ChildExits, Lives, Launches
<1>27. CASE UNCHANGED vars
  BY <1>27, <1>0, <1>a, LaunchBounds DEF vars
<1>28. QED
  BY <1>1, <1>2, <1>3, <1>4, <1>5, <1>6, <1>7, <1>8, <1>9, <1>10, <1>11, <1>12, <1>13,
    <1>14, <1>15, <1>16, <1>17, <1>18, <1>19, <1>20, <1>21, <1>22, <1>23, <1>24, <1>25,
    <1>26, <1>27 DEF Next, UiCall, UiStep, Monitor, Child

\* Every step leaves one process to reap at most.
LEMMA NextProcesses == IInv /\ [Next]_vars => Processes'
<1> SUFFICES ASSUME IInv, [Next]_vars PROVE Processes'
  OBVIOUS
<1> USE DEF editor, shared, process, output, thread, IInv, TypeOK, Processes, Threads,
            Calls, Joinable, Lives, Launches, Starting, Reading
<1>1. CASE Launch
  BY <1>1, LaunchBounds DEF Launch, Counted
<1>2. CASE ResetNotified
  BY <1>2, LaunchBounds DEF ResetNotified, ClearedFlag
<1>3. CASE ClearLines
  BY <1>3, LaunchBounds DEF ClearLines
<1>4. CASE LaunchFails
  BY <1>4, LaunchBounds DEF LaunchFails
<1>5. CASE LaunchPosix
  BY <1>5, LaunchBounds DEF LaunchPosix
<1>6. CASE LaunchStub
  BY <1>6, LaunchBounds DEF LaunchStub
<1>7. CASE Terminate
  BY <1>7, LaunchBounds DEF Terminate
<1>8. CASE StopMonitor
  BY <1>8, LaunchBounds DEF StopMonitor
<1>9. CASE Kill
  BY <1>9, LaunchBounds DEF Kill, Signalled
<1>10. CASE JoinMonitor
  BY <1>10, LaunchBounds DEF JoinMonitor
<1>11. CASE ReapChild
  <2>1. CASE nativePid > 0
    BY <1>11, <2>1, LaunchBounds DEF ReapChild, LeftToReap
  <2>2. CASE ~ (nativePid > 0)
    BY <1>11, <2>2, LaunchBounds DEF ReapChild, LeftToReap
  <2>3. QED
    BY <2>1, <2>2
<1>12. CASE NotifyTerminated
  BY <1>12, LaunchBounds DEF NotifyTerminated, NotifyOnce
<1>13. CASE Destroy
  BY <1>13, LaunchBounds DEF Destroy, Stopped
<1>14. CASE FinishDestroy
  BY <1>14, LaunchBounds DEF FinishDestroy
<1>15. CASE \E c \in {"zero", "nonzero"} : SimulateExit(c)
  BY <1>15, LaunchBounds DEF SimulateExit, NotifyOnce, EndState
<1>16. CASE MonLoop
  BY <1>16, LaunchBounds DEF MonLoop
<1>17. CASE MonRead
  BY <1>17, LaunchBounds DEF MonRead, AtEnd, Repeated
<1>18. CASE MonTimeout
  BY <1>18, LaunchBounds DEF MonTimeout, AtEnd
<1>19. CASE MonHangup
  BY <1>19, LaunchBounds DEF MonHangup, AtEnd, Drained, Repeated
<1>20. CASE MonCheck
  BY <1>20, LaunchBounds DEF MonCheck, OwnedByTerminate
<1>21. CASE MonWait
  BY <1>21, LaunchBounds DEF MonWait
<1>22. CASE MonRecord
  BY <1>22, LaunchBounds DEF MonRecord, EndState
<1>23. CASE MonNotify
  BY <1>23, LaunchBounds DEF MonNotify, NotifyOnce
<1>24. ASSUME NEW n \in Launches, ChildWrites(n) PROVE Processes'
  BY <1>24, LaunchBounds DEF ChildWrites
<1>25. ASSUME NEW n \in Launches, ChildCloses(n) PROVE Processes'
  BY <1>25, LaunchBounds DEF ChildCloses
<1>26. ASSUME NEW n \in Launches, ChildExits(n) PROVE Processes'
  BY <1>26, LaunchBounds DEF ChildExits
<1>27. CASE UNCHANGED vars
  BY <1>27, LaunchBounds DEF vars
<1>28. QED
  BY <1>1, <1>2, <1>3, <1>4, <1>5, <1>6, <1>7, <1>8, <1>9, <1>10, <1>11, <1>12, <1>13,
    <1>14, <1>15, <1>16, <1>17, <1>18, <1>19, <1>20, <1>21, <1>22, <1>23, <1>24, <1>25,
    <1>26, <1>27 DEF Next, UiCall, UiStep, Monitor, Child

\* Every step keeps the monitor on that process.
LEMMA NextThreads == IInv /\ [Next]_vars => Threads'
<1> SUFFICES ASSUME IInv, [Next]_vars PROVE Threads'
  OBVIOUS
<1> USE DEF editor, shared, process, output, thread, IInv, TypeOK, Processes, Threads,
            Calls, Joinable, Starting, Reading
<1>1. CASE Launch
  BY <1>1, LaunchBounds DEF Launch, Counted
<1>2. CASE ResetNotified
  BY <1>2, LaunchBounds DEF ResetNotified, ClearedFlag
<1>3. CASE ClearLines
  BY <1>3, LaunchBounds DEF ClearLines
<1>4. CASE LaunchFails
  BY <1>4, LaunchBounds DEF LaunchFails
<1>5. CASE LaunchPosix
  BY <1>5, LaunchBounds DEF LaunchPosix
<1>6. CASE LaunchStub
  BY <1>6, LaunchBounds DEF LaunchStub
<1>7. CASE Terminate
  BY <1>7, LaunchBounds DEF Terminate
<1>8. CASE StopMonitor
  BY <1>8, LaunchBounds DEF StopMonitor
<1>9. CASE Kill
  BY <1>9, LaunchBounds DEF Kill, Signalled
<1>10. CASE JoinMonitor
  BY <1>10, LaunchBounds DEF JoinMonitor
<1>11. CASE ReapChild
  BY <1>11, LaunchBounds DEF ReapChild, LeftToReap
<1>12. CASE NotifyTerminated
  BY <1>12, LaunchBounds DEF NotifyTerminated, NotifyOnce
<1>13. CASE Destroy
  BY <1>13, LaunchBounds DEF Destroy, Stopped
<1>14. CASE FinishDestroy
  BY <1>14, LaunchBounds DEF FinishDestroy
<1>15. CASE \E c \in {"zero", "nonzero"} : SimulateExit(c)
  BY <1>15, LaunchBounds DEF SimulateExit, NotifyOnce, EndState
<1>16. CASE MonLoop
  BY <1>16, LaunchBounds DEF MonLoop
<1>17. CASE MonRead
  BY <1>17, LaunchBounds DEF MonRead, AtEnd, Repeated
<1>18. CASE MonTimeout
  BY <1>18, LaunchBounds DEF MonTimeout, AtEnd
<1>19. CASE MonHangup
  BY <1>19, LaunchBounds DEF MonHangup, AtEnd, Drained, Repeated
<1>20. CASE MonCheck
  BY <1>20, LaunchBounds DEF MonCheck, OwnedByTerminate
<1>21. CASE MonWait
  BY <1>21, LaunchBounds DEF MonWait
<1>22. CASE MonRecord
  BY <1>22, LaunchBounds DEF MonRecord, EndState
<1>23. CASE MonNotify
  BY <1>23, LaunchBounds DEF MonNotify, NotifyOnce
<1>24. ASSUME NEW n \in Launches, ChildWrites(n) PROVE Threads'
  BY <1>24, LaunchBounds DEF ChildWrites
<1>25. ASSUME NEW n \in Launches, ChildCloses(n) PROVE Threads'
  BY <1>25, LaunchBounds DEF ChildCloses
<1>26. ASSUME NEW n \in Launches, ChildExits(n) PROVE Threads'
  BY <1>26, LaunchBounds DEF ChildExits, Lives
<1>27. CASE UNCHANGED vars
  BY <1>27, LaunchBounds DEF vars
<1>28. QED
  BY <1>1, <1>2, <1>3, <1>4, <1>5, <1>6, <1>7, <1>8, <1>9, <1>10, <1>11, <1>12, <1>13,
    <1>14, <1>15, <1>16, <1>17, <1>18, <1>19, <1>20, <1>21, <1>22, <1>23, <1>24, <1>25,
    <1>26, <1>27 DEF Next, UiCall, UiStep, Monitor, Child

\* Every step keeps a call of the editor where its guards put it.
LEMMA NextCalls == IInv /\ [Next]_vars => Calls'
<1> SUFFICES ASSUME IInv, [Next]_vars PROVE Calls'
  OBVIOUS
<1> USE DEF editor, shared, process, output, thread, IInv, TypeOK, Threads, Calls,
            Starting, Reading
<1>1. CASE Launch
  BY <1>1, LaunchBounds DEF Launch, Counted
<1>2. CASE ResetNotified
  BY <1>2, LaunchBounds DEF ResetNotified, ClearedFlag
<1>3. CASE ClearLines
  BY <1>3, LaunchBounds DEF ClearLines
<1>4. CASE LaunchFails
  BY <1>4, LaunchBounds DEF LaunchFails, Joinable
<1>5. CASE LaunchPosix
  BY <1>5, LaunchBounds DEF LaunchPosix, Joinable
<1>6. CASE LaunchStub
  BY <1>6, LaunchBounds DEF LaunchStub, Joinable
<1>7. CASE Terminate
  BY <1>7, LaunchBounds DEF Terminate, Processes
<1>8. CASE StopMonitor
  BY <1>8, LaunchBounds DEF StopMonitor
<1>9. CASE Kill
  BY <1>9, LaunchBounds DEF Kill, Signalled
<1>10. CASE JoinMonitor
  BY <1>10, LaunchBounds DEF JoinMonitor, Joinable
<1>11. CASE ReapChild
  BY <1>11, LaunchBounds DEF ReapChild, LeftToReap
<1>12. CASE NotifyTerminated
  BY <1>12, LaunchBounds DEF NotifyTerminated, NotifyOnce
<1>13. CASE Destroy
  BY <1>13, LaunchBounds DEF Destroy, Stopped
<1>14. CASE FinishDestroy
  BY <1>14, LaunchBounds DEF FinishDestroy, Joinable
<1>15. CASE \E c \in {"zero", "nonzero"} : SimulateExit(c)
  BY <1>15, LaunchBounds DEF SimulateExit, NotifyOnce, EndState
<1>16. CASE MonLoop
  BY <1>16, LaunchBounds DEF MonLoop
<1>17. CASE MonRead
  BY <1>17, LaunchBounds DEF MonRead, AtEnd, Repeated
<1>18. CASE MonTimeout
  BY <1>18, LaunchBounds DEF MonTimeout, AtEnd
<1>19. CASE MonHangup
  BY <1>19, LaunchBounds DEF MonHangup, AtEnd, Drained, Repeated
<1>20. CASE MonCheck
  BY <1>20, LaunchBounds DEF MonCheck, OwnedByTerminate
<1>21. CASE MonWait
  BY <1>21, LaunchBounds DEF MonWait
<1>22. CASE MonRecord
  BY <1>22, LaunchBounds DEF MonRecord, EndState
<1>23. CASE MonNotify
  BY <1>23, LaunchBounds DEF MonNotify, NotifyOnce
<1>24. ASSUME NEW n \in Launches, ChildWrites(n) PROVE Calls'
  BY <1>24, LaunchBounds DEF ChildWrites
<1>25. ASSUME NEW n \in Launches, ChildCloses(n) PROVE Calls'
  BY <1>25, LaunchBounds DEF ChildCloses
<1>26. ASSUME NEW n \in Launches, ChildExits(n) PROVE Calls'
  BY <1>26, LaunchBounds DEF ChildExits, Lives
<1>27. CASE UNCHANGED vars
  BY <1>27, LaunchBounds DEF vars
<1>28. QED
  BY <1>1, <1>2, <1>3, <1>4, <1>5, <1>6, <1>7, <1>8, <1>9, <1>10, <1>11, <1>12, <1>13,
    <1>14, <1>15, <1>16, <1>17, <1>18, <1>19, <1>20, <1>21, <1>22, <1>23, <1>24, <1>25,
    <1>26, <1>27 DEF Next, UiCall, UiStep, Monitor, Child

\* Every step calls onExited for a launch that has not been reported.
LEMMA NextReports == IInv /\ [Next]_vars => Reports'
<1> SUFFICES ASSUME IInv, [Next]_vars PROVE Reports'
  OBVIOUS
<1> USE DEF editor, shared, process, output, thread, IInv, TypeOK, Processes, Threads,
            Calls, Reports, Joinable, Launches, Starting, Reading
<1>1. CASE Launch
  BY <1>1, LaunchBounds DEF Launch, Counted
<1>2. CASE ResetNotified
  BY <1>2, LaunchBounds DEF ResetNotified, ClearedFlag
<1>3. CASE ClearLines
  BY <1>3, LaunchBounds DEF ClearLines
<1>4. CASE LaunchFails
  BY <1>4, LaunchBounds DEF LaunchFails
<1>5. CASE LaunchPosix
  BY <1>5, LaunchBounds DEF LaunchPosix
<1>6. CASE LaunchStub
  BY <1>6, LaunchBounds DEF LaunchStub
<1>7. CASE Terminate
  BY <1>7, LaunchBounds DEF Terminate
<1>8. CASE StopMonitor
  BY <1>8, LaunchBounds DEF StopMonitor
<1>9. CASE Kill
  BY <1>9, LaunchBounds DEF Kill, Signalled
<1>10. CASE JoinMonitor
  BY <1>10, LaunchBounds DEF JoinMonitor
<1>11. CASE ReapChild
  BY <1>11, LaunchBounds DEF ReapChild, LeftToReap
<1>12. CASE NotifyTerminated
  BY <1>12, LaunchBounds DEF NotifyTerminated, NotifyOnce
<1>13. CASE Destroy
  BY <1>13, LaunchBounds DEF Destroy, Stopped
<1>14. CASE FinishDestroy
  BY <1>14, LaunchBounds DEF FinishDestroy
<1>15. CASE \E c \in {"zero", "nonzero"} : SimulateExit(c)
  BY <1>15, LaunchBounds DEF SimulateExit, NotifyOnce, EndState
<1>16. CASE MonLoop
  BY <1>16, LaunchBounds DEF MonLoop
<1>17. CASE MonRead
  BY <1>17, LaunchBounds DEF MonRead, AtEnd, Repeated
<1>18. CASE MonTimeout
  BY <1>18, LaunchBounds DEF MonTimeout, AtEnd
<1>19. CASE MonHangup
  BY <1>19, LaunchBounds DEF MonHangup, AtEnd, Drained, Repeated
<1>20. CASE MonCheck
  BY <1>20, LaunchBounds DEF MonCheck, OwnedByTerminate
<1>21. CASE MonWait
  BY <1>21, LaunchBounds DEF MonWait
<1>22. CASE MonRecord
  BY <1>22, LaunchBounds DEF MonRecord, EndState
<1>23. CASE MonNotify
  BY <1>23, LaunchBounds DEF MonNotify, NotifyOnce
<1>24. ASSUME NEW n \in Launches, ChildWrites(n) PROVE Reports'
  BY <1>24, LaunchBounds DEF ChildWrites
<1>25. ASSUME NEW n \in Launches, ChildCloses(n) PROVE Reports'
  BY <1>25, LaunchBounds DEF ChildCloses
<1>26. ASSUME NEW n \in Launches, ChildExits(n) PROVE Reports'
  BY <1>26, LaunchBounds DEF ChildExits, Lives
<1>27. CASE UNCHANGED vars
  BY <1>27, LaunchBounds DEF vars
<1>28. QED
  BY <1>1, <1>2, <1>3, <1>4, <1>5, <1>6, <1>7, <1>8, <1>9, <1>10, <1>11, <1>12, <1>13,
    <1>14, <1>15, <1>16, <1>17, <1>18, <1>19, <1>20, <1>21, <1>22, <1>23, <1>24, <1>25,
    <1>26, <1>27 DEF Next, UiCall, UiStep, Monitor, Child

\* Every step keeps the lines of the last launch together.
LEMMA NextLines == IInv /\ [Next]_vars => Lines'
<1> SUFFICES ASSUME IInv, [Next]_vars PROVE Lines'
  OBVIOUS
<1> USE DEF editor, shared, process, output, thread, IInv, TypeOK, Processes, Threads,
            Calls, Lines, Joinable, Lives, Starting, Reading, Launches
<1>1. CASE Launch
  BY <1>1, LaunchBounds DEF Launch, Counted
<1>2. CASE ResetNotified
  BY <1>2, LaunchBounds DEF ResetNotified, ClearedFlag
<1>3. CASE ClearLines
  BY <1>3, LaunchBounds DEF ClearLines
<1>4. CASE LaunchFails
  BY <1>4, LaunchBounds DEF LaunchFails
<1>5. CASE LaunchPosix
  BY <1>5, LaunchBounds DEF LaunchPosix
<1>6. CASE LaunchStub
  BY <1>6, LaunchBounds DEF LaunchStub
<1>7. CASE Terminate
  BY <1>7, LaunchBounds DEF Terminate
<1>8. CASE StopMonitor
  BY <1>8, LaunchBounds DEF StopMonitor
<1>9. CASE Kill
  BY <1>9, LaunchBounds DEF Kill, Signalled
<1>10. CASE JoinMonitor
  BY <1>10, LaunchBounds DEF JoinMonitor
<1>11. CASE ReapChild
  BY <1>11, LaunchBounds DEF ReapChild, LeftToReap
<1>12. CASE NotifyTerminated
  BY <1>12, LaunchBounds DEF NotifyTerminated, NotifyOnce
<1>13. CASE Destroy
  BY <1>13, LaunchBounds DEF Destroy, Stopped
<1>14. CASE FinishDestroy
  BY <1>14, LaunchBounds DEF FinishDestroy
<1>15. CASE \E c \in {"zero", "nonzero"} : SimulateExit(c)
  BY <1>15, LaunchBounds DEF SimulateExit, NotifyOnce, EndState
<1>16. CASE MonLoop
  BY <1>16, LaunchBounds DEF MonLoop
<1>17. CASE MonRead
  <2>1. PICK k \in 1 .. pipe : stdoutLines' = stdoutLines \o Repeated(monOf, k) /\ pipe' = pipe - k
    BY <1>17 DEF MonRead
  <2>2. monOf \in Launches /\ monOf = launchCount /\ ui \notin Starting
    BY <1>17, Numbers DEF MonRead, AtEnd
  <2>a. k \in Nat /\ stdoutLines \in Seq(Launches) /\ pipe \in Nat /\ Len(stdoutLines) \in Nat
    BY <2>1
  <2>b. \A i \in DOMAIN stdoutLines : stdoutLines[i] = launchCount
    BY <2>2
  <2> HIDE DEF IInv, TypeOK, Processes, Threads, Calls, Lines
  <2>3. Len(stdoutLines') + pipe' = Len(stdoutLines) + pipe
    <3>1. Len(stdoutLines \o Repeated(monOf, k)) = Len(stdoutLines) + k
      BY <2>2, <2>a, Appended
    <3>2. Len(stdoutLines') = Len(stdoutLines) + k /\ pipe' = pipe - k
      BY <2>1, <3>1
    <3>3. QED
      BY <2>a, <3>2
  <2>4. \A i \in DOMAIN stdoutLines' : stdoutLines'[i] = launchCount
    BY <2>1, <2>2, <2>a, <2>b, Appended
  <2>5. QED
    BY <1>17, <2>1, <2>2, <2>3, <2>4 DEF MonRead, IInv, TypeOK, Processes, Threads, Calls, Lines
<1>18. CASE MonTimeout
  BY <1>18, LaunchBounds DEF MonTimeout, AtEnd
<1>19. CASE MonHangup
  BY <1>19, LaunchBounds DEF MonHangup, AtEnd, Drained, Repeated
<1>20. CASE MonCheck
  BY <1>20, LaunchBounds DEF MonCheck, OwnedByTerminate
<1>21. CASE MonWait
  BY <1>21, LaunchBounds DEF MonWait
<1>22. CASE MonRecord
  BY <1>22, LaunchBounds DEF MonRecord, EndState
<1>23. CASE MonNotify
  BY <1>23, LaunchBounds DEF MonNotify, NotifyOnce
<1>24. ASSUME NEW n \in Launches, ChildWrites(n) PROVE Lines'
  BY <1>24, LaunchBounds DEF ChildWrites
<1>25. ASSUME NEW n \in Launches, ChildCloses(n) PROVE Lines'
  BY <1>25, LaunchBounds DEF ChildCloses
<1>26. ASSUME NEW n \in Launches, ChildExits(n) PROVE Lines'
  BY <1>26, LaunchBounds DEF ChildExits
<1>27. CASE UNCHANGED vars
  BY <1>27, LaunchBounds DEF vars
<1>28. QED
  BY <1>1, <1>2, <1>3, <1>4, <1>5, <1>6, <1>7, <1>8, <1>9, <1>10, <1>11, <1>12, <1>13,
    <1>14, <1>15, <1>16, <1>17, <1>18, <1>19, <1>20, <1>21, <1>22, <1>23, <1>24, <1>25,
    <1>26, <1>27 DEF Next, UiCall, UiStep, Monitor, Child

-----------------------------------------------------------------------------
(* The theorems.                                                           *)

LEMMA Invariance == Spec => []IInv
<1>1. IInv /\ [Next]_vars => IInv'
  BY NextTypeOK, NextProcesses, NextThreads, NextCalls, NextReports, NextLines DEF IInv
<1>2. QED
  BY InitIInv, <1>1, PTL DEF Spec

\* The variables keep their types.
THEOREM Typed == Spec => []TypeOK
BY Invariance, PTL DEF IInv

\* No process is left behind by a later launch, and each is waited for once,
\* whatever the order of the monitor's steps and terminate's.
THEOREM OneReaper == Spec => []ReapedByOne
<1>1. IInv => ReapedByOne
  <2> SUFFICES ASSUME IInv PROVE ReapedByOne
    OBVIOUS
  <2>1. mon \in {"loop", "poll", "check", "wait"}
           => nativePid = monOf /\ nativePid > 0 /\ child[nativePid] # "reaped"
    BY DEF IInv, Processes, Threads, Reading
  <2>2. ui = "reap" /\ nativePid > 0 => child[nativePid] # "reaped"
    BY DEF IInv, Processes, Threads, Joinable
  <2>3. QED
    BY <2>1, <2>2 DEF IInv, Processes, ReapedByOne
<1>2. QED
  BY Invariance, <1>1, PTL

\* Nobody hears twice of the end of a launch.
THEOREM ReportedAtMostOnce == Spec => []AtMostOneReport
<1>1. IInv => AtMostOneReport
  BY DEF IInv, Reports, AtMostOneReport
<1>2. QED
  BY Invariance, <1>1, PTL

\* A launch that has ended has been reported once all is quiet, unless it was
\* started while the monitor of the one before was about to report that one.
THEOREM EndReported == Spec => []ExitReported
<1>1. IInv => ExitReported
  BY DEF IInv, Reports, Calls, ExitReported, Quiet, Joinable, Starting
<1>2. QED
  BY Invariance, <1>1, PTL

\* The lines kept are those of the last launch, all of them when its exit is
\* reported.
THEOREM OutputComplete == Spec => []OutputBeforeExit
<1>1. IInv => OutputBeforeExit
  BY DEF IInv, TypeOK, Threads, Lines, OutputBeforeExit, Reading
<1>2. QED
  BY Invariance, <1>1, PTL
=============================================================================

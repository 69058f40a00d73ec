------------------------------ MODULE WatchLog -------------------------------
(***************************************************************************)
(* atlas_pipeline: WatchLog, the log file that tools append events to.     *)
(*                                                                         *)
(* Each process has one WatchLog object, whose mutex orders the threads of *)
(* that process; the file is common to all of them.  append_line holds the *)
(* mutex over an open in append mode and a writeln!, which reaches the     *)
(* unbuffered file as two writes: the line, then its newline.              *)
(***************************************************************************)
EXTENDS Integers, Sequences, FiniteSets

CONSTANTS Threads, Objects,  \* threads, WatchLog objects
          ObjectOf,          \* the object a thread appends to
          Lines,             \* the events, as the lines they print
          NL,                \* the newline
          Fragment,          \* part of a line, left by a write that failed
          Nobody,
          MaxAppends,        \* bound on the appends of a behaviour
          MaxFaults          \* bound on its failed calls and crashes

ASSUME ObjectAssumption == ObjectOf \in [Threads -> Objects]
ASSUME PieceAssumption  == NL \notin Lines /\ Fragment \notin Lines \cup {NL}
ASSUME NobodyAssumption == Nobody \notin Threads
ASSUME BoundAssumption  == MaxAppends \in Nat /\ MaxFaults \in Nat

VARIABLES file,     \* the pieces written, in order
          holder,   \* object -> the thread that holds its mutex, or Nobody
          pc,       \* where each thread is in append_line
          line,     \* thread -> the line it appends, NL before the first
          order,    \* the lines whose file was opened, in order (history)
          faults    \* failed calls and crashes so far (history)

vars == <<file, holder, pc, line, order, faults>>

\* Type invariant; a thread inside append_line holds the mutex of its object.
TypeOK ==
    /\ file \in Seq(Lines \cup {NL, Fragment})
    /\ holder \in [Objects -> Threads \cup {Nobody}]
    /\ pc \in [Threads -> {"idle", "locked", "opened", "written"}]
    /\ line \in [Threads -> Lines \cup {NL}]
    /\ order \in Seq(Lines)
    /\ faults \in 0 .. MaxFaults
    /\ \A t \in Threads : pc[t] # "idle" =>
          holder[ObjectOf[t]] = t /\ line[t] \in Lines

Init ==
    /\ file = <<>>
    /\ holder = [o \in Objects |-> Nobody]
    /\ pc = [t \in Threads |-> "idle"]
    /\ line = [t \in Threads |-> NL]
    /\ order = <<>>
    /\ faults = 0

\* The guard lives to the end of append_line.  The slip is to bind it to `_`,
\* which drops it at once.
GuardDropped(t) == holder
Guarded(t) == [holder EXCEPT ![ObjectOf[t]] = t]

Lock(t, l) ==
    /\ pc[t] = "idle"
    /\ holder[ObjectOf[t]] = Nobody
    /\ Len(order) < MaxAppends
    /\ holder' = Guarded(t)
    /\ pc' = [pc EXCEPT ![t] = "locked"]
    /\ line' = [line EXCEPT ![t] = l]
    /\ UNCHANGED <<file, order, faults>>

Open(t) ==
    /\ pc[t] = "locked"
    /\ pc' = [pc EXCEPT ![t] = "opened"]
    /\ order' = Append(order, line[t])
    /\ UNCHANGED <<file, holder, line, faults>>

WriteLine(t) ==
    /\ pc[t] = "opened"
    /\ pc' = [pc EXCEPT ![t] = "written"]
    /\ file' = Append(file, line[t])
    /\ UNCHANGED <<holder, line, order, faults>>

\* The end of append_line drops the guard.
Leave(t) ==
    /\ pc' = [pc EXCEPT ![t] = "idle"]
    /\ holder' = [holder EXCEPT ![ObjectOf[t]] = Nobody]

WriteNewline(t) ==
    /\ pc[t] = "written"
    /\ file' = Append(file, NL)
    /\ Leave(t)
    /\ UNCHANGED <<line, order, faults>>

Fault == faults < MaxFaults /\ faults' = faults + 1

\* An open or a write that fails ends append_line, which reports nothing; a
\* failed write of the line may leave a fragment of it.
CallFails(t) ==
    /\ pc[t] # "idle"
    /\ Fault
    /\ \/ UNCHANGED file
       \/ pc[t] = "opened" /\ file' = Append(file, Fragment)
    /\ Leave(t)
    /\ UNCHANGED <<line, order>>

\* A process dies and is started again with a WatchLog on the same path.
Crash(o) ==
    /\ Fault
    /\ pc' = [t \in Threads |-> IF ObjectOf[t] = o THEN "idle" ELSE pc[t]]
    /\ holder' = [holder EXCEPT ![o] = Nobody]
    /\ UNCHANGED <<file, line, order>>

Next ==
    \/ \E t \in Threads : \/ \E l \in Lines : Lock(t, l)
                          \/ Open(t)
                          \/ WriteLine(t)
                          \/ WriteNewline(t)
                          \/ CallFails(t)
    \/ \E o \in Objects : Crash(o)

Spec == Init /\ [][Next]_vars

-----------------------------------------------------------------------------
(* Properties.                                                             *)

\* The file holds the opened lines, each with its newline, in the order in
\* which their appends had the mutex.
LineByLine ==
    \A i \in DOMAIN file : IF i % 2 = 1
                           THEN /\ (i + 1) \div 2 \in DOMAIN order
                                /\ file[i] = order[(i + 1) \div 2]
                           ELSE file[i] = NL

OneObject == \A o, q \in Objects : o = q

\* While all threads append through one WatchLog and nothing has failed, the
\* log is line by line whatever the threads' interleaving.
OneObjectWhole == faults = 0 /\ OneObject => LineByLine

\* Two events on one line: a parser of the log loses both.
Merges == {i \in DOMAIN file : /\ i + 1 \in DOMAIN file
                               /\ file[i] # NL /\ file[i + 1] # NL}

\* Each failed call or crash of the only process spoils at most one line end:
\* what is appended after it is whole again.
FaultsMergeOnce ==
    OneObject => Cardinality(Merges) <= faults

-----------------------------------------------------------------------------
(* What the repository says of the log and the code does not do.           *)

\* "Append-only event log shared between all tools": the events of several
\* tools, each with its own WatchLog on the one file, stay apart.
SharedLogWhole == faults = 0 => Merges = {}
=============================================================================

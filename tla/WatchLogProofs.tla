--------------------------- MODULE WatchLogProofs ----------------------------
(* TLAPS proofs about WatchLog, for any threads, objects and lines.        *)
EXTENDS WatchLog, FiniteSetTheorems, TLAPS

\* Where the thread inside append_line stands in the log.
InStep ==
    /\ \A t \in Threads : pc[t] = "opened" =>
          /\ Len(order) > 0
          /\ Len(file) = 2 * Len(order) - 2
          /\ order[Len(order)] = line[t]
    /\ \A t \in Threads : pc[t] = "written" => Len(file) = 2 * Len(order) - 1
    /\ (\A t \in Threads : pc[t] \in {"idle", "locked"}) =>
          Len(file) = 2 * Len(order)

\* A mutex that has a holder is held by a thread of its own object.
HolderOK == \A o \in Objects, t \in Threads :
                holder[o] = t => ObjectOf[t] = o /\ pc[t] # "idle"

IInv == /\ TypeOK
        /\ HolderOK
        /\ faults = 0 /\ OneObject => LineByLine /\ InStep

-----------------------------------------------------------------------------
(* The type invariant.                                                     *)

LEMMA InitType == Init => TypeOK
BY ObjectAssumption, BoundAssumption DEF Init, TypeOK

LEMMA NextType == TypeOK /\ [Next]_vars => TypeOK'
<1> SUFFICES ASSUME TypeOK, [Next]_vars PROVE TypeOK'
  OBVIOUS
<1> USE ObjectAssumption, NobodyAssumption
<1>1. ASSUME NEW t \in Threads, NEW l \in Lines, Lock(t, l) PROVE TypeOK'
  BY <1>1 DEF TypeOK, Lock, Guarded
<1>2. ASSUME NEW t \in Threads, Open(t) PROVE TypeOK'
  BY <1>2 DEF TypeOK, Open
<1>3. ASSUME NEW t \in Threads, WriteLine(t) PROVE TypeOK'
  BY <1>3 DEF TypeOK, WriteLine
<1>4. ASSUME NEW t \in Threads, WriteNewline(t) PROVE TypeOK'
  BY <1>4 DEF TypeOK, WriteNewline, Leave
<1>5. ASSUME NEW t \in Threads, CallFails(t) PROVE TypeOK'
  <2>1. faults' \in 0 .. MaxFaults
    BY <1>5, BoundAssumption DEF TypeOK, CallFails, Fault
  <2>2. file' \in Seq(Lines \cup {NL, Fragment})
    BY <1>5 DEF TypeOK, CallFails
  <2>3. QED
    BY <1>5, <2>1, <2>2 DEF TypeOK, CallFails, Leave
<1>6. ASSUME NEW o \in Objects, Crash(o) PROVE TypeOK'
  <2>1. faults' \in 0 .. MaxFaults
    BY <1>6, BoundAssumption DEF TypeOK, Crash, Fault
  <2>2. QED
    BY <1>6, <2>1 DEF TypeOK, Crash
<1>7. CASE UNCHANGED vars
  BY <1>7 DEF TypeOK, vars
<1>8. QED
  BY <1>1, <1>2, <1>3, <1>4, <1>5, <1>6, <1>7 DEF Next

\* Every variable keeps its type, and a thread inside append_line holds the
\* mutex of its object.
THEOREM WatchLogTypeCorrect == Spec => []TypeOK
BY InitType, NextType, PTL DEF Spec

-----------------------------------------------------------------------------
(* The log of one object.                                                  *)

LEMMA NextHolder == TypeOK /\ HolderOK /\ [Next]_vars => HolderOK'
<1> SUFFICES ASSUME TypeOK, HolderOK, [Next]_vars PROVE HolderOK'
  OBVIOUS
<1> USE ObjectAssumption, NobodyAssumption
<1>1. ASSUME NEW t \in Threads, NEW l \in Lines, Lock(t, l) PROVE HolderOK'
  BY <1>1 DEF TypeOK, HolderOK, Lock, Guarded
<1>2. ASSUME NEW t \in Threads, Open(t) PROVE HolderOK'
  BY <1>2 DEF TypeOK, HolderOK, Open
<1>3. ASSUME NEW t \in Threads, WriteLine(t) PROVE HolderOK'
  BY <1>3 DEF TypeOK, HolderOK, WriteLine
<1>4. ASSUME NEW t \in Threads, WriteNewline(t) PROVE HolderOK'
  BY <1>4 DEF TypeOK, HolderOK, WriteNewline, Leave
<1>5. ASSUME NEW t \in Threads, CallFails(t) PROVE HolderOK'
  BY <1>5 DEF TypeOK, HolderOK, CallFails, Leave
<1>6. ASSUME NEW o \in Objects, Crash(o) PROVE HolderOK'
  BY <1>6 DEF TypeOK, HolderOK, Crash
<1>7. CASE UNCHANGED vars
  BY <1>7 DEF HolderOK, vars
<1>8. QED
  BY <1>1, <1>2, <1>3, <1>4, <1>5, <1>6, <1>7 DEF Next

\* With one object, only one thread is inside append_line.
LEMMA Alone ==
    ASSUME TypeOK, OneObject,
           NEW t \in Threads, pc[t] # "idle", NEW u \in Threads, pc[u] # "idle"
    PROVE  t = u
<1>1. ObjectOf[t] = ObjectOf[u]
  BY ObjectAssumption DEF OneObject
<1>2. QED
  BY <1>1 DEF TypeOK

LEMMA NextInStep ==
    ASSUME TypeOK, HolderOK, OneObject, LineByLine, InStep, [Next]_vars, faults' = 0
    PROVE  LineByLine' /\ InStep'
<1> USE ObjectAssumption, NobodyAssumption
<1>0. /\ Len(file) \in Nat /\ Len(order) \in Nat
      /\ file \in Seq(Lines \cup {NL, Fragment}) /\ order \in Seq(Lines)
      /\ pc \in [Threads -> {"idle", "locked", "opened", "written"}]
      /\ faults \in Nat
  BY BoundAssumption DEF TypeOK
<1>1. ASSUME NEW t \in Threads, NEW l \in Lines, Lock(t, l)
      PROVE  LineByLine' /\ InStep'
  <2>1. \A u \in Threads : pc[u] = "idle"
    BY <1>1 DEF Lock, TypeOK, OneObject
  <2>2. file' = file /\ order' = order /\ pc' = [pc EXCEPT ![t] = "locked"]
    BY <1>1 DEF Lock
  <2>3. QED
    BY <1>0, <2>1, <2>2 DEF LineByLine, InStep
<1>2. ASSUME NEW t \in Threads, Open(t) PROVE LineByLine' /\ InStep'
  <2>1. \A u \in Threads : u # t => pc[u] = "idle"
    BY <1>2, Alone DEF Open
  <2>2. Len(file) = 2 * Len(order)
    BY <1>2, <2>1 DEF Open, InStep
  <2>3. /\ file' = file /\ order' = Append(order, line[t]) /\ line' = line
        /\ pc' = [pc EXCEPT ![t] = "opened"]
        /\ line[t] \in Lines
    BY <1>2 DEF Open, TypeOK
  <2>4. /\ Len(order') = Len(order) + 1 /\ order'[Len(order) + 1] = line[t]
        /\ \A i \in DOMAIN order : i \in DOMAIN order' /\ order'[i] = order[i]
    BY <1>0, <2>3
  <2>5. LineByLine'
    BY <2>3, <2>4 DEF LineByLine
  <2>6. InStep'
    BY <1>0, <2>1, <2>2, <2>3, <2>4 DEF InStep
  <2>7. QED
    BY <2>5, <2>6
<1>3. ASSUME NEW t \in Threads, WriteLine(t) PROVE LineByLine' /\ InStep'
  <2>1. \A u \in Threads : u # t => pc[u] = "idle"
    BY <1>3, Alone DEF WriteLine
  <2>2. /\ Len(order) > 0 /\ Len(file) = 2 * Len(order) - 2
        /\ order[Len(order)] = line[t]
    BY <1>3 DEF WriteLine, InStep
  <2>3. /\ file' = Append(file, line[t]) /\ order' = order
        /\ pc' = [pc EXCEPT ![t] = "written"]
    BY <1>3 DEF WriteLine
  <2>4. /\ Len(file') = Len(file) + 1 /\ file'[Len(file) + 1] = line[t]
        /\ DOMAIN file' = DOMAIN file \cup {Len(file) + 1}
        /\ \A i \in DOMAIN file : file'[i] = file[i]
    BY <1>0, <1>3, <2>3 DEF TypeOK, WriteLine
  <2>5. /\ (Len(file) + 1) % 2 = 1
        /\ ((Len(file) + 1) + 1) \div 2 = Len(order)
        /\ Len(order) \in DOMAIN order
    BY <1>0, <2>2
  <2>6. LineByLine'
    BY <2>2, <2>3, <2>4, <2>5 DEF LineByLine
  <2>7. InStep'
    BY <1>0, <2>1, <2>2, <2>3, <2>4 DEF InStep
  <2>8. QED
    BY <2>6, <2>7
<1>4. ASSUME NEW t \in Threads, WriteNewline(t) PROVE LineByLine' /\ InStep'
  <2>1. \A u \in Threads : u # t => pc[u] = "idle"
    BY <1>4, Alone DEF WriteNewline
  <2>2. Len(file) = 2 * Len(order) - 1
    BY <1>4 DEF WriteNewline, InStep
  <2>3. /\ file' = Append(file, NL) /\ order' = order
        /\ pc' = [pc EXCEPT ![t] = "idle"]
    BY <1>4 DEF WriteNewline, Leave
  <2>4. /\ Len(file') = Len(file) + 1 /\ file'[Len(file) + 1] = NL
        /\ DOMAIN file' = DOMAIN file \cup {Len(file) + 1}
        /\ \A i \in DOMAIN file : file'[i] = file[i]
    BY <1>0, <2>3
  <2>5. (Len(file) + 1) % 2 # 1
    BY <1>0, <2>2
  <2>6. LineByLine'
    BY <2>3, <2>4, <2>5 DEF LineByLine
  <2>7. InStep'
    BY <1>0, <2>1, <2>2, <2>3, <2>4 DEF InStep
  <2>8. QED
    BY <2>6, <2>7
<1>5. ASSUME NEW t \in Threads, CallFails(t) PROVE FALSE
  BY <1>0, <1>5 DEF CallFails, Fault
<1>6. ASSUME NEW o \in Objects, Crash(o) PROVE FALSE
  BY <1>0, <1>6 DEF Crash, Fault
<1>7. CASE UNCHANGED vars
  BY <1>7 DEF LineByLine, InStep, vars
<1>8. QED
  BY <1>1, <1>2, <1>3, <1>4, <1>5, <1>6, <1>7 DEF Next

\* The threads of one process never mix their events: while no call has
\* failed and no process has died, the log is the lines of the appends, each
\* with its newline, in the order of the mutex, for any number of threads.
THEOREM OneObjectLogWhole == Spec => []OneObjectWhole
<1>1. Init => IInv
  <2>1. Init => HolderOK
    BY NobodyAssumption DEF Init, HolderOK
  <2>2. Init => LineByLine /\ InStep
    BY DEF Init, LineByLine, InStep
  <2>3. QED
    BY <2>1, <2>2, InitType DEF IInv
<1>2. IInv /\ [Next]_vars => IInv'
  <2> SUFFICES ASSUME IInv, [Next]_vars PROVE IInv'
    OBVIOUS
  <2>1. TypeOK' /\ HolderOK'
    BY NextType, NextHolder DEF IInv
  <2>2. faults' = 0 => faults = 0
    <3>1. faults \in Nat
      BY BoundAssumption DEF IInv, TypeOK
    <3>2. faults' = faults \/ faults' = faults + 1
      BY DEF Next, Lock, Open, WriteLine, WriteNewline, CallFails, Crash, Fault, vars
    <3>3. QED
      BY <3>1, <3>2
  <2>3. OneObject' = OneObject
    BY DEF OneObject
  <2>4. QED
    BY <2>1, <2>2, <2>3, NextInStep DEF IInv
<1>3. IInv => OneObjectWhole
  BY DEF IInv, OneObjectWhole
<1>4. QED
  BY <1>1, <1>2, <1>3, PTL DEF Spec
-----------------------------------------------------------------------------
(* What a failure costs.  One that leaves the last line without its newline *)
(* is paid for by the next line written: until then it is owed.             *)

Ends    == Len(file) > 0 /\ file[Len(file)] # NL
Written == \E t \in Threads : pc[t] = "written"
Owed    == IF Ends /\ ~ Written THEN 1 ELSE 0

Paid == /\ IsFiniteSet(Merges)
        /\ Written => Ends
        /\ Cardinality(Merges) + Owed <= faults

FInv == /\ TypeOK
        /\ HolderOK
        /\ OneObject => Paid

\* A line end is spoilt when something but a newline follows an open one.
LEMMA MergesGrow ==
    ASSUME TypeOK, NEW e \in Lines \cup {NL, Fragment}, file' = Append(file, e)
    PROVE  /\ Merges' = IF Ends /\ e # NL THEN Merges \cup {Len(file)} ELSE Merges
           /\ Len(file) \notin Merges
           /\ Ends' = (e # NL)
<1>1. /\ Len(file) \in Nat /\ DOMAIN file = 1 .. Len(file)
      /\ Len(file') = Len(file) + 1 /\ DOMAIN file' = 1 .. Len(file) + 1
      /\ \A i \in 1 .. Len(file) : file'[i] = file[i]
      /\ file'[Len(file) + 1] = e
  BY DEF TypeOK
<1>2. Len(file) \notin Merges
  BY <1>1 DEF Merges
<1>3. Ends' = (e # NL)
  BY <1>1 DEF Ends
<1>4. \A i : i \in Merges' <=> \/ i \in Merges
                               \/ i = Len(file) /\ Ends /\ e # NL
  <2> TAKE i
  <2>1. i \in Merges' <=> /\ i \in 1 .. Len(file)
                          /\ file'[i] # NL /\ file'[i + 1] # NL
    BY <1>1 DEF Merges
  <2>2. CASE i \in 1 .. Len(file) - 1
    <3>1. file'[i] = file[i] /\ file'[i + 1] = file[i + 1]
      BY <1>1, <2>2
    <3>2. QED
      BY <1>1, <2>1, <2>2, <3>1 DEF Merges
  <2>3. CASE i = Len(file)
    <3>1. i \notin Merges
      BY <1>2, <2>3
    <3>2. Len(file) \in 1 .. Len(file) <=> Len(file) > 0
      BY <1>1
    <3>3. Len(file) > 0 => file'[Len(file)] = file[Len(file)]
      BY <1>1, <3>2, Zenon
    <3>4. i \in Merges' <=> Ends /\ e # NL
      BY <1>1, <2>1, <2>3, <3>2, <3>3, Zenon DEF Ends
    <3>5. QED
      BY <2>3, <3>1, <3>4, Zenon
  <2>4. CASE i \notin 1 .. Len(file)
    <3>1. i \notin Merges /\ i \notin Merges'
      BY <1>1, <2>1, <2>4 DEF Merges
    <3>2. Ends => i # Len(file)
      BY <1>1, <2>4 DEF Ends
    <3>3. QED
      BY <3>1, <3>2
  <2>5. QED
    BY <1>1, <2>2, <2>3, <2>4
<1>5. QED
  BY <1>2, <1>3, <1>4

LEMMA NextPaid ==
    ASSUME TypeOK, HolderOK, OneObject, Paid, [Next]_vars
    PROVE  Paid'
<1> USE ObjectAssumption, NobodyAssumption
<1>0. /\ Cardinality(Merges) \in Nat /\ faults \in Nat
      /\ Owed \in {0, 1} /\ Cardinality(Merges) <= faults
  BY FS_CardinalityType, BoundAssumption DEF TypeOK, Paid, Owed
<1>1. ASSUME file' = file, faults' = faults, Written' = Written PROVE Paid'
  <2>1. Merges' = Merges /\ Ends' = Ends
    BY <1>1 DEF Merges, Ends
  <2>2. Owed' = Owed
    BY <1>1, <2>1 DEF Owed
  <2>3. QED
    BY <1>1, <2>1, <2>2 DEF Paid
<1>2. ASSUME file' = file, faults' = faults + 1, ~ Written' PROVE Paid'
  <2>1. Merges' = Merges
    BY <1>2 DEF Merges
  <2>2. Owed' \in {0, 1}
    BY DEF Owed
  <2>3. Cardinality(Merges) + Owed' <= faults + 1
    BY <1>0, <2>2
  <2>4. QED
    BY <1>2, <2>1, <2>3 DEF Paid
<1>3. ASSUME NEW e \in Lines \cup {NL, Fragment}, file' = Append(file, e), e # NL,
             ~ Written
      PROVE  /\ IsFiniteSet(Merges') /\ Ends'
             /\ Cardinality(Merges') <= faults
  <2>1. /\ Merges' = IF Ends THEN Merges \cup {Len(file)} ELSE Merges
        /\ Len(file) \notin Merges /\ Ends'
    BY <1>3, MergesGrow
  <2>2. CASE Ends
    <3>1. Owed = 1 /\ Merges' = Merges \cup {Len(file)}
      BY <1>3, <2>1, <2>2 DEF Owed
    <3>2. IsFiniteSet(Merges') /\ Cardinality(Merges') = Cardinality(Merges) + 1
      BY <2>1, <3>1, FS_AddElement DEF Paid
    <3>3. QED
      BY <1>0, <2>1, <3>1, <3>2 DEF Paid
  <2>3. CASE ~ Ends
    BY <1>0, <2>1, <2>3 DEF Paid
  <2>4. QED
    BY <2>2, <2>3
<1>4. ASSUME NEW t \in Threads, NEW l \in Lines, Lock(t, l) PROVE Paid'
  <2>1. file' = file /\ faults' = faults
    BY <1>4 DEF Lock
  <2>2. Written' = Written
    BY <1>4 DEF Lock, Written, TypeOK
  <2>3. QED
    BY <1>1, <2>1, <2>2
<1>5. ASSUME NEW t \in Threads, Open(t) PROVE Paid'
  <2>1. file' = file /\ faults' = faults
    BY <1>5 DEF Open
  <2>2. Written' = Written
    BY <1>5 DEF Open, Written, TypeOK
  <2>3. QED
    BY <1>1, <2>1, <2>2
<1>6. ASSUME NEW t \in Threads, WriteLine(t) PROVE Paid'
  <2>1. ~ Written
    BY <1>6, Alone DEF WriteLine, Written
  <2>2. line[t] \in Lines /\ line[t] # NL /\ file' = Append(file, line[t])
    BY <1>6, PieceAssumption DEF WriteLine, TypeOK
  <2>3. IsFiniteSet(Merges') /\ Ends' /\ Cardinality(Merges') <= faults
    BY <1>3, <2>1, <2>2
  <2>4. Written'
    BY <1>6 DEF WriteLine, Written, TypeOK
  <2>5. Owed' = 0 /\ faults' = faults
    BY <1>6, <2>4 DEF Owed, WriteLine
  <2>6. Cardinality(Merges') \in Nat
    BY <2>3, FS_CardinalityType
  <2>7. QED
    BY <1>0, <2>3, <2>5, <2>6 DEF Paid
<1>7. ASSUME NEW t \in Threads, WriteNewline(t) PROVE Paid'
  <2>1. Merges' = Merges /\ ~ Ends'
    BY <1>7, MergesGrow DEF WriteNewline
  <2>2. ~ Written'
    BY <1>7, Alone DEF WriteNewline, Leave, Written, TypeOK
  <2>3. Owed' = 0 /\ faults' = faults
    BY <1>7, <2>1 DEF Owed, WriteNewline
  <2>4. QED
    BY <1>0, <2>1, <2>2, <2>3 DEF Paid
<1>8. ASSUME NEW t \in Threads, CallFails(t) PROVE Paid'
  <2>1. faults' = faults + 1
    BY <1>8 DEF CallFails, Fault
  <2>2. ~ Written'
    BY <1>8, Alone DEF CallFails, Leave, Written, TypeOK
  <2>3. CASE file' = file
    BY <1>2, <2>1, <2>2, <2>3
  <2>4. CASE pc[t] = "opened" /\ file' = Append(file, Fragment)
    <3>1. ~ Written
      BY <2>4, Alone DEF Written
    <3>2. Fragment # NL
      BY PieceAssumption
    <3>3. IsFiniteSet(Merges') /\ Ends' /\ Cardinality(Merges') <= faults
      BY <1>3, <2>4, <3>1, <3>2
    <3>4. Owed' = 1 /\ Cardinality(Merges') \in Nat
      BY <2>2, <3>3, FS_CardinalityType DEF Owed
    <3>5. QED
      BY <1>0, <2>1, <3>3, <3>4 DEF Paid
  <2>5. QED
    BY <1>8, <2>3, <2>4 DEF CallFails
<1>9. ASSUME NEW o \in Objects, Crash(o) PROVE Paid'
  <2>1. file' = file /\ faults' = faults + 1
    BY <1>9 DEF Crash, Fault
  <2>2. ~ Written'
    BY <1>9 DEF Crash, Written, OneObject
  <2>3. QED
    BY <1>2, <2>1, <2>2
<1>10. CASE UNCHANGED vars
  <2>1. Written' = Written
    BY <1>10 DEF vars, Written
  <2>2. QED
    BY <1>1, <1>10, <2>1 DEF vars
<1>11. QED
  BY <1>4, <1>5, <1>6, <1>7, <1>8, <1>9, <1>10 DEF Next

\* With one WatchLog on the file, a failed open or write, or a crash, spoils
\* one line end at most, for any number of threads, appends and failures.
THEOREM FaultsSpoilOneEndEach == Spec => []FaultsMergeOnce
<1>1. Init => FInv
  <2>1. Init => HolderOK
    BY NobodyAssumption DEF Init, HolderOK
  <2>2. Init => Paid
    <3> SUFFICES ASSUME Init PROVE Paid
      OBVIOUS
    <3>1. Merges = {} /\ ~ Ends
      BY DEF Init, Merges, Ends
    <3>2. ~ Written
      BY DEF Init, Written
    <3>3. Owed = 0 /\ faults = 0
      BY <3>1 DEF Owed, Init
    <3>4. QED
      BY <3>1, <3>2, <3>3, FS_EmptySet DEF Paid
  <2>3. QED
    BY <2>1, <2>2, InitType DEF FInv
<1>2. FInv /\ [Next]_vars => FInv'
  <2>1. OneObject' = OneObject
    BY DEF OneObject
  <2>2. QED
    BY <2>1, NextType, NextHolder, NextPaid DEF FInv
<1>3. FInv => FaultsMergeOnce
  <2> SUFFICES ASSUME TypeOK, Paid PROVE Cardinality(Merges) <= faults
    BY DEF FInv, FaultsMergeOnce
  <2>1. /\ Cardinality(Merges) \in Nat /\ faults \in Nat /\ Owed \in {0, 1}
        /\ Cardinality(Merges) + Owed <= faults
    BY FS_CardinalityType, BoundAssumption DEF TypeOK, Paid, Owed
  <2>2. QED
    BY <2>1
<1>4. QED
  BY <1>1, <1>2, <1>3, PTL DEF Spec
=============================================================================

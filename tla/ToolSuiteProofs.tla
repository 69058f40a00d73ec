--------------------------- MODULE ToolSuiteProofs ---------------------------
(***************************************************************************)
(* Proofs about ToolSuite: its types, that what m_seen holds has been      *)
(* served, and that the answers form no cycle if the handlers' answers     *)
(* can be ranked.                                                          *)
(***************************************************************************)
EXTENDS ToolSuite, TLAPS

\* The events a scanner may hold in place of one.
LEMMA Defaults == SomeEvent \in Events /\ SomeEvent.from = {} /\ NoName \in Names
<1>1. (CHOOSE m \in Marks : TRUE) \in Marks
  BY SuiteAssumption
<1> QED
  BY <1>1, SuiteAssumption DEF SomeEvent, NoName, Events, Names, Times

LEMMA AnswerType ==
    ASSUME NEW a \in Scanners, TypeOK, next[a] \in DOMAIN Handlers
    PROVE  Answer(a) \in Events
<1>1. Reply(Handler(a)) \in Marks
  BY SuiteAssumption DEF Handler
<1>2. event[a] \in Events
  BY DEF TypeOK, LocalsOK
<1> QED
  BY <1>1, <1>2 DEF Answer, Events

LEMMA InitType == Init => TypeOK
<1> SUFFICES ASSUME Init PROVE TypeOK
  OBVIOUS
<1>1. Len(Handlers) \in Nat
  BY SuiteAssumption
<1>2. 1 \in Times /\ now = 1
  BY SuiteAssumption DEF Init, Times
<1>3. /\ DOMAIN dir = {} /\ DOMAIN seen = {} /\ writing = {} /\ served = {} /\ unread = {} /\ blurred = {}
      /\ running = FALSE /\ stopping = FALSE /\ holder = Nobody /\ writes \in 0 .. MaxWrites
  BY SuiteAssumption DEF Init
<1>4. /\ pc \in [Scanners -> {"off", "idle", "scan", "check", "read", "lock", "call", "fill",
                             "done"}]
      /\ left = [a \in Scanners |-> {}]
  BY DEF Init
<1>5. /\ item \in [Scanners -> Names] /\ stat \in [Scanners -> Times]
      /\ event \in [Scanners -> Events]
  BY <1>2, Defaults DEF Init
<1>6. next \in [Scanners -> 1 .. Len(Handlers) + 1]
  BY <1>1 DEF Init
<1>7. \A a \in Scanners : pc[a] \in {"off", "idle"}
  BY DEF Init
<1> QED
  BY <1>2, <1>3, <1>4, <1>5, <1>6, <1>7 DEF TypeOK, FilesOK, LocalsOK, PlacesOK, AtEntry, NotesOK

\* What Create, Fill and NextEntry do to the types of what they change.
LEMMA CreateType ==
    ASSUME TypeOK, NEW f \in Names, Create(f)
    PROVE  /\ DOMAIN dir' = DOMAIN dir \cup {f} /\ DOMAIN dir' \subseteq Names
           /\ \A g \in DOMAIN dir' : dir'[g].body \in Bodies /\ dir'[g].mtime \in 1 .. now
           /\ left' \in [Scanners -> SUBSET DOMAIN dir']
<1>1. DOMAIN dir' = DOMAIN dir \cup {f}
  BY DEF Create, Put
<1>2. \A g \in DOMAIN dir' : dir'[g].body \in Bodies /\ dir'[g].mtime \in 1 .. now
  <2>1. now \in 1 .. now
    BY SuiteAssumption DEF TypeOK, FilesOK, Times
  <2>2. dir'[f] = [body |-> Empty, mtime |-> now]
    BY DEF Create, Put
  <2>3. \A g \in DOMAIN dir \ {f} : dir'[g] = dir[g]
    BY DEF Create, Put
  <2> QED
    BY <1>1, <2>1, <2>2, <2>3 DEF TypeOK, FilesOK, Bodies
<1>3. left' \in [Scanners -> SUBSET DOMAIN dir']
  <2>1. CASE f \in DOMAIN dir
    BY <1>1, <2>1 DEF Create, TypeOK, FilesOK, LocalsOK, PlacesOK, AtEntry, NotesOK
  <2>2. CASE f \notin DOMAIN dir
    <3>1. PICK A : left' = [a \in Scanners |-> IF a \in A THEN left[a] \cup {f} ELSE left[a]]
      BY <2>2 DEF Create
    <3>2. \A a \in Scanners : left[a] \subseteq DOMAIN dir
      BY DEF TypeOK, FilesOK, LocalsOK, PlacesOK, AtEntry, NotesOK
    <3> QED
      BY <1>1, <3>1, <3>2
  <2> QED
    BY <2>1, <2>2
<1> QED
  BY <1>1, <1>2, <1>3 DEF TypeOK, FilesOK, LocalsOK, PlacesOK, AtEntry, NotesOK

LEMMA FillType ==
    ASSUME TypeOK, NEW f \in DOMAIN dir, NEW e \in Events, Fill(f, e)
    PROVE  /\ DOMAIN dir' = DOMAIN dir
           /\ \A g \in DOMAIN dir' : dir'[g].body \in Bodies /\ dir'[g].mtime \in 1 .. now
           /\ blurred' \subseteq DOMAIN dir'
<1>1. DOMAIN dir' = DOMAIN dir
  BY DEF Fill, Put
<1>2. now \in 1 .. now
  BY SuiteAssumption DEF TypeOK, FilesOK, Times
<1>3. dir'[f] = [body |-> e, mtime |-> now]
  BY DEF Fill, Put
<1>4. \A g \in DOMAIN dir \ {f} : dir'[g] = dir[g]
  BY DEF Fill, Put
<1>5. \A g \in DOMAIN dir' : dir'[g].body \in Bodies /\ dir'[g].mtime \in 1 .. now
  BY <1>1, <1>2, <1>3, <1>4 DEF TypeOK, FilesOK, Bodies
<1>6. blurred' \subseteq DOMAIN dir'
  BY <1>1 DEF Fill, TypeOK, FilesOK, LocalsOK, PlacesOK, AtEntry, NotesOK
<1> QED
  BY <1>1, <1>5, <1>6

LEMMA NextEntryType ==
    ASSUME TypeOK, NEW a \in Scanners, NextEntry(a)
    PROVE  /\ item' \in [Scanners -> Names] /\ stat' \in [Scanners -> Times]
           /\ event' \in [Scanners -> Events]
BY Defaults, SuiteAssumption DEF NextEntry, TypeOK, FilesOK, LocalsOK, PlacesOK, AtEntry, NotesOK, Times

-----------------------------------------------------------------------------
(* Types.                                                                  *)

\* The parts of a pass that move the scanner only.
LEMMA WalkType ==
    ASSUME TypeOK, NEW a \in Scanners,
           List(a) \/ Stat(a) \/ Check(a) \/ Read(a) \/ ReadFails(a) \/ EndPass(a)
    PROVE  TypeOK'
<1> USE DEF files, owner, scan, notes
<1>1. FilesOK' /\ UNCHANGED <<dir, running, stopping, holder, next, served, blurred>>
  BY DEF List, Stat, Check, Read, ReadFails, EndPass, TypeOK, FilesOK
<1>2. CASE List(a)
  <2>1. LocalsOK' /\ NotesOK'
    BY <1>2 DEF List, TypeOK, LocalsOK, NotesOK
  <2>2. PlacesOK' /\ AtEntry'
    BY <1>1, <1>2 DEF List, Goto, TypeOK, PlacesOK, AtEntry
  <2> QED
    BY <1>1, <2>1, <2>2 DEF TypeOK
<1>3. CASE Stat(a)
  <2>1. PICK f \in left[a] : /\ item' = [item EXCEPT ![a] = f]
                            /\ stat' = [stat EXCEPT ![a] = dir[f].mtime]
                            /\ left' = [left EXCEPT ![a] = @ \ {f}]
    BY <1>3 DEF Stat
  <2>2. f \in DOMAIN dir /\ f \in Names
    BY DEF TypeOK, PlacesOK, FilesOK
  <2>3. dir[f].mtime \in Times
    BY <2>2, SuiteAssumption DEF TypeOK, FilesOK, Times
  <2>4. LocalsOK' /\ NotesOK'
    BY <1>3, <2>1, <2>2, <2>3 DEF Stat, TypeOK, LocalsOK, NotesOK
  <2>5. PlacesOK' /\ AtEntry'
    BY <1>1, <1>3, <2>1, <2>2 DEF Stat, Goto, TypeOK, PlacesOK, AtEntry, LocalsOK
  <2> QED
    BY <1>1, <2>4, <2>5 DEF TypeOK
<1>4. CASE Check(a)
  <2>1. item[a] \in DOMAIN dir /\ stat[a] \in Times
    BY <1>4 DEF Check, TypeOK, AtEntry, LocalsOK
  <2>2. CASE Known(item[a], stat[a])
    <3>1. LocalsOK' /\ NotesOK'
      BY <1>4, <2>2, NextEntryType DEF Check, TypeOK, LocalsOK, NotesOK
    <3>2. PlacesOK' /\ AtEntry'
      BY <1>1, <1>4, <2>2 DEF Check, NextEntry, Goto, TypeOK, PlacesOK, AtEntry, LocalsOK
    <3> QED
      BY <1>1, <3>1, <3>2 DEF TypeOK
  <2>3. CASE ~Known(item[a], stat[a])
    <3>1. 1 \in Times
      BY SuiteAssumption DEF Times
    <3>2. LocalsOK' /\ NotesOK'
      BY <1>4, <2>1, <2>3, <3>1 DEF Check, TypeOK, LocalsOK, NotesOK, Put
    <3>3. PlacesOK' /\ AtEntry'
      BY <1>1, <1>4, <2>1, <2>3 DEF Check, Goto, TypeOK, PlacesOK, AtEntry, LocalsOK
    <3> QED
      BY <1>1, <3>2, <3>3 DEF TypeOK
  <2> QED
    BY <2>2, <2>3
<1>5. CASE Read(a)
  <2>1. item[a] \in DOMAIN dir
    BY <1>5 DEF Read, TypeOK, AtEntry
  <2>2. CASE Unreadable(a)
    <3>1. LocalsOK' /\ NotesOK'
      BY <1>5, <2>2, NextEntryType DEF Read, TypeOK, LocalsOK, NotesOK
    <3>2. PlacesOK' /\ AtEntry'
      BY <1>1, <1>5, <2>2 DEF Read, NextEntry, Goto, TypeOK, PlacesOK, AtEntry, LocalsOK
    <3> QED
      BY <1>1, <3>1, <3>2 DEF TypeOK
  <2>3. CASE ~Unreadable(a)
    <3>1. dir[item[a]].body \in Events
      BY <2>1, <2>3 DEF Unreadable, TypeOK, FilesOK, Bodies
    <3>2. LocalsOK' /\ NotesOK'
      BY <1>5, <2>3, <3>1 DEF Read, TypeOK, LocalsOK, NotesOK
    <3>3. PlacesOK' /\ AtEntry'
      BY <1>1, <1>5, <2>1, <2>3 DEF Read, Goto, TypeOK, PlacesOK, AtEntry, LocalsOK
    <3> QED
      BY <1>1, <3>2, <3>3 DEF TypeOK
  <2> QED
    BY <2>2, <2>3
<1>6. CASE EndPass(a)
  <2>1. LocalsOK' /\ NotesOK'
    BY <1>6 DEF EndPass, TypeOK, LocalsOK, NotesOK
  <2>2. PlacesOK' /\ AtEntry'
    BY <1>1, <1>6 DEF EndPass, Goto, TypeOK, PlacesOK, AtEntry
  <2> QED
    BY <1>1, <2>1, <2>2 DEF TypeOK
<1>7. CASE ReadFails(a)
  <2>1. <<item[a], dir[item[a]].body>> \in Names \X Events
    BY <1>7 DEF ReadFails, TypeOK, AtEntry, FilesOK, LocalsOK, Bodies
  <2>2. LocalsOK' /\ NotesOK'
    BY <1>7, <2>1, NextEntryType DEF ReadFails, TypeOK, LocalsOK, NotesOK
  <2>3. PlacesOK' /\ AtEntry'
    BY <1>1, <1>7 DEF ReadFails, NextEntry, Goto, TypeOK, PlacesOK, AtEntry, LocalsOK
  <2> QED
    BY <1>1, <2>2, <2>3 DEF TypeOK
<1> QED
  BY <1>2, <1>3, <1>4, <1>5, <1>6, <1>7

\* The part of a pass that serves an event.
LEMMA ServeType ==
    ASSUME TypeOK, NEW a \in Scanners,
           Lock(a) \/ Call(a) \/ Close(a) \/ NoAnswer(a) \/ Unlock(a)
    PROVE  TypeOK'
<1> USE DEF files, owner, scan, notes
<1>0. Len(Handlers) \in Nat /\ DOMAIN Handlers = 1 .. Len(Handlers)
  BY SuiteAssumption
<1>1. CASE Lock(a)
  <2>1. FilesOK' /\ LocalsOK'
    BY <1>1 DEF Lock, TypeOK, FilesOK, LocalsOK
  <2>2. PlacesOK' /\ AtEntry'
    BY <1>0, <1>1 DEF Lock, Goto, TypeOK, PlacesOK, AtEntry
  <2>3. NotesOK'
    BY <1>1 DEF Lock, TypeOK, NotesOK, LocalsOK
  <2> QED
    BY <2>1, <2>2, <2>3 DEF TypeOK
<1>2. CASE Call(a)
  <2> DEFINE f == NameOf(Answer(a))
  <2>1. f \in Names
    BY <1>2, AnswerType DEF Call, NameOf, TypeOK, FilesOK, Names, Events
  <2>2. Create(f)
    BY <1>2 DEF Call
  <2>3. FilesOK'
    BY <1>2, <2>1, <2>2, CreateType DEF Call, TypeOK, FilesOK
  <2>4. LocalsOK' /\ NotesOK'
    BY <1>2, <2>1, <2>2, CreateType DEF Call, TypeOK, LocalsOK, NotesOK
  <2>5. PlacesOK' /\ AtEntry'
    <3> HIDE DEF f
    <3>1. item' = [item EXCEPT ![a] = f]
      BY <1>2 DEF Call, f
    <3> QED
      BY <1>2, <2>1, <2>2, <3>1, CreateType DEF Call, Goto, TypeOK, PlacesOK, AtEntry, LocalsOK
  <2> QED
    BY <2>3, <2>4, <2>5 DEF TypeOK
<1>3. CASE Close(a)
  <2>1. item[a] \in DOMAIN dir /\ next[a] \in DOMAIN Handlers /\ Answer(a) \in Events
    BY <1>3, AnswerType DEF Close, TypeOK, AtEntry
  <2>2. Fill(item[a], Answer(a))
    BY <1>3 DEF Close
  <2>3. FilesOK'
    BY <1>3, <2>1, <2>2, FillType DEF Close, TypeOK, FilesOK
  <2>4. LocalsOK' /\ NotesOK'
    BY <1>3, <2>1, <2>2, FillType DEF Close, TypeOK, LocalsOK, NotesOK
  <2>5. PlacesOK' /\ AtEntry'
    BY <1>0, <1>3, <2>1, <2>2, FillType DEF Close, Goto, TypeOK, PlacesOK, AtEntry
  <2> QED
    BY <2>3, <2>4, <2>5 DEF TypeOK
<1>4. CASE NoAnswer(a)
  <2>1. FilesOK' /\ LocalsOK' /\ NotesOK'
    BY <1>4 DEF NoAnswer, TypeOK, FilesOK, LocalsOK, NotesOK
  <2>2. PlacesOK' /\ AtEntry'
    BY <1>0, <1>4 DEF NoAnswer, TypeOK, PlacesOK, AtEntry
  <2> QED
    BY <2>1, <2>2 DEF TypeOK
<1>5. CASE Unlock(a)
  <2>1. FilesOK' /\ NotesOK'
    BY <1>5 DEF Unlock, TypeOK, FilesOK, NotesOK
  <2>2. LocalsOK'
    BY <1>5, NextEntryType DEF Unlock, LocalsOK
  <2>3. PlacesOK' /\ AtEntry'
    BY <1>0, <1>5 DEF Unlock, Released, NextEntry, Goto, TypeOK, PlacesOK, AtEntry, LocalsOK
  <2> QED
    BY <2>1, <2>2, <2>3 DEF TypeOK
<1> QED
  BY <1>1, <1>2, <1>3, <1>4, <1>5

\* The clock, the tools outside and the owner.
LEMMA OutsideType ==
    ASSUME TypeOK, Tick \/ Outside \/ Start \/ Stop \/ Join \/ LoopEnds
    PROVE  TypeOK'
<1> USE DEF files, owner, scan, notes
<1>1. CASE Tick
  <2>1. now' \in Times /\ 1 .. now \subseteq 1 .. now'
    BY <1>1, SuiteAssumption DEF Tick, TypeOK, FilesOK, Times
  <2>2. FilesOK'
    BY <1>1, <2>1 DEF Tick, TypeOK, FilesOK
  <2>3. LocalsOK' /\ NotesOK'
    BY <1>1 DEF Tick, TypeOK, LocalsOK, NotesOK
  <2>4. PlacesOK' /\ AtEntry'
    BY <1>1 DEF Tick, TypeOK, PlacesOK, AtEntry
  <2> QED
    BY <2>2, <2>3, <2>4 DEF TypeOK
<1>2. CASE \E m \in Asked : ToolOpens(m)
  <2>1. PICK m \in Asked : ToolOpens(m)
    BY <1>2
  <2> DEFINE e == [mark |-> m, from |-> {}]
             f == NameOf(e)
  <2>2. e \in Events /\ f \in Names
    BY SuiteAssumption DEF Events, NameOf, Names, TypeOK, FilesOK
  <2>3. /\ Create(f)
        /\ writing' = writing \cup {<<f, e>>} /\ writes' = writes + 1 /\ writes < MaxWrites
    BY <2>1 DEF ToolOpens
  <2>4. UNCHANGED <<now, owner, pc, item, stat, event, next, holder, seen, notes>>
    BY <2>1 DEF ToolOpens
  <2> HIDE DEF e, f
  <2>5. FilesOK'
    <3>1. writing' \subseteq (DOMAIN dir') \X Events
      <4>1. DOMAIN dir' = DOMAIN dir \cup {f}
        BY <2>2, <2>3, CreateType
      <4>2. writing \subseteq (DOMAIN dir) \X Events
        BY DEF TypeOK, FilesOK
      <4> QED
        BY <2>2, <2>3, <4>1, <4>2
    <3>2. writes' \in 0 .. MaxWrites
      BY <2>3, SuiteAssumption DEF TypeOK, FilesOK
    <3> QED
      BY <2>2, <2>3, <2>4, <3>1, <3>2, CreateType DEF TypeOK, FilesOK
  <2>6. LocalsOK' /\ NotesOK'
    BY <2>2, <2>3, <2>4, CreateType DEF TypeOK, LocalsOK, NotesOK
  <2>7. PlacesOK' /\ AtEntry'
    BY <2>2, <2>3, <2>4, CreateType DEF TypeOK, PlacesOK, AtEntry
  <2> QED
    BY <2>5, <2>6, <2>7 DEF TypeOK
<1>3. CASE \E w \in writing : ToolCloses(w[1], w[2])
  <2>1. PICK w \in writing : ToolCloses(w[1], w[2])
    BY <1>3
  <2>2. w[1] \in DOMAIN dir /\ w[2] \in Events
    BY DEF TypeOK, FilesOK
  <2>3. Fill(w[1], w[2]) /\ writing' \subseteq writing
    BY <2>1 DEF ToolCloses
  <2>4. UNCHANGED <<now, writes, owner, scan, served, unread>>
    BY <2>1 DEF ToolCloses
  <2>5. FilesOK'
    BY <2>2, <2>3, <2>4, FillType DEF TypeOK, FilesOK
  <2>6. LocalsOK' /\ NotesOK'
    BY <2>2, <2>3, <2>4, FillType DEF TypeOK, LocalsOK, NotesOK
  <2>7. PlacesOK' /\ AtEntry'
    BY <2>2, <2>3, <2>4, FillType DEF TypeOK, PlacesOK, AtEntry
  <2> QED
    BY <2>5, <2>6, <2>7 DEF TypeOK
<1>4. CASE Start \/ Stop \/ Join \/ LoopEnds
  <2>1. FilesOK' /\ LocalsOK' /\ NotesOK'
    BY <1>4 DEF Start, Stop, Join, LoopEnds, TypeOK, FilesOK, LocalsOK, NotesOK
  <2>2. PlacesOK' /\ AtEntry'
    BY <1>4 DEF Start, Stop, Join, LoopEnds, Goto, TypeOK, PlacesOK, AtEntry
  <2> QED
    BY <2>1, <2>2 DEF TypeOK
<1> QED
  BY <1>1, <1>2, <1>3, <1>4 DEF Outside

\* What a step of the suite is, by who takes it.
LEMMA NextCases ==
    ASSUME Next
    PROVE  \/ Tick \/ Outside \/ Start \/ Stop \/ Join \/ LoopEnds
           \/ \E a \in Scanners : List(a) \/ Pass(a)
           \/ UNCHANGED vars
BY DEF Next, ThreadStep, ListFails, Scanners

LEMMA NextType == TypeOK /\ [Next]_vars => TypeOK'
<1> SUFFICES ASSUME TypeOK, [Next]_vars PROVE TypeOK'
  OBVIOUS
<1>1. CASE Tick \/ Outside \/ Start \/ Stop \/ Join \/ LoopEnds
  BY <1>1, OutsideType
<1>3. CASE \E a \in Scanners : List(a) \/ Pass(a)
  BY <1>3, WalkType, ServeType DEF Pass
<1>2. CASE UNCHANGED vars
  BY <1>2 DEF vars, files, owner, scan, notes, TypeOK, FilesOK, LocalsOK, PlacesOK, AtEntry,
              NotesOK
<1> QED
  BY <1>1, <1>2, <1>3, NextCases

\* Type correctness.
THEOREM Typed == Spec => []TypeOK
BY InitType, NextType, PTL DEF Spec

-----------------------------------------------------------------------------
(* stop joins.                                                             *)

LEMMA InitStop == Init => StopIsFinal
BY DEF Init, StopIsFinal, Scanners

LEMMA NextStop == TypeOK /\ StopIsFinal /\ [Next]_vars => StopIsFinal'
<1> SUFFICES ASSUME TypeOK, StopIsFinal, [Next]_vars PROVE StopIsFinal'
  OBVIOUS
<1> USE DEF files, owner, scan, notes, StopIsFinal
<1>0. Thread \in Scanners /\ Caller \in Scanners /\ Thread # Caller
  BY SuiteAssumption DEF Scanners
<1>1. CASE Tick \/ Outside
  BY <1>1 DEF Tick, Outside, ToolOpens, ToolCloses
<1>2. CASE Start \/ Stop \/ Join \/ LoopEnds
  BY <1>0, <1>2 DEF Start, Stop, Join, LoopEnds, Goto, TypeOK, PlacesOK
<1>3. ASSUME NEW a \in Scanners, List(a) \/ Pass(a) PROVE StopIsFinal'
  <2>1. UNCHANGED owner /\ pc[a] # "off"
    BY <1>3 DEF List, Pass, Stat, Check, Read, ReadFails, EndPass, Lock, Call, Close, NoAnswer, Unlock
  <2>2. \A b \in Scanners : b # a => pc'[b] = pc[b]
    BY <1>3 DEF List, Pass, Stat, Check, Read, ReadFails, EndPass, Lock, Call, Close, NoAnswer,
                Unlock, NextEntry, Goto, TypeOK, PlacesOK
  <2> QED
    BY <1>0, <2>1, <2>2
<1>4. CASE UNCHANGED vars
  BY <1>4 DEF vars
<1> QED
  BY <1>1, <1>2, <1>3, <1>4, NextCases

\* The thread is gone once stop has returned.
THEOREM Stopped == Spec => []StopIsFinal
BY InitType, NextType, InitStop, NextStop, PTL DEF Spec

-----------------------------------------------------------------------------
(* What m_seen holds has been served.                                      *)

\* SeenMeansServed, of one file.
Safe(f) ==
    \/ seen[f] # dir[f].mtime \/ f \in blurred
    \/ dir[f].body = Empty \/ <<f, dir[f].body>> \in unread
    \/ \E a \in Scanners :
          /\ item[a] = f
          /\ pc[a] = "read" \/ (pc[a] = "lock" /\ event[a] = dir[f].body)
    \/ <<f, dir[f].body>> \in served

LEMMA SafeAll == SeenMeansServed <=> \A f \in DOMAIN seen : Safe(f)
BY DEF SeenMeansServed, Safe

\* A step that changes neither the file, nor what is known of it, nor a scanner at
\* it, leaves it safe.
LEMMA Untouched ==
    ASSUME NEW f, Safe(f),
           seen'[f] = seen[f], dir'[f] = dir[f], f \in blurred => f \in blurred',
           served \subseteq served', unread \subseteq unread',
           \A a \in Scanners :
              item[a] = f /\ pc[a] \in {"read", "lock"}
                 => pc'[a] = pc[a] /\ item'[a] = item[a] /\ event'[a] = event[a]
    PROVE  Safe(f)'
BY DEF Safe

\* A file that is opened is empty, and one that is closed has a new time, or is
\* blurred; no other file changes.
LEMMA OpenedSafe ==
    ASSUME SeenMeansServed, TypeOK, NEW f \in Names, Create(f), UNCHANGED <<seen, blurred>>,
           served \subseteq served', unread \subseteq unread',
           \A a \in Scanners : pc[a] \in {"read", "lock"}
                 => pc'[a] = pc[a] /\ item'[a] = item[a] /\ event'[a] = event[a]
    PROVE  SeenMeansServed'
<1> SUFFICES ASSUME NEW g \in DOMAIN seen PROVE Safe(g)'
  BY SafeAll DEF SeenMeansServed, Safe
<1>1. g \in DOMAIN dir
  BY DEF TypeOK, NotesOK
<1>2. CASE g = f
  <2>1. dir'[g].body = Empty
    BY <1>2 DEF Create, Put
  <2> QED
    BY <2>1 DEF Safe
<1>3. CASE g # f
  <2>1. dir'[g] = dir[g]
    BY <1>1, <1>3 DEF Create, Put
  <2> QED
    BY <2>1, SafeAll, Untouched
<1> QED
  BY <1>2, <1>3

LEMMA ClosedSafe ==
    ASSUME SeenMeansServed, TypeOK, NEW f \in DOMAIN dir, NEW e, Fill(f, e),
           UNCHANGED <<seen, served, unread>>,
           \A a \in Scanners : pc[a] \in {"read", "lock"}
                 => pc'[a] = pc[a] /\ item'[a] = item[a] /\ event'[a] = event[a]
    PROVE  SeenMeansServed'
<1> SUFFICES ASSUME NEW g \in DOMAIN seen PROVE Safe(g)'
  BY SafeAll DEF SeenMeansServed, Safe
<1>1. g \in DOMAIN dir
  BY DEF TypeOK, NotesOK
<1>2. CASE g = f
  <2>1. dir'[g].mtime = now
    BY <1>2 DEF Fill, Put
  <2>2. seen[g] = now => g \in blurred'
    BY <1>2 DEF Fill
  <2> QED
    BY <2>1, <2>2 DEF Safe
<1>3. CASE g # f
  <2>1. dir'[g] = dir[g] /\ (g \in blurred => g \in blurred')
    BY <1>1, <1>3 DEF Fill, Put
  <2> QED
    BY <2>1, SafeAll, Untouched
<1> QED
  BY <1>2, <1>3

LEMMA PassSafe ==
    ASSUME SeenMeansServed, TypeOK, NEW a \in Scanners, List(a) \/ Pass(a)
    PROVE  SeenMeansServed'
<1> USE DEF files, owner, scan, notes
<1>1. CASE List(a) \/ Stat(a) \/ EndPass(a) \/ NoAnswer(a) \/ Unlock(a)
  <2> SUFFICES ASSUME NEW g \in DOMAIN seen PROVE Safe(g)'
    <3>1. seen' = seen
      BY <1>1 DEF List, Stat, EndPass, NoAnswer, Unlock
    <3> QED
      BY <3>1 DEF SeenMeansServed, Safe
  <2>1. UNCHANGED <<seen, dir, blurred, served, unread>>
    BY <1>1 DEF List, Stat, EndPass, NoAnswer, Unlock
  <2>2. \A b \in Scanners : pc[b] \in {"read", "lock"}
                 => pc'[b] = pc[b] /\ item'[b] = item[b] /\ event'[b] = event[b]
    BY <1>1 DEF List, Stat, EndPass, NoAnswer, Unlock, NextEntry, Goto, TypeOK, PlacesOK, LocalsOK
  <2> QED
    BY <2>1, <2>2, SafeAll, Untouched
<1>2. CASE Check(a)
  <2>1. UNCHANGED <<dir, blurred, served, unread>> /\ pc[a] = "check"
    BY <1>2 DEF Check
  <2>2. \A b \in Scanners : pc[b] \in {"read", "lock"}
                 => pc'[b] = pc[b] /\ item'[b] = item[b] /\ event'[b] = event[b]
    BY <1>2 DEF Check, NextEntry, Goto, TypeOK, PlacesOK, LocalsOK
  <2>3. CASE Known(item[a], stat[a])
    <3>1. seen' = seen
      BY <1>2, <2>3 DEF Check
    <3> QED
      BY <2>1, <2>2, <3>1, SafeAll, Untouched DEF SeenMeansServed, Safe
  <2>4. CASE ~Known(item[a], stat[a])
    <3>1. seen' = Put(seen, item[a], stat[a]) /\ pc'[a] = "read" /\ item' = item
      BY <1>2, <2>4 DEF Check, Goto, TypeOK, PlacesOK
    <3>2. DOMAIN seen' = DOMAIN seen \cup {item[a]}
      BY <3>1 DEF Put
    <3> SUFFICES ASSUME NEW g \in DOMAIN seen' PROVE Safe(g)'
      BY DEF SeenMeansServed, Safe
    <3>3. CASE g = item[a]
      BY <3>1, <3>3 DEF Safe
    <3>4. CASE g # item[a]
      <4>1. g \in DOMAIN seen /\ seen'[g] = seen[g]
        BY <3>1, <3>2, <3>4 DEF Put
      <4> QED
        BY <2>1, <2>2, <4>1, SafeAll, Untouched
    <3> QED
      BY <3>3, <3>4
  <2> QED
    BY <2>3, <2>4
<1>3. CASE Read(a)
  <2>1. UNCHANGED <<seen, dir, blurred, served, unread>> /\ pc[a] = "read"
    BY <1>3 DEF Read
  <2> SUFFICES ASSUME NEW g \in DOMAIN seen PROVE Safe(g)'
    BY <2>1 DEF SeenMeansServed, Safe
  <2>2. \A b \in Scanners : b # a /\ pc[b] \in {"read", "lock"}
                 => pc'[b] = pc[b] /\ item'[b] = item[b] /\ event'[b] = event[b]
    BY <1>3 DEF Read, NextEntry, Goto, TypeOK, PlacesOK, LocalsOK
  <2>3. CASE item[a] # g
    BY <2>1, <2>2, <2>3, SafeAll, Untouched
  <2>4. CASE item[a] = g /\ Unreadable(a)
    BY <2>1, <2>4 DEF Unreadable, Safe
  <2>5. CASE item[a] = g /\ ~Unreadable(a)
    <3>1. pc'[a] = "lock" /\ item'[a] = g /\ event'[a] = dir[g].body
      BY <1>3, <2>5 DEF Read, Goto, TypeOK, PlacesOK, LocalsOK
    <3> QED
      BY <2>1, <3>1 DEF Safe
  <2> QED
    BY <2>3, <2>4, <2>5
<1>4. CASE Lock(a)
  <2>1. /\ UNCHANGED <<seen, dir, blurred, unread, item, event>> /\ pc[a] = "lock"
        /\ served' = served \cup {<<item[a], event[a]>>}
    BY <1>4 DEF Lock
  <2> SUFFICES ASSUME NEW g \in DOMAIN seen PROVE Safe(g)'
    BY <2>1 DEF SeenMeansServed, Safe
  <2>2. \A b \in Scanners : b # a => pc'[b] = pc[b]
    BY <1>4 DEF Lock, Goto, TypeOK, PlacesOK
  <2>3. CASE item[a] = g /\ event[a] = dir[g].body
    BY <2>1, <2>3 DEF Safe
  <2>4. CASE ~(item[a] = g /\ event[a] = dir[g].body)
    BY <2>1, <2>2, <2>4, SafeAll DEF Safe
  <2> QED
    BY <2>3, <2>4
<1>5. CASE Call(a)
  <2>1. NameOf(Answer(a)) \in Names
    BY <1>5, AnswerType DEF Call, NameOf, TypeOK, FilesOK, Names, Events
  <2>2. Create(NameOf(Answer(a))) /\ UNCHANGED <<seen, blurred, served, unread>>
    BY <1>5 DEF Call
  <2>3. \A b \in Scanners : pc[b] \in {"read", "lock"}
                 => pc'[b] = pc[b] /\ item'[b] = item[b] /\ event'[b] = event[b]
    BY <1>5 DEF Call, Goto, TypeOK, PlacesOK, LocalsOK
  <2> QED
    BY <2>1, <2>2, <2>3, OpenedSafe
<1>6. CASE Close(a)
  <2>1. item[a] \in DOMAIN dir
    BY <1>6 DEF Close, TypeOK, AtEntry
  <2>2. Fill(item[a], Answer(a)) /\ UNCHANGED <<seen, served, unread>>
    BY <1>6 DEF Close
  <2>3. \A b \in Scanners : pc[b] \in {"read", "lock"}
                 => pc'[b] = pc[b] /\ item'[b] = item[b] /\ event'[b] = event[b]
    BY <1>6 DEF Close, Goto, TypeOK, PlacesOK
  <2> QED
    BY <2>1, <2>2, <2>3, ClosedSafe
<1>7. CASE ReadFails(a)
  <2>1. /\ UNCHANGED <<seen, dir, blurred, served>> /\ pc[a] = "read"
        /\ unread' = unread \cup {<<item[a], dir[item[a]].body>>}
    BY <1>7 DEF ReadFails
  <2> SUFFICES ASSUME NEW g \in DOMAIN seen PROVE Safe(g)'
    BY <2>1 DEF SeenMeansServed, Safe
  <2>2. CASE item[a] = g
    BY <2>1, <2>2 DEF Safe
  <2>3. CASE item[a] # g
    <3>1. \A b \in Scanners : b # a /\ pc[b] \in {"read", "lock"}
                   => pc'[b] = pc[b] /\ item'[b] = item[b] /\ event'[b] = event[b]
      BY <1>7 DEF ReadFails, NextEntry, Goto, TypeOK, PlacesOK, LocalsOK
    <3> QED
      BY <2>1, <2>3, <3>1, SafeAll, Untouched
  <2> QED
    BY <2>2, <2>3
<1> QED
  BY <1>1, <1>2, <1>3, <1>4, <1>5, <1>6, <1>7 DEF Pass

LEMMA OutsideSafe ==
    ASSUME SeenMeansServed, TypeOK, StopIsFinal, Tick \/ Outside \/ Start \/ Stop \/ Join \/ LoopEnds
    PROVE  SeenMeansServed'
<1> USE DEF files, owner, scan, notes
<1>1. CASE Tick \/ Start \/ Stop \/ Join \/ LoopEnds
  <2>1. UNCHANGED <<seen, dir, blurred, served, unread>>
    BY <1>1 DEF Tick, Start, Stop, Join, LoopEnds
  <2> SUFFICES ASSUME NEW g \in DOMAIN seen PROVE Safe(g)'
    BY <2>1 DEF SeenMeansServed, Safe
  <2>2. \A b \in Scanners : pc[b] \in {"read", "lock"}
                 => pc'[b] = pc[b] /\ item'[b] = item[b] /\ event'[b] = event[b]
    BY <1>1 DEF Tick, Start, Stop, Join, LoopEnds, Goto, TypeOK, PlacesOK, StopIsFinal
  <2> QED
    BY <2>1, <2>2, SafeAll, Untouched
<1>2. CASE \E m \in Asked : ToolOpens(m)
  <2>1. PICK m \in Asked : ToolOpens(m)
    BY <1>2
  <2>2. NameOf([mark |-> m, from |-> {}]) \in Names
    BY SuiteAssumption DEF NameOf, Names, TypeOK, FilesOK
  <2> QED
    BY <2>1, <2>2, OpenedSafe DEF ToolOpens
<1>3. CASE \E w \in writing : ToolCloses(w[1], w[2])
  <2>1. PICK w \in writing : ToolCloses(w[1], w[2])
    BY <1>3
  <2>2. w[1] \in DOMAIN dir
    BY DEF TypeOK, FilesOK
  <2> QED
    BY <2>1, <2>2, ClosedSafe DEF ToolCloses
<1> QED
  BY <1>1, <1>2, <1>3 DEF Outside

LEMMA InitSafe == Init => SeenMeansServed
BY DEF Init, SeenMeansServed

LEMMA NextSafe ==
    TypeOK /\ StopIsFinal /\ SeenMeansServed /\ [Next]_vars => SeenMeansServed'
<1> SUFFICES ASSUME TypeOK, StopIsFinal, SeenMeansServed, [Next]_vars PROVE SeenMeansServed'
  OBVIOUS
<1>1. CASE Tick \/ Outside \/ Start \/ Stop \/ Join \/ LoopEnds
  BY <1>1, OutsideSafe
<1>3. CASE \E a \in Scanners : List(a) \/ Pass(a)
  BY <1>3, PassSafe
<1>2. CASE UNCHANGED vars
  BY <1>2 DEF vars, files, owner, scan, notes, SeenMeansServed
<1> QED
  BY <1>1, <1>2, <1>3, NextCases

\* No event is lost but within a millisecond.
THEOREM SeenServed == Spec => []SeenMeansServed
BY InitType, NextType, InitStop, NextStop, InitSafe, NextSafe, PTL DEF Spec

-----------------------------------------------------------------------------
(* The answers form no cycle.                                              *)

\* Rank grows from every event to every answer to it.
Ranks(Rank) ==
    /\ Rank \in [Marks -> Nat]
    /\ \A e \in Events : \A i \in DOMAIN Handlers :
          Accepts(Handlers[i], e) /\ ~Skips(Handlers[i], e)
             => Rank[e.mark] < Rank[Reply(Handlers[i])]

Ranked(Rank, e) == \A m \in e.from : Rank[m] < Rank[e.mark]

RankInv(Rank) ==
    /\ \A f \in DOMAIN dir : dir[f].body = Empty \/ Ranked(Rank, dir[f].body)
    /\ \A w \in writing : Ranked(Rank, w[2])
    /\ \A a \in Scanners :
          /\ Ranked(Rank, event[a])
          /\ pc[a] = "fill" => Accepts(Handler(a), event[a]) /\ ~Skips(Handler(a), event[a])

LEMMA AnswerRanked ==
    ASSUME NEW Rank, Ranks(Rank), TypeOK, NEW a \in Scanners, next[a] \in DOMAIN Handlers,
           Ranked(Rank, event[a]),
           Accepts(Handler(a), event[a]), ~Skips(Handler(a), event[a])
    PROVE  Ranked(Rank, Answer(a))
<1>1. event[a] \in Events /\ event[a].mark \in Marks /\ event[a].from \subseteq Marks
  BY DEF TypeOK, LocalsOK, Events
<1>2. Reply(Handler(a)) \in Marks
  BY SuiteAssumption DEF Handler
<1>3. Rank[event[a].mark] < Rank[Reply(Handler(a))]
  BY <1>1 DEF Ranks, Handler
<1>4. ASSUME NEW m \in event[a].from PROVE Rank[m] < Rank[Reply(Handler(a))]
  <2>1. Rank[m] < Rank[event[a].mark]
    BY DEF Ranked
  <2>2. Rank[m] \in Nat /\ Rank[event[a].mark] \in Nat /\ Rank[Reply(Handler(a))] \in Nat
    BY <1>1, <1>2 DEF Ranks
  <2> QED
    BY <1>3, <2>1, <2>2
<1> QED
  BY <1>3, <1>4 DEF Ranked, Answer

\* An empty file, and one that is given a ranked event, keep the files ranked.
LEMMA WrittenRanked ==
    ASSUME NEW Rank, NEW f, NEW body, NEW t,
           dir' = Put(dir, f, [body |-> body, mtime |-> t]),
           \A g \in DOMAIN dir : dir[g].body = Empty \/ Ranked(Rank, dir[g].body),
           body = Empty \/ Ranked(Rank, body)
    PROVE  \A g \in DOMAIN dir' : dir'[g].body = Empty \/ Ranked(Rank, dir'[g].body)
<1> SUFFICES ASSUME NEW g \in DOMAIN dir'
             PROVE  dir'[g].body = Empty \/ Ranked(Rank, dir'[g].body)
  OBVIOUS
<1>1. CASE g = f
  <2>1. dir'[g].body = body
    BY <1>1 DEF Put
  <2> QED
    BY <2>1
<1>2. CASE g # f
  <2>1. g \in DOMAIN dir /\ dir'[g] = dir[g]
    BY <1>2 DEF Put
  <2> QED
    BY <2>1
<1> QED
  BY <1>1, <1>2

LEMMA PassRanked ==
    ASSUME NEW Rank, Ranks(Rank), TypeOK, RankInv(Rank), NEW a \in Scanners, List(a) \/ Pass(a)
    PROVE  RankInv(Rank)'
<1> USE DEF files, owner, scan, notes
<1>1. CASE \/ List(a) \/ Stat(a) \/ EndPass(a) \/ Check(a) \/ Unlock(a)
           \/ (Read(a) /\ Unreadable(a)) \/ ReadFails(a)
  <2>1. UNCHANGED <<dir, writing>>
    BY <1>1 DEF List, Stat, EndPass, Check, Unlock, Read, ReadFails
  <2>2. pc'[a] # "fill" /\ (event'[a] = event[a] \/ event'[a] = SomeEvent)
    BY <1>1 DEF List, Stat, EndPass, Check, Unlock, Read, ReadFails, NextEntry, Goto, TypeOK,
                PlacesOK, LocalsOK
  <2>3. \A b \in Scanners : b # a => /\ pc'[b] = pc[b] /\ event'[b] = event[b]
                                    /\ next'[b] = next[b]
    BY <1>1 DEF List, Stat, EndPass, Check, Unlock, Read, ReadFails, NextEntry, Goto, TypeOK,
                PlacesOK, LocalsOK
  <2>4. Ranked(Rank, SomeEvent)
    BY Defaults DEF Ranked
  <2> QED
    BY <2>1, <2>2, <2>3, <2>4 DEF RankInv, Handler
<1>2. CASE Read(a) /\ ~Unreadable(a)
  <2>1. UNCHANGED <<dir, writing, next>> /\ item[a] \in DOMAIN dir
    BY <1>2 DEF Read, TypeOK, AtEntry
  <2>2. pc'[a] = "lock" /\ event'[a] = dir[item[a]].body
    BY <1>2 DEF Read, Goto, TypeOK, PlacesOK, LocalsOK
  <2>3. \A b \in Scanners : b # a => pc'[b] = pc[b] /\ event'[b] = event[b]
    BY <1>2 DEF Read, Goto, TypeOK, PlacesOK, LocalsOK
  <2>4. Ranked(Rank, dir[item[a]].body)
    BY <1>2, <2>1 DEF Unreadable, RankInv
  <2> QED
    BY <2>1, <2>2, <2>3, <2>4 DEF RankInv, Handler
<1>3. CASE Lock(a) \/ NoAnswer(a)
  <2>1. UNCHANGED <<dir, writing, event>> /\ pc'[a] # "fill"
    BY <1>3 DEF Lock, NoAnswer, Goto, TypeOK, PlacesOK
  <2>2. \A b \in Scanners : b # a => pc'[b] = pc[b] /\ next'[b] = next[b]
    BY <1>3 DEF Lock, NoAnswer, Goto, TypeOK, PlacesOK
  <2> QED
    BY <2>1, <2>2 DEF RankInv, Handler
<1>4. CASE Call(a)
  <2>1. /\ dir' = Put(dir, NameOf(Answer(a)), [body |-> Empty, mtime |-> now])
        /\ UNCHANGED <<writing, event, next>>
    BY <1>4 DEF Call, Create
  <2>2. Accepts(Handler(a), event[a]) /\ ~Skips(Handler(a), event[a])
    BY <1>4 DEF Call
  <2>3. \A b \in Scanners : b # a => pc'[b] = pc[b]
    BY <1>4 DEF Call, Goto, TypeOK, PlacesOK
  <2>4. \A g \in DOMAIN dir' : dir'[g].body = Empty \/ Ranked(Rank, dir'[g].body)
    BY <2>1, WrittenRanked DEF RankInv
  <2> QED
    BY <2>1, <2>2, <2>3, <2>4 DEF RankInv, Handler
<1>5. CASE Close(a)
  <2>1. /\ dir' = Put(dir, item[a], [body |-> Answer(a), mtime |-> now])
        /\ UNCHANGED <<writing, event>> /\ pc'[a] = "call" /\ pc[a] = "fill"
    BY <1>5 DEF Close, Fill, Goto, TypeOK, PlacesOK
  <2>2. next[a] \in DOMAIN Handlers
    BY <2>1 DEF TypeOK, AtEntry
  <2>3. Ranked(Rank, Answer(a))
    BY <2>1, <2>2, AnswerRanked DEF RankInv
  <2>4. \A b \in Scanners : b # a => pc'[b] = pc[b] /\ next'[b] = next[b]
    BY <1>5 DEF Close, Goto, TypeOK, PlacesOK
  <2>5. \A g \in DOMAIN dir' : dir'[g].body = Empty \/ Ranked(Rank, dir'[g].body)
    BY <2>1, <2>3, WrittenRanked DEF RankInv
  <2> QED
    BY <2>1, <2>4, <2>5 DEF RankInv, Handler
<1> QED
  BY <1>1, <1>2, <1>3, <1>4, <1>5 DEF Pass

LEMMA OutsideRanked ==
    ASSUME NEW Rank, TypeOK, RankInv(Rank), Tick \/ Outside \/ Start \/ Stop \/ Join \/ LoopEnds
    PROVE  RankInv(Rank)'
<1> USE DEF files, owner, scan, notes
<1>1. CASE Tick \/ Start \/ Stop \/ Join \/ LoopEnds
  <2>1. UNCHANGED <<dir, writing, event, next>>
    BY <1>1 DEF Tick, Start, Stop, Join, LoopEnds
  <2>2. \A b \in Scanners : pc'[b] = "fill" => pc[b] = "fill"
    BY <1>1 DEF Tick, Start, Stop, Join, LoopEnds, Goto, TypeOK, PlacesOK
  <2> QED
    BY <2>1, <2>2 DEF RankInv, Handler
<1>2. CASE \E m \in Asked : ToolOpens(m)
  <2>1. PICK m \in Asked : ToolOpens(m)
    BY <1>2
  <2> DEFINE e == [mark |-> m, from |-> {}]
  <2>2. /\ dir' = Put(dir, NameOf(e), [body |-> Empty, mtime |-> now])
        /\ writing' = writing \cup {<<NameOf(e), e>>}
        /\ UNCHANGED <<pc, event, next>>
    BY <2>1 DEF ToolOpens, Create
  <2>3. Ranked(Rank, e)
    BY DEF Ranked
  <2> HIDE DEF e
  <2>4. \A g \in DOMAIN dir' : dir'[g].body = Empty \/ Ranked(Rank, dir'[g].body)
    BY <2>2, WrittenRanked DEF RankInv
  <2>5. \A w \in writing' : Ranked(Rank, w[2])
    BY <2>2, <2>3 DEF RankInv
  <2> QED
    BY <2>2, <2>4, <2>5 DEF RankInv, Handler
<1>3. CASE \E w \in writing : ToolCloses(w[1], w[2])
  <2>1. PICK w \in writing : ToolCloses(w[1], w[2])
    BY <1>3
  <2>2. /\ dir' = Put(dir, w[1], [body |-> w[2], mtime |-> now])
        /\ writing' \subseteq writing
        /\ UNCHANGED <<pc, event, next>>
    BY <2>1 DEF ToolCloses, Fill
  <2>3. \A g \in DOMAIN dir' : dir'[g].body = Empty \/ Ranked(Rank, dir'[g].body)
    BY <2>2, WrittenRanked DEF RankInv
  <2> QED
    BY <2>2, <2>3 DEF RankInv, Handler
<1> QED
  BY <1>1, <1>2, <1>3 DEF Outside

LEMMA NextRanked ==
    ASSUME NEW Rank, Ranks(Rank)
    PROVE  TypeOK /\ RankInv(Rank) /\ [Next]_vars => RankInv(Rank)'
<1> SUFFICES ASSUME TypeOK, RankInv(Rank), [Next]_vars PROVE RankInv(Rank)'
  OBVIOUS
<1>1. CASE Tick \/ Outside \/ Start \/ Stop \/ Join \/ LoopEnds
  BY <1>1, OutsideRanked
<1>3. CASE \E a \in Scanners : List(a) \/ Pass(a)
  BY <1>3, PassRanked
<1>2. CASE UNCHANGED vars
  BY <1>2 DEF vars, files, owner, scan, notes, RankInv, Handler
<1> QED
  BY <1>1, <1>2, <1>3, NextCases

\* Handlers that can be ranked make no feedback loop.  Those of the run can (what
\* AtlasAI writes above the rest), and the AtlasAI adapter with any others cannot,
\* for it answers its own answers.
THEOREM NoFeedback ==
    ASSUME NEW Rank, Ranks(Rank)
    PROVE  Spec => []ChainsEnd
<1>1. Init => RankInv(Rank)
  BY Defaults DEF Init, RankInv, Ranked
<1>2. TypeOK /\ RankInv(Rank) => ChainsEnd
  <2> SUFFICES ASSUME TypeOK, RankInv(Rank), NEW f \in DOMAIN dir, dir[f].body # Empty,
                      dir[f].body.mark \in dir[f].body.from
               PROVE  FALSE
    BY DEF ChainsEnd
  <2>1. dir[f].body.mark \in Marks
    BY DEF TypeOK, FilesOK, Bodies, Events
  <2>2. Rank[dir[f].body.mark] < Rank[dir[f].body.mark]
    BY DEF RankInv, Ranked
  <2>3. Rank[dir[f].body.mark] \in Nat
    BY <2>1 DEF Ranks
  <2> QED
    BY <2>2, <2>3
<1> QED
  BY <1>1, <1>2, InitType, NextType, NextRanked, PTL DEF Spec
=============================================================================

------------------------ MODULE PipelineWatcherProofs ------------------------
(* TLAPS proofs about PipelineWatcher, for every set of events, files and  *)
(* callbacks and any number of restarts.                                   *)
EXTENDS PipelineWatcher, TLAPS

\* The one-line tests of a scan pass are read through.
USE DEF IsNew, Parses, KeepRunning, PassDone, MutexFree, LockRefused

LEMMA ThreadsAreScanners == \A t \in Threads : t \in Scanners /\ t # Poller
BY PollerAssumption DEF Scanners

LEMMA PollerIsScanner == Poller \in Scanners
BY DEF Scanners

\* What the writers' steps and the scanners' steps leave alone.
WriterStep(e) == CreateFile(e) \/ WriteFile(e) \/ WriteFails(e)
ThreadStep(t) == LoopCheck(t) \/ ListDir(t)

LEMMA WriterFrame ==
    ASSUME NEW e \in Events, WriterStep(e)
    PROVE  UNCHANGED <<running, spawned, lockVars, scanVars, histVars>>
BY DEF WriterStep, CreateFile, WriteFile, WriteFails

LEMMA ScannerFrame ==
    ASSUME NEW a \in Scanners, ScanStep(a)
    PROVE  UNCHANGED <<dirVars, running, spawned, subs, promised>>
BY DEF ScanStep, VisitFile, ReadFile, ReadFails, LockCallbacks,
       CallBack, UnlockCallbacks, EndPass, lockVars, histVars

LEMMA ThreadFrame ==
    ASSUME NEW t \in Threads, ThreadStep(t)
    PROVE  UNCHANGED <<dirVars, running, spawned, lockVars, seen, item, next,
                       histVars>>
BY DEF ThreadStep, LoopCheck, ListDir

LEMMA NextCases ==
    ASSUME [Next]_vars
    PROVE  \/ \E e \in Events : WriterStep(e)
           \/ \E s \in Subscribers : Subscribe(s)
           \/ Start
           \/ Stop
           \/ BeginPoll
           \/ \E t \in Threads : ThreadStep(t)
           \/ \E a \in Scanners : ScanStep(a)
           \/ UNCHANGED vars
BY DEF Next, WriterStep, ThreadStep

-----------------------------------------------------------------------------
(* Type correctness.                                                       *)

LEMMA StepDir ==
    ASSUME DirTypeOK, BodyHasName, [Next]_vars
    PROVE  DirTypeOK'
<1> USE DEF DirTypeOK
<1>1. ASSUME NEW e \in Events, CreateFile(e) PROVE DirTypeOK'
  <2>1. /\ FileOf[e] \in Files
        /\ [size |-> 0, body |-> Torn] \in Contents
    BY NameAssumption DEF Contents
  <2>2. QED
    BY <1>1, <2>1 DEF CreateFile, PutFile
<1>2. ASSUME NEW e \in Events, WriteFile(e) PROVE DirTypeOK'
  <2>1. FileOf[e] \in Files /\ Length[e] \in Nat
    BY NameAssumption, LengthAssumption
  <2>2. dir[FileOf[e]] \in Contents
    BY <1>2, <2>1 DEF WriteFile, BodyHasName
  <2>3. [size |-> Overlaid(FileOf[e], Length[e]),
         body |-> IF dir[FileOf[e]].size > Length[e] THEN Torn ELSE e]
            \in Contents
    BY <2>1, <2>2 DEF Contents, Overlaid
  <2>4. QED
    BY <1>2, <2>1, <2>3 DEF WriteFile, PutFile
<1>3. ASSUME NEW e \in Events, WriteFails(e) PROVE DirTypeOK'
  <2>1. FileOf[e] \in Files /\ Length[e] \in Nat
    BY NameAssumption, LengthAssumption
  <2>2. dir[FileOf[e]] \in Contents
    BY <1>3, <2>1 DEF WriteFails, BodyHasName
  <2>3. PICK n \in 0 .. Length[e] - 1 :
           PutFile(FileOf[e], Overlaid(FileOf[e], n),
                   IF n = 0 THEN dir[FileOf[e]].body ELSE Torn)
    BY <1>3 DEF WriteFails
  <2>4. [size |-> Overlaid(FileOf[e], n),
         body |-> IF n = 0 THEN dir[FileOf[e]].body ELSE Torn] \in Contents
    BY <2>1, <2>2 DEF Contents, Overlaid
  <2>5. writer' \in [Events -> {"new", "created", "done", "failed"}]
    BY <1>3 DEF WriteFails
  <2>6. QED
    BY <2>1, <2>3, <2>4, <2>5 DEF PutFile
<1>4. CASE UNCHANGED dirVars
  BY <1>4 DEF dirVars
<1>5. QED
  BY <1>1, <1>2, <1>3, <1>4, NextCases, ScannerFrame, ThreadFrame
  DEF WriterStep, Subscribe, Start, Stop, BeginPoll, vars

\* What a scanner holds is what its place says: the part of ScannerInv that
\* type correctness needs.
ItemOK == \A a \in Scanners :
    /\ todo[a] \subseteq DOMAIN dir
    /\ pc[a] = "read" => item[a] \in DOMAIN dir
    /\ pc[a] \in {"lock", "call"} => item[a] \in Events

LEMMA StepScan ==
    ASSUME DirTypeOK, ScanTypeOK, ItemOK, [Next]_vars
    PROVE  ScanTypeOK'
<1> USE DEF ScanTypeOK
<1>1. ASSUME NEW e \in Events, WriterStep(e) PROVE ScanTypeOK'
  BY <1>1, WriterFrame DEF scanVars
<1>2. CASE Start
  <2>1. spawned + 1 \in Scanners
    BY <1>2, StartsAssumption DEF Start, Scanners, Threads
  <2>2. pc' \in [Scanners -> Places]
    BY <1>2, <2>1 DEF Start, Places
  <2>3. spawned' \in 0 .. MaxStarts
    BY <1>2, StartsAssumption DEF Start
  <2>4. QED
    BY <1>2, <2>2, <2>3 DEF Start
<1>3. CASE BeginPoll
  <2>1. pc' \in [Scanners -> Places]
    BY <1>3 DEF BeginPoll, Places
  <2>2. todo' \in [Scanners -> SUBSET Files]
    BY <1>3 DEF BeginPoll, DirTypeOK
  <2>3. QED
    BY <1>3, <2>1, <2>2 DEF BeginPoll
<1>4. ASSUME NEW t \in Threads, ThreadStep(t) PROVE ScanTypeOK'
  <2>1. pc' \in [Scanners -> Places]
    BY <1>4 DEF ThreadStep, LoopCheck, ListDir, Places
  <2>2. todo' \in [Scanners -> SUBSET Files]
    BY <1>4 DEF ThreadStep, LoopCheck, ListDir, DirTypeOK
  <2>3. QED
    BY <1>4, <2>1, <2>2, ThreadFrame
<1>5. ASSUME NEW a \in Scanners, ScanStep(a) PROVE ScanTypeOK'
  <2>1. pc' \in [Scanners -> Places]
    BY <1>5 DEF ScanStep, VisitFile, ReadFile, ReadFails, LockCallbacks,
                CallBack, UnlockCallbacks, EndPass, LeaveCallbacks, Places
  <2>2. todo' \in [Scanners -> SUBSET Files]
    BY <1>5 DEF ScanStep, VisitFile, ReadFile, ReadFails, LockCallbacks,
                CallBack, UnlockCallbacks, EndPass
  <2>3. seen' \in [Scanners -> SUBSET Files]
    BY <1>5 DEF ScanStep, VisitFile, ReadFile, ReadFails, LockCallbacks,
                CallBack, UnlockCallbacks, EndPass
  <2>4. item' \in [Scanners -> Files \cup Events \cup {Nothing}]
    <3>1. CASE ReadFile(a)
      <4>1. dir[item[a]] \in Contents
        BY <3>1 DEF ReadFile, ItemOK, DirTypeOK
      <4>2. dir[item[a]].body \in Events \cup {Torn}
        BY <4>1 DEF Contents
      <4>3. QED
        BY <3>1, <4>2 DEF ReadFile
    <3>2. CASE ~ReadFile(a)
      BY <1>5, <3>2 DEF ScanStep, VisitFile, ReadFails, LockCallbacks,
                        CallBack, UnlockCallbacks, EndPass, LeaveCallbacks
    <3>3. QED
      BY <3>1, <3>2
  <2>5. next' \in [Scanners -> Nat \ {0}]
    BY <1>5 DEF ScanStep, VisitFile, ReadFile, ReadFails, LockCallbacks,
                CallBack, UnlockCallbacks, EndPass, LeaveCallbacks
  <2>6. QED
    BY <1>5, <2>1, <2>2, <2>3, <2>4, <2>5, ScannerFrame
<1>6. CASE UNCHANGED <<spawned, scanVars>> /\ running' \in BOOLEAN
  BY <1>6 DEF scanVars
<1>7. QED
  BY <1>1, <1>2, <1>3, <1>4, <1>5, <1>6, NextCases
  DEF Subscribe, Stop, vars

LEMMA StepLock ==
    ASSUME ScanTypeOK, LockTypeOK, [Next]_vars
    PROVE  LockTypeOK'
<1> USE DEF LockTypeOK
<1>1. ASSUME NEW e \in Events, WriterStep(e) PROVE LockTypeOK'
  BY <1>1, WriterFrame DEF lockVars
<1>2. ASSUME NEW s \in Subscribers, Subscribe(s) PROVE LockTypeOK'
  BY <1>2 DEF Subscribe
<1>3. ASSUME NEW a \in Scanners, ScanStep(a) PROVE LockTypeOK'
  <2>1. subs' = subs
    BY <1>3, ScannerFrame
  <2>2. /\ holder' \in Scanners \cup {NoScanner}
        /\ poisoned' \in BOOLEAN
        /\ seenPoisoned' \in BOOLEAN
    BY <1>3 DEF ScanStep, VisitFile, ReadFile, ReadFails, LockCallbacks,
                CallBack, UnlockCallbacks, EndPass, LeaveCallbacks, lockVars
  <2>3. QED
    BY <2>1, <2>2
<1>4. CASE UNCHANGED lockVars
  BY <1>4 DEF lockVars
<1>5. QED
  BY <1>1, <1>2, <1>3, <1>4, NextCases, ThreadFrame
  DEF Start, Stop, BeginPoll, vars

LEMMA StepHist ==
    ASSUME DirTypeOK, ScanTypeOK, LockTypeOK, HistTypeOK, ItemOK, [Next]_vars
    PROVE  HistTypeOK'
<1> USE DEF HistTypeOK
<1>1. ASSUME NEW e \in Events, WriterStep(e) PROVE HistTypeOK'
  BY <1>1, WriterFrame DEF histVars
<1>2. CASE BeginPoll
  BY <1>2, InitSubsAssumption DEF BeginPoll, ToSet
<1>3. ASSUME NEW a \in Scanners, ReadFile(a) PROVE HistTypeOK'
  BY <1>3 DEF ReadFile, Unfinished
<1>7. ASSUME NEW a \in Scanners, ReadFails(a) PROVE HistTypeOK'
  <2>1. item[a] \in Files
    BY <1>7 DEF ReadFails, ItemOK, DirTypeOK
  <2>2. QED
    BY <1>7, <2>1 DEF ReadFails
<1>4. ASSUME NEW a \in Scanners, CallBack(a) PROVE HistTypeOK'
  <2>1. <<a, subs[next[a]], item[a]>> \in Scanners \X Subscribers \X Events
    BY <1>4 DEF CallBack, ItemOK, ScanTypeOK, LockTypeOK
  <2>2. QED
    BY <1>4, <2>1 DEF CallBack
<1>5. CASE UNCHANGED histVars
  BY <1>5 DEF histVars
<1>6. QED
  BY <1>1, <1>2, <1>3, <1>4, <1>5, <1>7, NextCases, ThreadFrame
  DEF ScanStep, Subscribe, Start, Stop, VisitFile, LockCallbacks,
      UnlockCallbacks, EndPass, vars

-----------------------------------------------------------------------------
(* The callbacks mutex.                                                    *)

\* Threads not spawned yet are nowhere.
UnspawnedOff == \A t \in Threads : t > spawned => pc[t] = "off"

LEMMA StepUnspawned ==
    ASSUME ScanTypeOK, UnspawnedOff, [Next]_vars
    PROVE  UnspawnedOff'
<1> USE PollerAssumption, ThreadsAreScanners DEF UnspawnedOff, ScanTypeOK
<1>1. ASSUME NEW e \in Events, WriterStep(e) PROVE UnspawnedOff'
  BY <1>1, WriterFrame DEF scanVars
<1>2. CASE Start
  BY <1>2, StartsAssumption DEF Start, Threads
<1>3. CASE BeginPoll
  BY <1>3 DEF BeginPoll
<1>4. ASSUME NEW t \in Threads, ThreadStep(t) PROVE UnspawnedOff'
  BY <1>4, StartsAssumption DEF ThreadStep, LoopCheck, ListDir, Threads
<1>5. ASSUME NEW a \in Scanners, ScanStep(a) PROVE UnspawnedOff'
  <2>1. spawned' = spawned
    BY <1>5, ScannerFrame
  <2>2. \A t \in Threads : pc[t] = "off" => pc'[t] = "off"
    BY <1>5 DEF ScanStep, VisitFile, ReadFile, ReadFails, LockCallbacks,
                CallBack, UnlockCallbacks, EndPass, LeaveCallbacks
  <2>3. QED
    BY <2>1, <2>2
<1>6. CASE UNCHANGED <<spawned, pc>>
  BY <1>6
<1>7. QED
  BY <1>1, <1>2, <1>3, <1>4, <1>5, <1>6, NextCases
  DEF Subscribe, Stop, vars, scanVars

\* A step of one scanner leaves the place of every other where it was.
LEMMA StepExclusive ==
    ASSUME ScanTypeOK, UnspawnedOff, CallbacksExclusive, [Next]_vars
    PROVE  CallbacksExclusive'
<1> USE PollerAssumption DEF CallbacksExclusive, ScanTypeOK
<1>1. ASSUME NEW e \in Events, WriterStep(e) PROVE CallbacksExclusive'
  BY <1>1, WriterFrame DEF scanVars, lockVars
<1>2. ASSUME NEW s \in Subscribers, Subscribe(s) PROVE CallbacksExclusive'
  BY <1>2 DEF Subscribe, scanVars
<1>3. CASE Start
  <2>1. /\ spawned + 1 \in Scanners
        /\ pc' = [pc EXCEPT ![spawned + 1] = "check"]
        /\ holder' = holder
    BY <1>3, StartsAssumption DEF Start, Scanners, Threads, lockVars
  <2>2. pc[spawned + 1] # "call"
    BY <1>3, StartsAssumption DEF Start, UnspawnedOff, Threads
  <2>3. QED
    BY <2>1, <2>2
<1>4. CASE BeginPoll
  BY <1>4, PollerIsScanner DEF BeginPoll, lockVars
<1>5. ASSUME NEW t \in Threads, ThreadStep(t) PROVE CallbacksExclusive'
  BY <1>5, ThreadsAreScanners DEF ThreadStep, LoopCheck, ListDir, lockVars
<1>6. ASSUME NEW a \in Scanners, ScanStep(a) PROVE CallbacksExclusive'
  BY <1>6 DEF ScanStep, VisitFile, ReadFile, ReadFails, LockCallbacks,
              CallBack, UnlockCallbacks, EndPass, LeaveCallbacks, lockVars
<1>7. CASE UNCHANGED <<pc, holder>>
  BY <1>7
<1>8. QED
  BY <1>1, <1>2, <1>3, <1>4, <1>5, <1>6, <1>7, NextCases
  DEF Stop, vars, scanVars, lockVars

-----------------------------------------------------------------------------
(* What a scanner has seen and delivered.                                  *)

LEMMA StepBody ==
    ASSUME DirTypeOK, BodyHasName, [Next]_vars
    PROVE  BodyHasName' /\ DOMAIN dir \subseteq DOMAIN dir'
<1> USE TornAssumption, NameAssumption DEF BodyHasName, DirTypeOK
<1>1. ASSUME NEW e \in Events, CreateFile(e)
      PROVE  BodyHasName' /\ DOMAIN dir \subseteq DOMAIN dir'
  BY <1>1 DEF CreateFile, PutFile
<1>2. ASSUME NEW e \in Events, WriteFile(e)
      PROVE  BodyHasName' /\ DOMAIN dir \subseteq DOMAIN dir'
  BY <1>2 DEF WriteFile, PutFile
<1>3. ASSUME NEW e \in Events, WriteFails(e)
      PROVE  BodyHasName' /\ DOMAIN dir \subseteq DOMAIN dir'
  <2>1. PICK n \in 0 .. Length[e] - 1 :
           PutFile(FileOf[e], Overlaid(FileOf[e], n),
                   IF n = 0 THEN dir[FileOf[e]].body ELSE Torn)
    BY <1>3 DEF WriteFails
  <2>2. QED
    BY <1>3, <2>1 DEF WriteFails, PutFile
<1>4. CASE UNCHANGED dirVars
  BY <1>4 DEF dirVars
<1>5. QED
  BY <1>1, <1>2, <1>3, <1>4, NextCases, ScannerFrame, ThreadFrame
  DEF WriterStep, Subscribe, Start, Stop, BeginPoll, vars

PoisonFree == poisoned => holder = NoScanner

LEMMA StepPoison ==
    ASSUME PoisonFree, CallbacksExclusive, [Next]_vars
    PROVE  /\ PoisonFree'
           /\ poisoned => delivered' = delivered
<1> USE PollerAssumption DEF PoisonFree, CallbacksExclusive
<1>1. ASSUME NEW a \in Scanners, ScanStep(a)
      PROVE  PoisonFree' /\ (poisoned => delivered' = delivered)
  BY <1>1 DEF ScanStep, VisitFile, ReadFile, ReadFails, LockCallbacks,
              CallBack, UnlockCallbacks, EndPass, LeaveCallbacks, lockVars, histVars
<1>2. CASE UNCHANGED <<holder, poisoned, delivered>>
  BY <1>2
<1>3. QED
  BY <1>1, <1>2, NextCases, WriterFrame, ThreadFrame
  DEF Subscribe, Start, Stop, BeginPoll, vars, lockVars, histVars

LEMMA StepSubs ==
    ASSUME LockTypeOK, IsInjective(subs), [Next]_vars
    PROVE  IsInjective(subs)'
<1>1. ASSUME NEW s \in Subscribers, Subscribe(s) PROVE IsInjective(subs)'
  <2>1. /\ subs' = Append(subs, s)
        /\ \A i \in 1 .. Len(subs) : subs[i] # s
    BY <1>1 DEF Subscribe, ToSet, LockTypeOK
  <2>2. QED
    BY <2>1 DEF IsInjective, LockTypeOK
<1>2. CASE subs' = subs
  BY <1>2 DEF IsInjective
<1>3. QED
  BY <1>1, <1>2, NextCases, WriterFrame, ScannerFrame, ThreadFrame
  DEF Start, Stop, BeginPoll, vars, lockVars

\* The conjuncts of ScannerInv, over all scanners.
AllScanners == \A a \in Scanners : ScannerInv(a)

LEMMA ScannersItem == AllScanners => ItemOK
BY DEF AllScanners, ItemOK, ScannerInv

\* One step of scanner a keeps its own invariant ...
LEMMA StepScanner ==
    ASSUME TypeOK, ScanInv, CallbacksExclusive,
           NEW a \in Scanners, ScanStep(a)
    PROVE  ScannerInv(a)'
<1> USE DEF ScannerInv, AtFile
<1>1. /\ ScannerInv(a)
      /\ UNCHANGED <<dir, subs>>
  BY ScannerFrame DEF ScanInv, dirVars
<1>2. CASE VisitFile(a)
  <2>1. PICK f \in todo[a] :
          /\ todo' = [todo EXCEPT ![a] = @ \ {f}]
          /\ IF f \in seen[a]
             THEN UNCHANGED <<pc, seen, item>>
             ELSE /\ seen' = [seen EXCEPT ![a] = @ \cup {f}]
                  /\ item' = [item EXCEPT ![a] = f]
                  /\ pc' = [pc EXCEPT ![a] = "read"]
    BY <1>2 DEF VisitFile
  <2>2. UNCHANGED <<next, delivered>> /\ pc[a] = "scan"
    BY <1>2 DEF VisitFile, histVars
  <2>3. CASE f \in seen[a]
    BY <1>1, <2>1, <2>2, <2>3 DEF TypeOK, ScanTypeOK
  <2>4. CASE f \notin seen[a]
    BY <1>1, <2>1, <2>2, <2>4 DEF TypeOK, ScanTypeOK
  <2>5. QED
    BY <2>3, <2>4
<1>3. CASE ReadFile(a)
  <2>1. /\ item[a] \in DOMAIN dir
        /\ dir[item[a]].body \in Events \cup {Torn}
        /\ dir[item[a]].body # Torn => FileOf[dir[item[a]].body] = item[a]
    BY <1>1, <1>3 DEF ReadFile, TypeOK, DirTypeOK, Contents, ScanInv,
                      BodyHasName
  <2>2. UNCHANGED <<todo, seen, next, delivered>>
    BY <1>3 DEF ReadFile
  <2>3. CASE dir[item[a]].body = Torn
    BY <1>1, <1>3, <2>1, <2>2, <2>3 DEF ReadFile, TypeOK, ScanTypeOK
  <2>4. CASE dir[item[a]].body # Torn
    BY <1>1, <1>3, <2>1, <2>2, <2>4 DEF ReadFile, TypeOK, ScanTypeOK
  <2>5. QED
    BY <2>3, <2>4
<1>4. CASE LockCallbacks(a)
  BY <1>1, <1>4 DEF LockCallbacks, TypeOK, ScanTypeOK, histVars
<1>5. CASE CallBack(a)
  <2>1. /\ pc[a] = "call" /\ item[a] \in Events
        /\ FileOf[item[a]] \in seen[a]
        /\ subs[next[a]] \in Subscribers
        /\ next[a] \in Nat \ {0}
    BY <1>1, <1>5 DEF CallBack, TypeOK, ScanTypeOK, LockTypeOK
  <2>2. /\ delivered' = delivered \cup {<<a, subs[next[a]], item[a]>>}
        /\ UNCHANGED <<todo, seen>>
    BY <1>5 DEF CallBack
  <2>3. \A s \in Subscribers, e \in Events :
          <<a, s, e>> \in delivered' => FileOf[e] \in seen'[a]
    BY <1>1, <2>1, <2>2
  <2>4. CASE <<subs[next[a]], item[a]>> \in PanicsOn
    BY <1>1, <1>5, <2>2, <2>3, <2>4
    DEF CallBack, LeaveCallbacks, TypeOK, ScanTypeOK
  <2>5. CASE <<subs[next[a]], item[a]>> \notin PanicsOn
    <3>1. /\ next' = [next EXCEPT ![a] = @ + 1]
          /\ UNCHANGED <<pc, item>>
      BY <1>5, <2>5 DEF CallBack
    <3>2. next'[a] = next[a] + 1
      BY <3>1 DEF TypeOK, ScanTypeOK
    <3>3. \A s \in Subscribers, e \in Events :
            <<a, s, e>> \in delivered' /\ FileOf[e] = FileOf[item[a]] =>
                \E i \in 1 .. next'[a] - 1 : subs[i] = s
      BY <1>1, <2>1, <2>2, <3>2
    <3>4. QED
      BY <1>1, <2>1, <2>2, <2>3, <3>1, <3>3
  <2>6. QED
    BY <2>4, <2>5
<1>6. CASE UnlockCallbacks(a)
  BY <1>1, <1>6 DEF UnlockCallbacks, LeaveCallbacks, TypeOK, ScanTypeOK,
                    histVars
<1>7. CASE EndPass(a)
  BY <1>1, <1>7 DEF EndPass, TypeOK, ScanTypeOK, histVars
<1>8. CASE ReadFails(a)
  BY <1>1, <1>8 DEF ReadFails, TypeOK, ScanTypeOK
<1>9. QED
  BY <1>2, <1>3, <1>4, <1>5, <1>6, <1>7, <1>8 DEF ScanStep

\* ... and that of every other scanner b.
LEMMA StepOther ==
    ASSUME TypeOK, ScanInv,
           NEW a \in Scanners, ScanStep(a), NEW b \in Scanners, b # a
    PROVE  ScannerInv(b)'
<1>1. /\ ScannerInv(b)
      /\ UNCHANGED <<dir, subs>>
  BY ScannerFrame DEF ScanInv, dirVars
<1>2. /\ pc'[b] = pc[b] /\ item'[b] = item[b] /\ next'[b] = next[b]
      /\ todo'[b] = todo[b] /\ seen'[b] = seen[b]
  BY DEF ScanStep, VisitFile, ReadFile, ReadFails, LockCallbacks,
         CallBack, UnlockCallbacks, EndPass, LeaveCallbacks, TypeOK, ScanTypeOK
<1>3. \A s \in Subscribers, e \in Events :
        <<b, s, e>> \in delivered' => <<b, s, e>> \in delivered
  BY DEF ScanStep, VisitFile, ReadFile, ReadFails, LockCallbacks,
         CallBack, UnlockCallbacks, EndPass, histVars
<1>4. QED
  BY <1>1, <1>2, <1>3 DEF ScannerInv, AtFile

LEMMA StepAllScanners ==
    ASSUME TypeOK, ScanInv, CallbacksExclusive, [Next]_vars
    PROVE  AllScanners'
<1> SUFFICES ASSUME NEW b \in Scanners PROVE ScannerInv(b)'
  BY DEF AllScanners
<1>1. ScannerInv(b) /\ BodyHasName
  BY DEF ScanInv
<1>2. ASSUME NEW e \in Events, WriterStep(e) PROVE ScannerInv(b)'
  <2>1. DOMAIN dir \subseteq DOMAIN dir'
    BY <1>1, StepBody DEF TypeOK
  <2>2. UNCHANGED <<scanVars, subs, delivered>>
    BY <1>2, WriterFrame DEF lockVars, histVars
  <2>3. QED
    BY <1>1, <2>1, <2>2 DEF ScannerInv, AtFile, scanVars
<1>3. ASSUME NEW s \in Subscribers, Subscribe(s) PROVE ScannerInv(b)'
  <2>1. pc[b] # "call"
    BY <1>3, PollerAssumption DEF Subscribe, CallbacksExclusive
  <2>2. UNCHANGED <<dir, scanVars, delivered>>
    BY <1>3 DEF Subscribe, dirVars, histVars
  <2>3. QED
    BY <1>1, <2>1, <2>2 DEF ScannerInv, AtFile, scanVars
<1>4. CASE Start
  <2>1. /\ UNCHANGED <<dir, subs, todo, seen, item, next, delivered>>
        /\ spawned + 1 \in Threads
        /\ pc' = [pc EXCEPT ![spawned + 1] = "check"]
    BY <1>4, StartsAssumption
    DEF Start, dirVars, lockVars, histVars, Threads, TypeOK, ScanTypeOK
  <2>2. CASE b = spawned + 1
    <3>1. pc[b] = "off" /\ pc'[b] = "check"
      BY <2>1, <2>2, StartsAssumption
      DEF ScanInv, Threads, TypeOK, ScanTypeOK
    <3>2. QED
      BY <1>1, <2>1, <3>1 DEF ScannerInv, AtFile
  <2>3. CASE b # spawned + 1
    <3>1. pc'[b] = pc[b]
      BY <2>1, <2>3 DEF TypeOK, ScanTypeOK
    <3>2. QED
      BY <1>1, <2>1, <3>1 DEF ScannerInv, AtFile
  <2>4. QED
    BY <2>2, <2>3
<1>5. CASE BeginPoll
  <2>1. /\ UNCHANGED <<dir, subs, seen, item, next, delivered>>
        /\ pc[Poller] = "off"
        /\ pc' = [pc EXCEPT ![Poller] = "scan"]
        /\ \E listed \in SUBSET DOMAIN dir : todo' = [todo EXCEPT ![Poller] = listed]
    BY <1>5 DEF BeginPoll, dirVars, lockVars
  <2>2. CASE b = Poller
    <3>1. pc[b] = "off" /\ pc'[b] = "scan" /\ todo'[b] \subseteq DOMAIN dir
      BY <2>1, <2>2 DEF TypeOK, ScanTypeOK
    <3>2. QED
      BY <1>1, <2>1, <3>1 DEF ScannerInv, AtFile
  <2>3. CASE b # Poller
    <3>1. pc'[b] = pc[b] /\ todo'[b] = todo[b]
      BY <2>1, <2>3 DEF TypeOK, ScanTypeOK
    <3>2. QED
      BY <1>1, <2>1, <3>1 DEF ScannerInv, AtFile
  <2>4. QED
    BY <2>2, <2>3
<1>6. ASSUME NEW t \in Threads, ThreadStep(t) PROVE ScannerInv(b)'
  <2>1. UNCHANGED <<dir, subs, seen, item, next, delivered>>
    BY <1>6, ThreadFrame DEF dirVars, lockVars, histVars
  <2>2. /\ pc'[b] = pc[b] \/ (pc[b] # "call" /\ pc'[b] \in {"list", "ended", "scan"})
        /\ todo'[b] = todo[b] \/ todo'[b] \subseteq DOMAIN dir
    BY <1>6, ThreadsAreScanners
    DEF ThreadStep, LoopCheck, ListDir, TypeOK, ScanTypeOK
  <2>3. QED
    BY <1>1, <2>1, <2>2 DEF ScannerInv, AtFile
<1>7. ASSUME NEW a \in Scanners, ScanStep(a) PROVE ScannerInv(b)'
  BY <1>7, StepScanner, StepOther
<1>8. CASE UNCHANGED <<dir, scanVars, subs, delivered>>
  BY <1>1, <1>8 DEF ScannerInv, AtFile, scanVars
<1>9. QED
  BY <1>2, <1>3, <1>4, <1>5, <1>6, <1>7, <1>8, NextCases
  DEF Stop, vars, dirVars, lockVars, histVars

LEMMA StepOnce ==
    ASSUME TypeOK, ScanInv, OncePerScanner, [Next]_vars
    PROVE  OncePerScanner'
<1> USE DEF OncePerScanner
<1>1. ASSUME NEW a \in Scanners, CallBack(a) PROVE OncePerScanner'
  <2>1. /\ pc[a] = "call" /\ item[a] \in Events
        /\ AtFile(a, FileOf[item[a]])
    BY <1>1 DEF CallBack, ScanInv, ScannerInv
  <2>2. /\ next[a] \in 1 .. Len(subs) /\ subs[next[a]] \in Subscribers
        /\ DOMAIN subs = 1 .. Len(subs) /\ Len(subs) \in Nat
    BY <1>1 DEF CallBack, TypeOK, ScanTypeOK, LockTypeOK
  <2>3. \A i \in 1 .. next[a] - 1 : subs[i] # subs[next[a]]
    BY <2>2 DEF ScanInv, IsInjective
  <2>4. <<a, subs[next[a]], item[a]>> \notin delivered
    BY <2>1, <2>2, <2>3 DEF AtFile
  <2>5. QED
    BY <1>1, <2>4 DEF CallBack
<1>2. CASE repeated' = repeated
  BY <1>2
<1>3. QED
  BY <1>1, <1>2, NextCases, WriterFrame, ThreadFrame
  DEF Subscribe, Start, Stop, BeginPoll, ScanStep, VisitFile, ReadFile,
      ReadFails, LockCallbacks, UnlockCallbacks, EndPass, vars, histVars

-----------------------------------------------------------------------------
(* The inductive invariant and its consequences.                           *)

IInv == TypeOK /\ CallbacksExclusive /\ ScanInv /\ OncePerScanner

LEMMA InitIInv == Init => IInv
<1> SUFFICES ASSUME Init PROVE IInv
  OBVIOUS
<1>1. dir = [f \in {} |-> [size |-> 0, body |-> Torn]]
  BY DEF Init
<1>2. DOMAIN dir = {}
  BY <1>1
<1>3. DirTypeOK
  BY <1>2 DEF Init, DirTypeOK
<1>4. ScanTypeOK
  <2>1. running \in BOOLEAN /\ spawned \in 0 .. MaxStarts
    <3>1. running \in BOOLEAN
      BY DEF Init
    <3>2. spawned \in 0 .. MaxStarts
      <4>1. spawned = 0
        BY DEF Init
      <4>2. QED
        BY <4>1, StartsAssumption
    <3>3. QED
      BY <3>1, <3>2
  <2>2. pc \in [Scanners -> Places]
    BY DEF Init, Places
  <2>3. todo \in [Scanners -> SUBSET Files] /\ seen \in [Scanners -> SUBSET Files]
    BY DEF Init
  <2>4. /\ item \in [Scanners -> Files \cup Events \cup {Nothing}]
        /\ next \in [Scanners -> Nat \ {0}]
    BY DEF Init
  <2>5. QED
    BY <2>1, <2>2, <2>3, <2>4 DEF ScanTypeOK
<1>5. LockTypeOK /\ HistTypeOK
  BY InitSubsAssumption DEF Init, LockTypeOK, HistTypeOK
<1>6. CallbacksExclusive /\ OncePerScanner
  BY PollerAssumption DEF Init, CallbacksExclusive, OncePerScanner
<1>7. BodyHasName
  BY <1>2 DEF Init, BodyHasName
<1>8. ASSUME NEW a \in Scanners PROVE ScannerInv(a)
  BY DEF Init, ScannerInv, AtFile
<1>9. /\ IsInjective(subs)
      /\ poisoned => holder = NoScanner
      /\ \A t \in Threads : t > spawned => pc[t] = "off"
  BY InitSubsAssumption, ThreadsAreScanners DEF Init
<1>10. QED
  BY <1>3, <1>4, <1>5, <1>6, <1>7, <1>8, <1>9 DEF IInv, TypeOK, ScanInv

LEMMA NextIInv == IInv /\ [Next]_vars => IInv'
<1> SUFFICES ASSUME IInv, [Next]_vars PROVE IInv'
  OBVIOUS
<1> USE DEF IInv
<1>1. /\ DirTypeOK /\ ScanTypeOK /\ LockTypeOK /\ HistTypeOK
      /\ BodyHasName /\ UnspawnedOff /\ AllScanners /\ IsInjective(subs)
      /\ PoisonFree
  BY DEF TypeOK, ScanInv, UnspawnedOff, AllScanners, PoisonFree
<1>2. ItemOK
  BY <1>1, ScannersItem
<1>3. TypeOK'
  BY <1>1, <1>2, StepDir, StepScan, StepLock, StepHist DEF TypeOK
<1>4. CallbacksExclusive'
  BY <1>1, StepExclusive
<1>5. ScanInv'
  BY <1>1, StepBody, StepSubs, StepUnspawned, StepAllScanners, StepPoison
  DEF ScanInv, UnspawnedOff, AllScanners, PoisonFree
<1>6. OncePerScanner'
  BY StepOnce
<1>7. QED
  BY <1>3, <1>4, <1>5, <1>6

\* Every variable of the watcher keeps its type.
THEOREM WatcherTypeCorrect == Spec => []TypeOK
<1>1. IInv => TypeOK
  BY DEF IInv
<1>2. QED
  BY InitIInv, NextIInv, <1>1, PTL DEF Spec

\* However many threads start(), stop() and start() leave running beside
\* poll(), the callbacks run for one of them at a time.
THEOREM CallbacksNeverOverlap == Spec => []CallbacksExclusive
<1>1. IInv => CallbacksExclusive
  BY DEF IInv
<1>2. QED
  BY InitIInv, NextIInv, <1>1, PTL DEF Spec

\* No scanner hands an event to a callback twice, whatever the tools rewrite.
THEOREM NoScannerRepeats == Spec => []OncePerScanner
<1>1. IInv => OncePerScanner
  BY DEF IInv
<1>2. QED
  BY InitIInv, NextIInv, <1>1, PTL DEF Spec

\* A panicking callback silences the watcher for good: the code never clears
\* the mutex's poison, and no callback runs while it is set.
THEOREM PoisonIsFinal == Spec => PoisonSilences
<1>1. IInv /\ [Next]_vars => [poisoned => delivered' = delivered]_vars
  BY StepPoison DEF IInv, ScanInv, PoisonFree
<1>2. QED
  BY InitIInv, NextIInv, <1>1, PTL DEF Spec, PoisonSilences
-----------------------------------------------------------------------------
(* What poll() owes.  An event it must serve is excused, or its file is     *)
(* among those of the pass still to visit; a file it has marked seen is in  *)
(* its hands until it is delivered, could not be read or came too early.    *)

Early == ToSet(InitSubs)

Excused(s, e) == \/ <<Poller, s, e>> \in delivered
                 \/ e \in tooEarly
                 \/ <<Poller, FileOf[e]>> \in unread
                 \/ NameTaken(e)
                 \/ poisoned

InHand(s, e) ==
    \/ pc[Poller] = "read" /\ item[Poller] = FileOf[e]
    \/ pc[Poller] = "lock" /\ item[Poller] = e
    \/ /\ pc[Poller] = "call" /\ item[Poller] = e
       /\ \E i \in 1 .. Len(subs) : i >= next[Poller] /\ subs[i] = s

Dealt(s, e) == FileOf[e] \in seen[Poller] => Excused(s, e) \/ InHand(s, e)

Due(s, e) == <<s, e>> \in promised =>
                \/ Excused(s, e)
                \/ FileOf[e] \in seen[Poller]
                \/ pc[Poller] # "off" /\ FileOf[e] \in todo[Poller]

\* Whoever has begun to write an event has made its file, and a file is there
\* for no other reason; as long as nobody else takes the name, the file is empty
\* until the event is written and holds it from then on.
DirKnown ==
    /\ \A e \in Events : writer[e] # "new" => FileOf[e] \in DOMAIN dir
    /\ \A f \in DOMAIN dir : dir[f].body # Torn => writer[dir[f].body] # "new"
    /\ \A f \in DOMAIN dir : \E e \in Events : FileOf[e] = f /\ writer[e] # "new"
    /\ \A e \in Events : ~ NameTaken(e) =>
         /\ writer[e] = "created" => dir[FileOf[e]].size = 0
         /\ writer[e] = "done" => dir[FileOf[e]].body = e

EarlyKept == /\ \A s \in Early : \E i \in 1 .. Len(subs) : subs[i] = s
             /\ promised \subseteq Early \X Events

ServeInv == /\ DirKnown
            /\ EarlyKept
            /\ \A s \in Early, e \in Events : Dealt(s, e) /\ Due(s, e)

\* A name that is nobody else's is so because it was, and its file is touched
\* by nobody else's step.
OwnFile(e) == ~ NameTaken(e) =>
    /\ writer[e] = "created" => dir[FileOf[e]].size = 0
    /\ writer[e] = "done" => dir[FileOf[e]].body = e

LEMMA StepOwnFile ==
    ASSUME DirTypeOK, NEW e \in Events, NEW w, NEW n, NEW b,
           writer' = [writer EXCEPT ![e] = w], w # "new",
           PutFile(FileOf[e], n, b),
           w = "created" => n = 0,
           w = "done" /\ ~ NameTaken(e) => b = e,
           NEW d \in Events, writer[d] # "new" => FileOf[d] \in DOMAIN dir,
           OwnFile(d)
    PROVE  OwnFile(d)'
<1> SUFFICES ASSUME ~ NameTaken(d)'
             PROVE  /\ writer'[d] = "created" => dir'[FileOf[d]].size = 0
                    /\ writer'[d] = "done" => dir'[FileOf[d]].body = d
  BY DEF OwnFile
<1>1. ~ NameTaken(d) /\ (d # e => FileOf[d] # FileOf[e])
  BY DEF NameTaken, DirTypeOK
<1>2. CASE d = e
  BY <1>1, <1>2 DEF PutFile, DirTypeOK
<1>3. CASE d # e
  <2>1. writer'[d] = writer[d]
    BY <1>3 DEF DirTypeOK
  <2>2. FileOf[d] \in DOMAIN dir => dir'[FileOf[d]] = dir[FileOf[d]]
    BY <1>1, <1>3 DEF PutFile
  <2>3. QED
    BY <1>1, <2>1, <2>2 DEF OwnFile
<1>4. QED
  BY <1>2, <1>3

LEMMA StepKnown ==
    ASSUME DirTypeOK, BodyHasName, DirKnown, [Next]_vars
    PROVE  /\ DirKnown'
           /\ \A e \in Events : writer[e] # "new" => writer'[e] # "new"
<1> DEFINE Goal == /\ DirKnown'
                   /\ \A e \in Events : writer[e] # "new" => writer'[e] # "new"
           Named(f) == \E e \in Events : FileOf[e] = f /\ writer[e] # "new"
<1>0. /\ \A e \in Events : writer[e] # "new" => FileOf[e] \in DOMAIN dir
      /\ \A f \in DOMAIN dir : dir[f].body # Torn => writer[dir[f].body] # "new"
      /\ \A f \in DOMAIN dir : Named(f)
      /\ \A e \in Events : OwnFile(e)
  BY DEF DirKnown, OwnFile
<1>1. ASSUME NEW e \in Events, NEW w \in {"created", "done", "failed"}, NEW n,
             NEW b \in Events \cup {Torn},
             writer' = [writer EXCEPT ![e] = w],
             PutFile(FileOf[e], n, b),
             b = e \/ b = Torn \/ (FileOf[e] \in DOMAIN dir /\ b = dir[FileOf[e]].body),
             w = "created" => n = 0,
             w = "done" /\ ~ NameTaken(e) => b = e
      PROVE  Goal
  <2>1. \A d \in Events : writer[d] # "new" => writer'[d] # "new"
    BY <1>1 DEF DirTypeOK
  <2>2. DOMAIN dir' = DOMAIN dir \cup {FileOf[e]} /\ dir'[FileOf[e]].body = b
        /\ \A f \in DOMAIN dir : f # FileOf[e] => dir'[f] = dir[f]
    BY <1>1 DEF PutFile
  <2>3. \A d \in Events : writer'[d] # "new" => FileOf[d] \in DOMAIN dir'
    BY <1>0, <1>1, <2>2 DEF DirTypeOK
  <2>4. \A f \in DOMAIN dir' : dir'[f].body # Torn => writer'[dir'[f].body] # "new"
    <3>1. writer'[e] # "new"
      BY <1>1 DEF DirTypeOK
    <3>2. \A f \in DOMAIN dir : dir[f].body \in Events \cup {Torn}
      BY DEF DirTypeOK, Contents
    <3>3. QED
      BY <1>0, <1>1, <2>1, <2>2, <3>1, <3>2
  <2>5. \A f \in DOMAIN dir' : Named(f)'
    <3>1. Named(FileOf[e])'
      BY <1>1 DEF DirTypeOK
    <3>2. \A f \in DOMAIN dir : Named(f)'
      BY <1>0, <2>1
    <3>3. QED
      BY <2>2, <3>1, <3>2
  <2>6. \A d \in Events : OwnFile(d)'
    BY <1>0, <1>1, StepOwnFile
  <2>7. QED
    BY <2>1, <2>3, <2>4, <2>5, <2>6 DEF DirKnown, OwnFile
<1>2. ASSUME NEW e \in Events, CreateFile(e) PROVE Goal
  <2>1. writer' = [writer EXCEPT ![e] = "created"] /\ PutFile(FileOf[e], 0, Torn)
    BY <1>2 DEF CreateFile
  <2>2. QED
    BY <1>1, <2>1
<1>3. ASSUME NEW e \in Events, WriteFile(e) PROVE Goal
  <2> DEFINE f == FileOf[e]
             b == IF dir[f].size > Length[e] THEN Torn ELSE e
  <2>1. /\ writer' = [writer EXCEPT ![e] = "done"] /\ writer[e] = "created"
        /\ PutFile(f, Overlaid(f, Length[e]), b)
    BY <1>3 DEF WriteFile
  <2>2. ~ NameTaken(e) => b = e
    BY <1>0, <2>1, LengthAssumption DEF OwnFile
  <2>3. b \in {Torn, e}
    OBVIOUS
  <2>4. QED
    BY <1>1, <2>1, <2>2, <2>3
<1>4. ASSUME NEW e \in Events, WriteFails(e) PROVE Goal
  <2>1. PICK n \in 0 .. Length[e] - 1 :
           PutFile(FileOf[e], Overlaid(FileOf[e], n),
                   IF n = 0 THEN dir[FileOf[e]].body ELSE Torn)
    BY <1>4 DEF WriteFails
  <2> DEFINE b == IF n = 0 THEN dir[FileOf[e]].body ELSE Torn
  <2>2. writer[e] = "created" /\ writer' = [writer EXCEPT ![e] = "failed"]
    BY <1>4 DEF WriteFails
  <2>3. FileOf[e] \in DOMAIN dir
    BY <1>0, <2>2
  <2>4. b \in Events \cup {Torn} /\ (b = Torn \/ b = dir[FileOf[e]].body)
    BY <2>3 DEF DirTypeOK, Contents
  <2>5. QED
    BY <1>1, <2>1, <2>2, <2>3, <2>4
<1>5. CASE UNCHANGED dirVars
  BY <1>5 DEF dirVars, DirKnown, NameTaken
<1>6. QED
  BY <1>2, <1>3, <1>4, <1>5, NextCases, ScannerFrame, ThreadFrame
  DEF WriterStep, Subscribe, Start, Stop, BeginPoll, vars

\* What excuses poll() stays.
LEMMA StepExcused ==
    ASSUME \A d \in Events : writer[d] # "new" => writer'[d] # "new",
           [Next]_vars, NEW s, NEW e \in Events, Excused(s, e)
    PROVE  Excused(s, e)'
<1>1. /\ delivered \subseteq delivered' /\ tooEarly \subseteq tooEarly'
      /\ unread \subseteq unread' /\ (poisoned => poisoned')
  <2>1. ASSUME NEW a \in Scanners, ScanStep(a)
        PROVE  /\ delivered \subseteq delivered' /\ tooEarly \subseteq tooEarly'
               /\ unread \subseteq unread' /\ (poisoned => poisoned')
    BY <2>1 DEF ScanStep, VisitFile, ReadFile, ReadFails, LockCallbacks,
                CallBack, UnlockCallbacks, EndPass, lockVars, histVars
  <2>2. CASE UNCHANGED <<delivered, tooEarly, unread, poisoned>>
    BY <2>2
  <2>3. QED
    BY <2>1, <2>2, NextCases, WriterFrame, ThreadFrame
    DEF Subscribe, Start, Stop, BeginPoll, vars, lockVars, histVars
<1>2. NameTaken(e) => NameTaken(e)'
  BY DEF NameTaken
<1>3. QED
  BY <1>1, <1>2 DEF Excused

LEMMA StepEarly ==
    ASSUME LockTypeOK, EarlyKept, [Next]_vars
    PROVE  /\ EarlyKept'
           /\ Len(subs) <= Len(subs') /\ Len(subs') \in Nat
           /\ \A i \in 1 .. Len(subs) : subs'[i] = subs[i]
<1>1. /\ Len(subs) <= Len(subs') /\ Len(subs) \in Nat /\ Len(subs') \in Nat
      /\ \A i \in 1 .. Len(subs) : subs'[i] = subs[i]
  <2>1. ASSUME NEW s \in Subscribers, Subscribe(s)
        PROVE  /\ Len(subs) <= Len(subs') /\ Len(subs) \in Nat /\ Len(subs') \in Nat
               /\ \A i \in 1 .. Len(subs) : subs'[i] = subs[i]
    BY <2>1 DEF Subscribe, LockTypeOK
  <2>2. CASE subs' = subs
    BY <2>2 DEF LockTypeOK
  <2>3. QED
    BY <2>1, <2>2, NextCases, WriterFrame, ScannerFrame, ThreadFrame
    DEF Start, Stop, BeginPoll, vars, lockVars
<1>2. promised' = promised \/ promised' \subseteq Early \X Events
  BY NextCases, WriterFrame, ScannerFrame, ThreadFrame
  DEF Subscribe, Start, Stop, BeginPoll, vars, histVars, Early
<1>3. \A s \in Early : \E i \in 1 .. Len(subs') : subs'[i] = s
  <2> TAKE s \in Early
  <2>1. PICK i \in 1 .. Len(subs) : subs[i] = s
    BY DEF EarlyKept
  <2>2. i \in 1 .. Len(subs') /\ subs'[i] = s
    BY <1>1, <2>1
  <2>3. QED
    BY <2>2
<1>4. QED
  BY <1>1, <1>2, <1>3 DEF EarlyKept

\* A step that is not the poller's leaves it where it was.
LEMMA OthersFrame ==
    ASSUME ScanTypeOK, [Next]_vars, ~ BeginPoll, ~ ScanStep(Poller)
    PROVE  /\ pc'[Poller] = pc[Poller] /\ item'[Poller] = item[Poller]
           /\ next'[Poller] = next[Poller] /\ todo'[Poller] = todo[Poller]
           /\ seen'[Poller] = seen[Poller] /\ promised' = promised
<1> USE PollerIsScanner
<1>1. ASSUME NEW a \in Scanners, ScanStep(a), a # Poller
      PROVE  /\ pc'[Poller] = pc[Poller] /\ item'[Poller] = item[Poller]
             /\ next'[Poller] = next[Poller] /\ todo'[Poller] = todo[Poller]
             /\ seen'[Poller] = seen[Poller]
  BY <1>1 DEF ScanStep, VisitFile, ReadFile, ReadFails, LockCallbacks,
              CallBack, UnlockCallbacks, EndPass, LeaveCallbacks, ScanTypeOK
<1>2. ASSUME NEW t \in Threads, ThreadStep(t)
      PROVE  pc'[Poller] = pc[Poller] /\ todo'[Poller] = todo[Poller]
  BY <1>2, ThreadsAreScanners DEF ThreadStep, LoopCheck, ListDir, ScanTypeOK
<1>3. CASE Start
  <2>1. spawned + 1 # Poller
    BY <1>3, StartsAssumption, PollerAssumption DEF Start, ScanTypeOK, Threads
  <2>2. QED
    BY <1>3, <2>1 DEF Start, ScanTypeOK, histVars
<1>4. QED
  BY <1>1, <1>2, <1>3, NextCases, WriterFrame, ScannerFrame, ThreadFrame
  DEF Subscribe, Stop, vars, scanVars, histVars

\* One step of the poller keeps what it has in hand, or delivers it.
LEMMA PollerDealt ==
    ASSUME TypeOK, ScanInv, CallbacksExclusive, DirKnown, EarlyKept,
           ScanStep(Poller), NEW s \in Early, NEW e \in Events,
           Dealt(s, e), ~ Excused(s, e)
    PROVE  Dealt(s, e)'
<1> USE PollerIsScanner DEF ScanTypeOK
<1>0. /\ ScanTypeOK /\ ScannerInv(Poller) /\ subs' = subs
      /\ next[Poller] \in Nat \ {0} /\ Len(subs) \in Nat
  BY ScannerFrame DEF TypeOK, ScanInv, LockTypeOK
<1>1. FileOf[e] \in seen[Poller] => InHand(s, e)
  BY DEF Dealt
<1>2. CASE VisitFile(Poller)
  <2>1. pc[Poller] = "scan"
    BY <1>2 DEF VisitFile
  <2>2. FileOf[e] \notin seen[Poller]
    BY <1>1, <2>1 DEF InHand
  <2>3. FileOf[e] \in seen'[Poller] => pc'[Poller] = "read" /\ item'[Poller] = FileOf[e]
    BY <1>0, <1>2, <2>2 DEF VisitFile
  <2>4. QED
    BY <2>3 DEF Dealt, InHand
<1>3. CASE ReadFile(Poller)
  <2>1. seen' = seen /\ pc[Poller] = "read"
    BY <1>3 DEF ReadFile
  <2> SUFFICES ASSUME FileOf[e] \in seen[Poller] PROVE (Excused(s, e) \/ InHand(s, e))'
    BY <2>1 DEF Dealt
  <2>2. item[Poller] = FileOf[e]
    BY <1>1, <2>1 DEF InHand
  <2>3. CASE dir[FileOf[e]].body = Torn
    <3>1. FileOf[e] \in DOMAIN dir
      BY <1>0, <2>1, <2>2 DEF ScannerInv
    <3>2. writer[e] # "new" \/ NameTaken(e)
      BY <3>1 DEF DirKnown, NameTaken
    <3>3. writer[e] # "done" \/ NameTaken(e)
      BY <2>3, TornAssumption DEF DirKnown
    <3>4. writer[e] \in {"new", "created", "done", "failed"}
      BY DEF TypeOK, DirTypeOK
    <3>5. NameTaken(e) \/ e \in Unfinished(FileOf[e])
      BY <3>2, <3>3, <3>4 DEF Unfinished
    <3>6. tooEarly' = tooEarly \cup Unfinished(FileOf[e])
      BY <1>3, <2>2, <2>3 DEF ReadFile
    <3>7. QED
      BY <3>5, <3>6 DEF Excused
  <2>4. CASE dir[FileOf[e]].body # Torn
    <3> DEFINE b == dir[FileOf[e]].body
    <3>1. FileOf[e] \in DOMAIN dir
      BY <1>0, <2>1, <2>2 DEF ScannerInv
    <3>2. b \in Events /\ FileOf[b] = FileOf[e] /\ writer[b] # "new"
      BY <2>4, <3>1 DEF TypeOK, DirTypeOK, Contents, ScanInv, BodyHasName, DirKnown
    <3>3. b = e
      BY <3>2 DEF Excused, NameTaken
    <3>4. pc'[Poller] = "lock" /\ item'[Poller] = e
      BY <1>0, <1>3, <2>2, <2>4, <3>3 DEF ReadFile
    <3>5. QED
      BY <3>4 DEF InHand
  <2>5. QED
    BY <2>3, <2>4
<1>4. CASE LockCallbacks(Poller)
  <2>1. seen' = seen /\ pc[Poller] = "lock" /\ next' = next /\ next[Poller] = 1
    BY <1>0, <1>4 DEF LockCallbacks, ScannerInv
  <2> SUFFICES ASSUME FileOf[e] \in seen[Poller] PROVE InHand(s, e)'
    BY <2>1 DEF Dealt
  <2>2. item[Poller] = e
    BY <1>1, <2>1 DEF InHand
  <2>3. pc'[Poller] = "call" /\ item'[Poller] = e
    BY <1>0, <1>4, <2>2 DEF LockCallbacks, Excused
  <2>4. \E i \in 1 .. Len(subs') : i >= next'[Poller] /\ subs'[i] = s
    BY <1>0, <2>1 DEF EarlyKept
  <2>5. QED
    BY <2>3, <2>4 DEF InHand
<1>5. CASE CallBack(Poller)
  <2>1. seen' = seen /\ pc[Poller] = "call"
        /\ delivered' = delivered \cup {<<Poller, subs[next[Poller]], item[Poller]>>}
    BY <1>5 DEF CallBack
  <2> SUFFICES ASSUME FileOf[e] \in seen[Poller] PROVE (Excused(s, e) \/ InHand(s, e))'
    BY <2>1 DEF Dealt
  <2>2. item[Poller] = e /\ \E i \in 1 .. Len(subs) : i >= next[Poller] /\ subs[i] = s
    BY <1>1, <2>1 DEF InHand
  <2>3. PICK i \in 1 .. Len(subs) : i >= next[Poller] /\ subs[i] = s
    BY <2>2
  <2>4. CASE i = next[Poller]
    BY <2>1, <2>2, <2>3, <2>4 DEF Excused
  <2>5. CASE i # next[Poller]
    <3>1. CASE <<subs[next[Poller]], item[Poller]>> \in PanicsOn
      BY <1>5, <3>1 DEF CallBack, Excused
    <3>2. CASE <<subs[next[Poller]], item[Poller]>> \notin PanicsOn
      <4>1. next'[Poller] = next[Poller] + 1 /\ pc' = pc /\ item' = item
        BY <1>0, <1>5, <3>2 DEF CallBack
      <4>2. i >= next'[Poller]
        BY <1>0, <2>3, <2>5, <4>1
      <4>3. QED
        BY <1>0, <2>1, <2>2, <2>3, <4>1, <4>2 DEF InHand
    <3>3. QED
      BY <3>1, <3>2
  <2>6. QED
    BY <2>4, <2>5
<1>6. CASE UnlockCallbacks(Poller)
  <2>1. seen' = seen /\ pc[Poller] = "call" /\ next[Poller] > Len(subs)
    BY <1>6 DEF UnlockCallbacks
  <2>2. ~ InHand(s, e)
    BY <1>0, <2>1 DEF InHand
  <2>3. QED
    BY <1>1, <2>1, <2>2 DEF Dealt
<1>7. CASE EndPass(Poller)
  <2>1. seen' = seen /\ pc[Poller] = "scan"
    BY <1>7 DEF EndPass
  <2>2. ~ InHand(s, e)
    BY <2>1 DEF InHand
  <2>3. QED
    BY <1>1, <2>1, <2>2 DEF Dealt
<1>8. CASE ReadFails(Poller)
  <2>1. /\ seen' = seen /\ pc[Poller] = "read"
        /\ unread' = unread \cup {<<Poller, item[Poller]>>}
    BY <1>8 DEF ReadFails
  <2> SUFFICES ASSUME FileOf[e] \in seen[Poller] PROVE Excused(s, e)'
    BY <2>1 DEF Dealt
  <2>2. item[Poller] = FileOf[e]
    BY <1>1, <2>1 DEF InHand
  <2>3. QED
    BY <2>1, <2>2 DEF Excused
<1>9. QED
  BY <1>2, <1>3, <1>4, <1>5, <1>6, <1>7, <1>8 DEF ScanStep

\* ... and forgets nothing of the pass it is in.
LEMMA PollerDue ==
    ASSUME TypeOK, ScanStep(Poller), NEW s \in Early, NEW e \in Events,
           Due(s, e), ~ Excused(s, e)
    PROVE  Due(s, e)'
<1> USE PollerIsScanner DEF ScanTypeOK
<1>0. ScanTypeOK /\ promised' = promised
  BY ScannerFrame DEF TypeOK
<1> SUFFICES ASSUME <<s, e>> \in promised
             PROVE  \/ Excused(s, e)'
                    \/ FileOf[e] \in seen'[Poller]
                    \/ pc'[Poller] # "off" /\ FileOf[e] \in todo'[Poller]
  BY <1>0 DEF Due
<1>1. FileOf[e] \in seen[Poller] \/ FileOf[e] \in todo[Poller]
  BY DEF Due
<1>2. CASE VisitFile(Poller)
  BY <1>0, <1>1, <1>2 DEF VisitFile
<1>3. CASE CallBack(Poller)
  <2>1. seen' = seen /\ todo' = todo
    BY <1>3 DEF CallBack
  <2>2. poisoned' \/ (pc' = pc /\ pc[Poller] = "call")
    BY <1>3 DEF CallBack
  <2>3. QED
    BY <1>1, <2>1, <2>2 DEF Excused
<1>4. CASE EndPass(Poller)
  BY <1>1, <1>4 DEF EndPass
<1>5. CASE \/ ReadFile(Poller) \/ ReadFails(Poller)
           \/ LockCallbacks(Poller) \/ UnlockCallbacks(Poller)
  <2>1. seen' = seen /\ todo' = todo /\ pc'[Poller] # "off"
    BY <1>0, <1>5 DEF ReadFile, ReadFails, LockCallbacks, UnlockCallbacks,
                      LeaveCallbacks
  <2>2. QED
    BY <1>1, <2>1
<1>6. QED
  BY <1>2, <1>3, <1>4, <1>5 DEF ScanStep

LEMMA StepServe ==
    ASSUME IInv, ServeInv, [Next]_vars
    PROVE  ServeInv'
<1>1. /\ TypeOK /\ ScanInv /\ CallbacksExclusive /\ DirKnown /\ EarlyKept
      /\ DirTypeOK /\ ScanTypeOK /\ LockTypeOK /\ BodyHasName
  BY DEF IInv, ServeInv, TypeOK, ScanInv
<1>2. DirKnown' /\ \A d \in Events : writer[d] # "new" => writer'[d] # "new"
  BY <1>1, StepKnown
<1>3. /\ EarlyKept'
      /\ Len(subs) <= Len(subs') /\ Len(subs') \in Nat
      /\ \A i \in 1 .. Len(subs) : subs'[i] = subs[i]
  BY <1>1, StepEarly
<1>4. ASSUME NEW s \in Early, NEW e \in Events PROVE Dealt(s, e)' /\ Due(s, e)'
  <2>1. Dealt(s, e) /\ Due(s, e)
    BY DEF ServeInv
  <2>2. CASE Excused(s, e)
    BY <1>2, <2>2, StepExcused DEF Dealt, Due
  <2>3. CASE ScanStep(Poller) /\ ~ Excused(s, e)
    BY <1>1, <2>1, <2>3, PollerDealt, PollerDue
  <2>4. CASE BeginPoll /\ ~ Excused(s, e)
    <3>1. /\ pc[Poller] = "off" /\ seen' = seen /\ pc'[Poller] = "scan"
          /\ <<s, e>> \in promised' => FileOf[e] \in todo'[Poller]
      BY <1>1, <2>4, PollerIsScanner DEF BeginPoll, ScanTypeOK
    <3>2. Due(s, e)'
      BY <3>1 DEF Due
    <3>3. FileOf[e] \notin seen[Poller]
      BY <2>1, <2>4, <3>1 DEF Dealt, InHand
    <3>4. QED
      BY <3>1, <3>2, <3>3 DEF Dealt
  <2>5. CASE ~ ScanStep(Poller) /\ ~ BeginPoll /\ ~ Excused(s, e)
    <3>1. /\ pc'[Poller] = pc[Poller] /\ item'[Poller] = item[Poller]
          /\ next'[Poller] = next[Poller] /\ todo'[Poller] = todo[Poller]
          /\ seen'[Poller] = seen[Poller] /\ promised' = promised
      BY <1>1, <2>5, OthersFrame
    <3>2. InHand(s, e) => InHand(s, e)'
      <4>1. ASSUME NEW i \in 1 .. Len(subs), i >= next[Poller], subs[i] = s
            PROVE  \E j \in 1 .. Len(subs') : j >= next'[Poller] /\ subs'[j] = s
        <5>1. i \in 1 .. Len(subs') /\ subs'[i] = s /\ i >= next'[Poller]
          BY <1>1, <1>3, <3>1, <4>1 DEF LockTypeOK
        <5>2. QED
          BY <5>1
      <4>2. QED
        BY <3>1, <4>1 DEF InHand
    <3>3. Dealt(s, e)'
      BY <2>1, <2>5, <3>1, <3>2 DEF Dealt
    <3>4. Due(s, e)'
      BY <2>1, <2>5, <3>1 DEF Due
    <3>5. QED
      BY <3>3, <3>4
  <2>6. QED
    BY <2>2, <2>3, <2>4, <2>5
<1>5. QED
  BY <1>2, <1>3, <1>4 DEF ServeInv, Early

LEMMA InitServe == Init => ServeInv
<1> SUFFICES ASSUME Init PROVE ServeInv
  OBVIOUS
<1>1. DOMAIN dir = {} /\ \A e \in Events : writer[e] = "new"
  BY DEF Init
<1>2. DirKnown
  BY <1>1 DEF DirKnown
<1>3. EarlyKept
  <2>1. subs = InitSubs /\ promised = {}
    BY DEF Init
  <2>2. \A s \in Early : \E i \in 1 .. Len(InitSubs) : InitSubs[i] = s
    BY InitSubsAssumption DEF Early, ToSet
  <2>3. QED
    BY <2>1, <2>2 DEF EarlyKept
<1>4. ASSUME NEW s \in Early, NEW e \in Events PROVE Dealt(s, e) /\ Due(s, e)
  BY PollerIsScanner DEF Init, Dealt, Due
<1>5. QED
  BY <1>2, <1>3, <1>4 DEF ServeInv

\* When poll() returns, each event written before it was called, of the files
\* its listing gave, has reached every callback there from the start, except
\* where a poll opened the file before the event was written out, the read of it
\* failed, its name was taken or a panic had poisoned the mutex: for any number
\* of tools, threads, callbacks and polls.
THEOREM PollAccountsForAll == Spec => []PollServesWhole
<1>1. IInv /\ ServeInv => PollServesWhole
  <2> SUFFICES ASSUME IInv, ServeInv, pc[Poller] = "off", NEW p \in promised
               PROVE  \/ <<Poller, p[1], p[2]>> \in delivered
                      \/ p[2] \in tooEarly
                      \/ <<Poller, FileOf[p[2]]>> \in unread
                      \/ NameTaken(p[2])
                      \/ poisoned
    BY DEF PollServesWhole
  <2>1. p[1] \in Early /\ p[2] \in Events /\ p = <<p[1], p[2]>>
    BY DEF ServeInv, EarlyKept
  <2>2. Dealt(p[1], p[2]) /\ Due(p[1], p[2])
    BY <2>1 DEF ServeInv
  <2>3. ~ InHand(p[1], p[2])
    BY DEF InHand
  <2>4. Excused(p[1], p[2])
    BY <2>1, <2>2, <2>3 DEF Dealt, Due
  <2>5. QED
    BY <2>4 DEF Excused
<1>2. QED
  BY InitIInv, NextIInv, InitServe, StepServe, <1>1, PTL DEF Spec
=============================================================================

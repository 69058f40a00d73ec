------------------------------ MODULE ToolSuite ------------------------------
(***************************************************************************)
(* The tool suite of the C++ workspace: change events as files in one      *)
(* directory, the PipelineWatcher that polls it, and the subscribers that  *)
(* answer an event with an event: the adapters of the ToolRegistry, the    *)
(* WorkspaceBroker and the AtlasAIReasoner.                                *)
(*                                                                         *)
(* The watcher's own thread and a caller of poll() may scan the directory  *)
(* at the same time.  A file is empty from its creation to its close, and  *)
(* the watcher knows a version of it by its time in milliseconds.  Of an   *)
(* event, its path and text are left out; `from' tells what it answers.    *)
(***************************************************************************)
EXTENDS Naturals, Sequences, FiniteSets

CONSTANTS
    Marks,      \* <<tool, event type>>
    Handlers,   \* the subscribers that answer, in the order they are called
    Thread, Caller, Nobody,   \* the two scanners, and neither
    Empty,      \* the content of an empty file
    Asked,      \* what the tools outside may write, a subset of Marks
    MaxWrites,  \* bound on their writes
    MaxTime     \* bound on the clock

Scanners == {Thread, Caller}
Events == [mark : Marks, from : SUBSET Marks]

Answerers == {"blender", "scanner", "minimizer", "atlasAI", "broker", "reasoner"}

\* The event with which a handler answers.
Reply(h) ==
    CASE h = "blender"   -> <<"BlenderGenerator", "AnimationExported">>
      [] h = "scanner"   -> <<"ContractScanner", "ContractIssue">>
      [] h = "minimizer" -> <<"ReplayMinimizer", "ReplayExported">>
      [] OTHER           -> <<"AtlasAI", "AIAnalysis">>

ASSUME SuiteAssumption ==
    /\ Handlers \in Seq(Answerers) /\ Marks # {}
    /\ Asked \subseteq Marks /\ \A i \in DOMAIN Handlers : Reply(Handlers[i]) \in Marks
    /\ Thread # Caller /\ Nobody \notin Scanners /\ Empty \notin Events
    /\ MaxWrites \in Nat /\ MaxTime \in Nat \ {0}

Times  == 1 .. MaxTime
Names  == Marks \X Times

VARIABLES
    now,
    dir,       \* name -> [body, mtime]
    writing,   \* files open for writing by the tools outside: <<name, event>>
    writes,    \* writes begun by them
    running, stopping,   \* m_running; stop() waits for the thread
    pc,        \* scanner -> place
    left,      \* scanner -> names its directory_iterator has still to show
    item, stat,  \* scanner -> the file it is at, and the time it read of it
    event,     \* scanner -> the event it has parsed
    next,      \* scanner -> the handler it calls next
    holder,    \* who holds m_callbackMutex
    seen,      \* m_seen: name -> time
    served,    \* <<name, event>> the subscribers have been called with (history)
    unread,    \* <<name, event>> of the files that a scanner could not open (history)
    blurred    \* names filled within the millisecond already in m_seen (history)

files == <<dir, writing, writes>>
owner == <<running, stopping>>
scan  == <<pc, left, item, stat, event, next, holder, seen>>
notes == <<served, unread, blurred>>
vars  == <<now, files, owner, scan, notes>>

Bodies == Events \cup {Empty}

FilesOK ==
    /\ now \in Times
    /\ DOMAIN dir \subseteq Names
    /\ \A f \in DOMAIN dir : dir[f].body \in Bodies /\ dir[f].mtime \in 1 .. now
    /\ writing \subseteq (DOMAIN dir) \X Events
    /\ writes \in 0 .. MaxWrites

LocalsOK ==
    /\ item \in [Scanners -> Names] /\ stat \in [Scanners -> Times]
    /\ event \in [Scanners -> Events]

PlacesOK ==
    /\ running \in BOOLEAN /\ stopping \in BOOLEAN
    /\ pc \in [Scanners -> {"off", "idle", "scan", "check", "read", "lock", "call", "fill",
                            "done"}]
    /\ left \in [Scanners -> SUBSET DOMAIN dir]
    /\ next \in [Scanners -> 1 .. Len(Handlers) + 1]
    /\ holder \in Scanners \cup {Nobody}

AtEntry ==
    \A a \in Scanners : /\ pc[a] \in {"check", "read", "lock", "fill"} => item[a] \in DOMAIN dir
                        /\ pc[a] = "fill" => next[a] \in DOMAIN Handlers

NotesOK ==
    /\ DOMAIN seen \subseteq DOMAIN dir
    /\ \A f \in DOMAIN seen : seen[f] \in Times
    /\ served \subseteq Names \X Events /\ unread \subseteq Names \X Events
    /\ blurred \subseteq DOMAIN dir

\* Type invariant: a scanner at an entry has a file, and one that writes a handler.
TypeOK == FilesOK /\ LocalsOK /\ PlacesOK /\ AtEntry /\ NotesOK

SomeEvent == [mark |-> CHOOSE m \in Marks : TRUE, from |-> {}]
NoName == <<SomeEvent.mark, 1>>

Init ==
    /\ now = 1
    /\ dir = [f \in {} |-> Empty] /\ writing = {} /\ writes = 0
    /\ running = FALSE /\ stopping = FALSE
    /\ pc = [a \in Scanners |-> IF a = Thread THEN "off" ELSE "idle"]
    /\ left = [a \in Scanners |-> {}]
    /\ item = [a \in Scanners |-> NoName]
    /\ stat = [a \in Scanners |-> 1]
    /\ event = [a \in Scanners |-> SomeEvent]
    /\ next = [a \in Scanners |-> 1]
    /\ holder = Nobody
    /\ seen = [f \in {} |-> 1]
    /\ served = {} /\ unread = {} /\ blurred = {}

Tick ==
    /\ now < MaxTime
    /\ now' = now + 1
    /\ UNCHANGED <<files, owner, scan, notes>>

Put(fun, x, y) == [z \in DOMAIN fun \cup {x} |-> IF z = x THEN y ELSE fun[z]]

-----------------------------------------------------------------------------
(* ChangeEvent::writeToFile.                                               *)

NameOf(e) == <<e.mark, now>>

\* Opening truncates.  A directory_iterator that is under way may show a new
\* file or not.
Create(f) ==
    /\ dir' = Put(dir, f, [body |-> Empty, mtime |-> now])
    /\ IF f \in DOMAIN dir
       THEN UNCHANGED left
       ELSE \E A \in SUBSET {a \in Scanners : pc[a] \notin {"off", "idle", "done"}} :
               left' = [a \in Scanners |-> IF a \in A THEN left[a] \cup {f} ELSE left[a]]

\* The bytes are written as the stream is closed.
Fill(f, e) ==
    /\ dir' = Put(dir, f, [body |-> e, mtime |-> now])
    /\ blurred' = IF f \in DOMAIN seen /\ seen[f] = now THEN blurred \cup {f} ELSE blurred \ {f}

ToolOpens(m) ==
    LET e == [mark |-> m, from |-> {}] IN
    /\ writes < MaxWrites
    /\ writes' = writes + 1
    /\ Create(NameOf(e))
    /\ writing' = writing \cup {<<NameOf(e), e>>}
    /\ UNCHANGED <<now, owner, pc, item, stat, event, next, holder, seen, notes>>

ToolCloses(f, e) ==
    /\ <<f, e>> \in writing
    /\ Fill(f, e)
    /\ writing' = writing \ {<<f, e>>}
    /\ UNCHANGED <<now, writes, owner, scan, served, unread>>

-----------------------------------------------------------------------------
(* PipelineWatcher::poll.                                                  *)

Goto(a, place) == pc' = [pc EXCEPT ![a] = place]

\* On to the next entry: the locals of the loop's body are gone.
NextEntry(a) ==
    /\ Goto(a, "scan")
    /\ item' = [item EXCEPT ![a] = NoName]
    /\ stat' = [stat EXCEPT ![a] = 1]
    /\ event' = [event EXCEPT ![a] = SomeEvent]

\* The directory is opened: by the loop of the thread, or by a call of poll ...
List(a) ==
    /\ pc[a] = "idle"
    /\ a = Thread => running
    /\ left' = [left EXCEPT ![a] = DOMAIN dir]
    /\ Goto(a, "scan")
    /\ UNCHANGED <<now, files, owner, item, stat, event, next, holder, seen, notes>>

\* ... or it cannot be, and poll has nothing to visit.
ListFails(a) ==
    /\ pc[a] = "idle"
    /\ a = Thread => running
    /\ UNCHANGED vars

\* lastWriteMs of the next entry.
Stat(a) ==
    /\ pc[a] = "scan"
    /\ \E f \in left[a] :
          /\ left' = [left EXCEPT ![a] = @ \ {f}]
          /\ item' = [item EXCEPT ![a] = f]
          /\ stat' = [stat EXCEPT ![a] = dir[f].mtime]
    /\ Goto(a, "check")
    /\ UNCHANGED <<now, files, owner, event, next, holder, seen, notes>>

\* A file is known by its name and time.
Known(f, t) == f \in DOMAIN seen /\ seen[f] = t

Check(a) ==
    /\ pc[a] = "check"
    /\ IF Known(item[a], stat[a])
       THEN NextEntry(a) /\ UNCHANGED seen
       ELSE /\ Goto(a, "read")
            /\ seen' = Put(seen, item[a], stat[a])
            /\ stat' = [stat EXCEPT ![a] = 1]
            /\ UNCHANGED <<item, event>>
    /\ UNCHANGED <<now, files, owner, left, next, holder, notes>>

\* readFromFile fails on an empty file (the slip gives up after a stop, too) ...
GivesUp(a) == dir[item[a]].body = Empty \/ ~running
Unreadable(a) == dir[item[a]].body = Empty

Read(a) ==
    /\ pc[a] = "read"
    /\ IF Unreadable(a)
       THEN NextEntry(a)
       ELSE /\ Goto(a, "lock")
            /\ event' = [event EXCEPT ![a] = dir[item[a]].body]
            /\ UNCHANGED <<item, stat>>
    /\ UNCHANGED <<now, files, owner, left, next, holder, seen, notes>>

\* ... and on one that cannot be opened, which is in m_seen all the same.
ReadFails(a) ==
    /\ pc[a] = "read" /\ dir[item[a]].body # Empty
    /\ unread' = unread \cup {<<item[a], dir[item[a]].body>>}
    /\ NextEntry(a)
    /\ UNCHANGED <<now, files, owner, left, next, holder, seen, served, blurred>>

EndPass(a) ==
    /\ pc[a] = "scan" /\ left[a] = {}
    /\ Goto(a, "idle")
    /\ UNCHANGED <<now, files, owner, left, item, stat, event, next, holder, seen, notes>>

-----------------------------------------------------------------------------
(* processFile, and the subscribers.                                       *)

\* attachToWatcher: the broker and the reasoner skip what AtlasAI wrote (the slip
\* skips nothing); an adapter goes by the type alone.
SkipsNothing(h, e) == FALSE
Skips(h, e) == h \in {"broker", "reasoner"} /\ e.mark[1] = "AtlasAI"

Accepts(h, e) ==
    LET type == e.mark[2] IN
    CASE h = "blender"   -> type = "AssetImported"
      [] h = "scanner"   -> type = "ScriptUpdated"
      [] h = "minimizer" -> type = "ReplayExported"
      [] h = "atlasAI"   -> type # "Unknown"
      [] OTHER           -> TRUE

Lock(a) ==
    /\ pc[a] = "lock"
    /\ holder = Nobody
    /\ holder' = a
    /\ next' = [next EXCEPT ![a] = 1]
    /\ served' = served \cup {<<item[a], event[a]>>}
    /\ Goto(a, "call")
    /\ UNCHANGED <<now, files, owner, left, item, stat, event, seen, unread,
                   blurred>>

Handler(a) == Handlers[next[a]]

\* The answer to an event descends from it.
Answer(a) == [mark |-> Reply(Handler(a)), from |-> event[a].from \cup {event[a].mark}]

\* A handler answers: its file is made ...
Call(a) ==
    /\ pc[a] = "call" /\ next[a] \in DOMAIN Handlers
    /\ Accepts(Handler(a), event[a]) /\ ~Skips(Handler(a), event[a])
    /\ Create(NameOf(Answer(a)))
    /\ item' = [item EXCEPT ![a] = NameOf(Answer(a))]
    /\ Goto(a, "fill")
    /\ UNCHANGED <<now, writing, writes, owner, stat, event, next, holder, seen, notes>>

\* ... and written.
Close(a) ==
    /\ pc[a] = "fill"
    /\ Fill(item[a], Answer(a))
    /\ next' = [next EXCEPT ![a] = @ + 1]
    /\ Goto(a, "call")
    /\ UNCHANGED <<now, writing, writes, owner, left, item, stat, event, holder, seen,
                   served, unread>>

\* It does not: the event is not for it, the reasoner finds no violation, or the
\* file cannot be opened, which nobody checks.
NoAnswer(a) ==
    /\ pc[a] = "call" /\ next[a] \in DOMAIN Handlers
    /\ next' = [next EXCEPT ![a] = @ + 1]
    /\ UNCHANGED <<now, files, owner, pc, left, item, stat, event, holder, seen, notes>>

\* The lock_guard goes out of scope (the slip keeps the mutex).
Kept(a) == a
Released(a) == Nobody

Unlock(a) ==
    /\ pc[a] = "call" /\ next[a] \notin DOMAIN Handlers
    /\ holder' = Released(a)
    /\ next' = [next EXCEPT ![a] = 1]
    /\ NextEntry(a)
    /\ UNCHANGED <<now, files, owner, left, seen, notes>>

-----------------------------------------------------------------------------
(* The owner of the watcher.                                               *)

\* start: m_thread holds no thread then, for stop has joined it.
Start ==
    /\ ~running /\ ~stopping
    /\ running' = TRUE
    /\ Goto(Thread, "idle")
    /\ UNCHANGED <<now, files, stopping, left, item, stat, event, next, holder, seen, notes>>

\* stop, as far as the join.
Stop ==
    /\ running /\ ~stopping
    /\ running' = FALSE /\ stopping' = TRUE
    /\ UNCHANGED <<now, files, scan, notes>>

Join ==
    /\ stopping /\ pc[Thread] = "done"
    /\ stopping' = FALSE
    /\ Goto(Thread, "off")
    /\ UNCHANGED <<now, files, running, left, item, stat, event, next, holder, seen, notes>>

\* watchLoop finds the flag down (the slip looks at nothing).
NeverTold == FALSE
Told == ~running

LoopEnds ==
    /\ pc[Thread] = "idle" /\ Told
    /\ Goto(Thread, "done")
    /\ UNCHANGED <<now, files, owner, left, item, stat, event, next, holder, seen, notes>>

-----------------------------------------------------------------------------
(* The suite.                                                              *)

Pass(a) ==
    \/ Stat(a) \/ Check(a) \/ Read(a) \/ ReadFails(a) \/ EndPass(a)
    \/ Lock(a) \/ Call(a) \/ Close(a) \/ NoAnswer(a) \/ Unlock(a)

ThreadStep == List(Thread) \/ ListFails(Thread) \/ Pass(Thread) \/ LoopEnds

Outside ==
    \/ \E m \in Asked : ToolOpens(m)
    \/ \E w \in writing : ToolCloses(w[1], w[2])

Next ==
    \/ Tick \/ Outside
    \/ Start \/ Stop \/ Join
    \/ ThreadStep \/ List(Caller) \/ ListFails(Caller) \/ Pass(Caller)

Spec == Init /\ [][Next]_vars

\* The threads are scheduled, and a directory that the thread tries to open again
\* and again is opened at last (a failure to open it changes nothing); nobody has to
\* call poll, or to write.
FairSpec ==
    /\ Spec
    /\ WF_vars(ThreadStep) /\ WF_vars(Pass(Caller)) /\ WF_vars(Join)

-----------------------------------------------------------------------------
(* Properties.                                                             *)

\* An event is not lost: what a file holds whose time is in m_seen has been given
\* to the subscribers, or a scanner is about to read or give it, unless it was
\* written in the very millisecond that m_seen held already or the file could not
\* be opened then.
SeenMeansServed ==
    \A f \in DOMAIN seen :
        \/ seen[f] # dir[f].mtime \/ f \in blurred
        \/ dir[f].body = Empty \/ <<f, dir[f].body>> \in unread
        \/ \E a \in Scanners :
              /\ item[a] = f
              /\ pc[a] = "read" \/ (pc[a] = "lock" /\ event[a] = dir[f].body)
        \/ <<f, dir[f].body>> \in served

\* Once stop has returned, the thread is gone: no subscriber is called by it.
StopIsFinal == ~running /\ ~stopping => pc[Thread] = "off"

\* No feedback: no event descends from one of the same tool and type.
ChainsEnd ==
    \A f \in DOMAIN dir :
        dir[f].body = Empty \/ dir[f].body.mark \notin dir[f].body.from

\* The files that were completed are taken up while the watcher runs, whoever holds
\* the mutex and whatever the directory shows: with the tools outside at rest,
\* nothing is left pending, the answers and the answers to them included.
Pending(f) == dir[f].body # Empty /\ (f \in DOMAIN seen => seen[f] # dir[f].mtime)
PendingServed == []<>(~running \/ \A f \in DOMAIN dir : ~Pending(f))

\* stop returns.
StopReturns == stopping ~> ~stopping
=============================================================================

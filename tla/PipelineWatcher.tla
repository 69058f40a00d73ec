--------------------------- MODULE PipelineWatcher ---------------------------
(***************************************************************************)
(* atlas_pipeline: ChangeEvent files and the PipelineWatcher that turns    *)
(* them into callbacks.                                                    *)
(*                                                                         *)
(* Tools write one `.change.json` file per event into the shared watch     *)
(* directory: File::create makes (or truncates) the file, write_all fills  *)
(* it, and nothing renames it into place.  A watcher object scans that     *)
(* directory from two kinds of scanner: the threads start() spawns (each   *)
(* with a `seen` set of its own, none of them ever joined) and poll(),     *)
(* which uses the object's seen_files.  Every scanner calls the            *)
(* subscribers while it holds the one `callbacks` mutex; a callback that   *)
(* panics poisons that mutex.                                              *)
(*                                                                         *)
(* A file's content is abstracted to what JSON parsing tells apart: the    *)
(* event it holds whole, or Torn (empty, a prefix, or two writes mixed).   *)
(***************************************************************************)
EXTENDS Integers, Sequences, FiniteSets, SequencesExt

CONSTANTS
    Events,        \* the change events the tools may write
    Files,         \* names of .change.json files
    FileOf,        \* the name write_to_dir derives from an event
    Length,        \* number of bytes of an event's JSON
    Torn,          \* content that does not parse
    MaxStarts,     \* bound: how often start() spawns a thread
    Poller,        \* the caller of poll()
    NoScanner,     \* the callbacks mutex is free
    Nothing,       \* a scanner between two files
    Subscribers,   \* callbacks a client may register
    InitSubs,      \* those registered before anything else happens
    PanicsOn       \* pairs <<callback, event>> that panic

Threads  == 1 .. MaxStarts
Scanners == Threads \cup {Poller}

ASSUME NameAssumption     == FileOf \in [Events -> Files]
ASSUME LengthAssumption   == Length \in [Events -> Nat \ {0}]
ASSUME TornAssumption     == Torn \notin Events /\ Nothing \notin Files \cup Events
ASSUME StartsAssumption   == MaxStarts \in Nat
ASSUME PollerAssumption   == Poller \notin Threads /\ NoScanner \notin Scanners
ASSUME InitSubsAssumption == /\ InitSubs \in Seq(Subscribers)
                             /\ IsInjective(InitSubs)
ASSUME PanicAssumption    == PanicsOn \subseteq Subscribers \X Events

VARIABLES
    dir,           \* the watch directory: existing file -> [size, body]
    writer,        \* progress of write_to_dir for each event
    running,       \* the AtomicBool shared by all threads of the watcher
    spawned,       \* threads spawned so far
    pc,            \* where each scanner is in its scan loop
    todo,          \* directory entries the current pass has still to visit
    seen,          \* the HashSet of paths of each scanner
    item,          \* the file a scanner reads, then the event it parsed
    next,          \* index of the callback it calls next
    subs,          \* the Vec of callbacks
    holder,        \* scanner that holds the callbacks mutex
    poisoned,      \* the callbacks mutex is poisoned
    seenPoisoned,  \* the seen_files mutex of poll() is poisoned
    delivered,     \* history: <<scanner, callback, event>> called so far
    repeated,      \* history: those called more than once
    tooEarly,      \* history: events whose file poll() read before they were
                   \* written out
    unread,        \* history: <<scanner, file>> that could not be read
    promised       \* history: <<callback, event>> the current poll must serve

dirVars   == <<dir, writer>>
lockVars  == <<subs, holder, poisoned, seenPoisoned>>
scanVars  == <<pc, todo, seen, item, next>>
histVars  == <<delivered, repeated, tooEarly, unread, promised>>
vars      == <<dirVars, running, spawned, lockVars, scanVars, histVars>>

Places   == {"off", "check", "list", "scan", "read", "lock", "call", "ended",
             "dead"}
Contents == [size : Nat, body : Events \cup {Torn}]

DirTypeOK ==
    /\ DOMAIN dir \subseteq Files
    /\ \A f \in DOMAIN dir : dir[f] \in Contents
    /\ writer \in [Events -> {"new", "created", "done", "failed"}]

ScanTypeOK ==
    /\ running \in BOOLEAN
    /\ spawned \in 0 .. MaxStarts
    /\ pc \in [Scanners -> Places]
    /\ todo \in [Scanners -> SUBSET Files]
    /\ seen \in [Scanners -> SUBSET Files]
    /\ item \in [Scanners -> Files \cup Events \cup {Nothing}]
    /\ next \in [Scanners -> Nat \ {0}]

LockTypeOK ==
    /\ subs \in Seq(Subscribers)
    /\ holder \in Scanners \cup {NoScanner}
    /\ poisoned \in BOOLEAN
    /\ seenPoisoned \in BOOLEAN

HistTypeOK ==
    /\ delivered \subseteq Scanners \X Subscribers \X Events
    /\ repeated \subseteq delivered
    /\ tooEarly \subseteq Events
    /\ unread \subseteq Scanners \X Files
    /\ promised \subseteq Subscribers \X Events

\* Type invariant: a scanner's item is a file until it is parsed and an event
\* after, never torn content.
TypeOK == DirTypeOK /\ ScanTypeOK /\ LockTypeOK /\ HistTypeOK

Whole(e) == FileOf[e] \in DOMAIN dir /\ dir[FileOf[e]].body = e

Init ==
    /\ dir = [f \in {} |-> [size |-> 0, body |-> Torn]]
    /\ writer = [e \in Events |-> "new"]
    /\ running = FALSE
    /\ spawned = 0
    /\ pc = [a \in Scanners |-> "off"]
    /\ todo = [a \in Scanners |-> {}]
    /\ seen = [a \in Scanners |-> {}]
    /\ item = [a \in Scanners |-> Nothing]
    /\ next = [a \in Scanners |-> 1]
    /\ subs = InitSubs
    /\ holder = NoScanner
    /\ poisoned = FALSE
    /\ seenPoisoned = FALSE
    /\ delivered = {}
    /\ repeated = {}
    /\ tooEarly = {}
    /\ unread = {}
    /\ promised = {}

-----------------------------------------------------------------------------
(* ChangeEvent::write_to_dir, one system call at a time.                   *)

PutFile(f, n, b) ==
    dir' = [g \in DOMAIN dir \cup {f} |->
              IF g = f THEN [size |-> n, body |-> b] ELSE dir[g]]

\* The size a file has when n bytes are written over it from the start.
Overlaid(f, n) == IF dir[f].size > n THEN dir[f].size ELSE n

\* File::create: a new empty file, or an existing one truncated.  A call that
\* returned Err may be made again with the same event, hence the same name.
CreateFile(e) ==
    /\ writer[e] \in {"new", "failed"}
    /\ PutFile(FileOf[e], 0, Torn)
    /\ writer' = [writer EXCEPT ![e] = "created"]
    /\ UNCHANGED <<running, spawned, lockVars, scanVars, histVars>>

\* write_all: the event's bytes, from offset 0.  What a longer text of another
\* writer of the same name leaves behind them makes the file unparsable.
WriteFile(e) ==
    LET f == FileOf[e] IN
    /\ writer[e] = "created"
    /\ PutFile(f, Overlaid(f, Length[e]),
               IF dir[f].size > Length[e] THEN Torn ELSE e)
    /\ writer' = [writer EXCEPT ![e] = "done"]
    /\ UNCHANGED <<running, spawned, lockVars, scanVars, histVars>>

\* write_all fails, or the tool dies in it, with a strict prefix written.
WriteFails(e) ==
    LET f == FileOf[e] IN
    /\ writer[e] = "created"
    /\ \E n \in 0 .. Length[e] - 1 :
         PutFile(f, Overlaid(f, n), IF n = 0 THEN dir[f].body ELSE Torn)
    /\ writer' = [writer EXCEPT ![e] = "failed"]
    /\ UNCHANGED <<running, spawned, lockVars, scanVars, histVars>>

-----------------------------------------------------------------------------
(* The watcher's owner.                                                    *)

\* subscribe: a poisoned mutex drops the callback without a word.
Subscribe(s) ==
    /\ s \notin ToSet(subs)
    /\ holder = NoScanner
    /\ ~poisoned
    /\ subs' = Append(subs, s)
    /\ UNCHANGED <<dirVars, running, spawned, holder, poisoned, seenPoisoned,
                   scanVars, histVars>>

\* start() that finds running = FALSE; otherwise it returns false and changes
\* nothing.  The new thread's seen set is empty.
Start ==
    /\ ~running
    /\ spawned < MaxStarts
    /\ running' = TRUE
    /\ spawned' = spawned + 1
    /\ pc' = [pc EXCEPT ![spawned + 1] = "check"]
    /\ UNCHANGED <<dirVars, lockVars, todo, seen, item, next, histVars>>

\* stop() and Drop: the flag only; the thread is not joined.
Stop ==
    /\ running
    /\ running' = FALSE
    /\ UNCHANGED <<dirVars, spawned, lockVars, scanVars, histVars>>

-----------------------------------------------------------------------------
(* The tests of a scan pass, each after the slip that would undo it.       *)

SeenIgnored(a, f) == TRUE
IsNew(a, f)       == f \notin seen[a]

TornAccepted(body) == TRUE
Parses(body)       == body # Torn

StopIgnored == TRUE
KeepRunning == running

LastEntrySkipped(a) == Cardinality(todo[a]) < 2
PassDone(a)         == todo[a] = {}

MutexSkipped == TRUE
MutexFree    == holder = NoScanner

PoisonCleared == FALSE
LockRefused   == poisoned

-----------------------------------------------------------------------------
(* One scan pass: a watch thread's loop body, or one call of poll().       *)

LoopCheck(t) ==
    /\ pc[t] = "check"
    /\ pc' = [pc EXCEPT ![t] = IF KeepRunning THEN "list" ELSE "ended"]
    /\ UNCHANGED <<dirVars, running, spawned, lockVars, todo, seen, item, next,
                    histVars>>

\* read_dir: an entry that comes back as an error is dropped (`flatten`), and
\* a directory that cannot be read is a pass over nothing.
ListDir(t) ==
    /\ pc[t] = "list"
    /\ pc' = [pc EXCEPT ![t] = "scan"]
    /\ \E listed \in SUBSET DOMAIN dir : todo' = [todo EXCEPT ![t] = listed]
    /\ UNCHANGED <<dirVars, running, spawned, lockVars, seen, item, next,
                   histVars>>

\* poll(): takes seen_files (a poisoned one makes it return) and lists.  The
\* history notes the events written, with Ok, before this call, of the files
\* that the listing gave it.
BeginPoll ==
    /\ pc[Poller] = "off"
    /\ ~seenPoisoned
    /\ pc' = [pc EXCEPT ![Poller] = "scan"]
    /\ \E listed \in SUBSET DOMAIN dir :
         /\ todo' = [todo EXCEPT ![Poller] = listed]
         /\ promised' = ToSet(InitSubs) \X
                {e \in Events : writer[e] = "done" /\ FileOf[e] \in listed}
    /\ UNCHANGED <<dirVars, running, spawned, lockVars, seen, item, next,
                   delivered, repeated, tooEarly, unread>>

\* The next entry: skipped when seen, otherwise marked seen before it is read.
VisitFile(a) ==
    /\ pc[a] = "scan"
    /\ \E f \in todo[a] :
         /\ todo' = [todo EXCEPT ![a] = @ \ {f}]
         /\ IF ~IsNew(a, f)
            THEN UNCHANGED <<pc, seen, item>>
            ELSE /\ seen' = [seen EXCEPT ![a] = @ \cup {f}]
                 /\ item' = [item EXCEPT ![a] = f]
                 /\ pc' = [pc EXCEPT ![a] = "read"]
    /\ UNCHANGED <<dirVars, running, spawned, lockVars, next, histVars>>

\* The events of file f whose tool has yet to write them out, or failed to.
Unfinished(f) ==
    {e \in Events : FileOf[e] = f /\ writer[e] \in {"created", "failed"}}

\* read_from_file: a torn file is None and the scan goes on.
ReadFile(a) ==
    /\ pc[a] = "read"
    /\ LET body == dir[item[a]].body IN
       IF Parses(body)
       THEN /\ pc' = [pc EXCEPT ![a] = "lock"]
            /\ item' = [item EXCEPT ![a] = body]
            /\ UNCHANGED tooEarly
       ELSE /\ pc' = [pc EXCEPT ![a] = "scan"]
            /\ item' = [item EXCEPT ![a] = Nothing]
            /\ tooEarly' = IF a = Poller THEN tooEarly \cup Unfinished(item[a])
                                         ELSE tooEarly
    /\ UNCHANGED <<dirVars, running, spawned, lockVars, todo, seen, next,
                   delivered, repeated, unread, promised>>

\* read_to_string fails, on a whole file or another: None as well, and the name
\* stays in `seen`.
ReadFails(a) ==
    /\ pc[a] = "read"
    /\ pc' = [pc EXCEPT ![a] = "scan"]
    /\ item' = [item EXCEPT ![a] = Nothing]
    /\ unread' = unread \cup {<<a, item[a]>>}
    /\ UNCHANGED <<dirVars, running, spawned, lockVars, todo, seen, next,
                   delivered, repeated, tooEarly, promised>>

\* callbacks.lock(): a poisoned mutex drops the event.
LockCallbacks(a) ==
    /\ pc[a] = "lock"
    /\ MutexFree
    /\ IF LockRefused
       THEN /\ pc' = [pc EXCEPT ![a] = "scan"]
            /\ item' = [item EXCEPT ![a] = Nothing]
            /\ UNCHANGED holder
       ELSE /\ pc' = [pc EXCEPT ![a] = "call"]
            /\ holder' = a
            /\ UNCHANGED item
    /\ UNCHANGED <<dirVars, running, spawned, subs, poisoned, seenPoisoned,
                   todo, seen, next, histVars>>

\* The guard goes out of scope, by return or by unwinding (which a leaked
\* guard would not).
GuardLeaked(a, to) ==
    /\ holder' = IF to = "scan" THEN NoScanner ELSE holder
    /\ pc' = [pc EXCEPT ![a] = to]
    /\ item' = [item EXCEPT ![a] = Nothing]
    /\ next' = [next EXCEPT ![a] = 1]

LeaveCallbacks(a, to) ==
    /\ holder' = NoScanner
    /\ pc' = [pc EXCEPT ![a] = to]
    /\ item' = [item EXCEPT ![a] = Nothing]
    /\ next' = [next EXCEPT ![a] = 1]

\* cb(evt): returns, or panics and unwinds through the guard.  A panic ends a
\* watch thread; in poll() it also unwinds through the seen_files guard.
CallBack(a) ==
    /\ pc[a] = "call"
    /\ next[a] <= Len(subs)
    /\ LET call == <<a, subs[next[a]], item[a]>>
       IN /\ delivered' = delivered \cup {call}
          /\ repeated' = repeated \cup ({call} \cap delivered)
          /\ IF <<subs[next[a]], item[a]>> \in PanicsOn
             THEN /\ LeaveCallbacks(a, IF a = Poller THEN "off" ELSE "dead")
                  /\ poisoned' = TRUE
                  /\ seenPoisoned' = (seenPoisoned \/ a = Poller)
             ELSE /\ next' = [next EXCEPT ![a] = @ + 1]
                  /\ UNCHANGED <<pc, item, holder, poisoned, seenPoisoned>>
    /\ UNCHANGED <<dirVars, running, spawned, subs, todo, seen, tooEarly,
                   unread, promised>>

UnlockCallbacks(a) ==
    /\ pc[a] = "call"
    /\ next[a] > Len(subs)
    /\ LeaveCallbacks(a, "scan")
    /\ UNCHANGED <<dirVars, running, spawned, subs, poisoned, seenPoisoned,
                   todo, seen, histVars>>

\* Nothing left to visit: poll() returns, a thread sleeps and loops.
EndPass(a) ==
    /\ pc[a] = "scan"
    /\ PassDone(a)
    /\ pc' = [pc EXCEPT ![a] = IF a = Poller THEN "off" ELSE "check"]
    /\ UNCHANGED <<dirVars, running, spawned, lockVars, todo, seen, item, next,
                    histVars>>

ScanStep(a) ==
    \/ VisitFile(a)
    \/ ReadFile(a)
    \/ ReadFails(a)
    \/ LockCallbacks(a)
    \/ CallBack(a)
    \/ UnlockCallbacks(a)
    \/ EndPass(a)

Next ==
    \/ \E e \in Events : CreateFile(e) \/ WriteFile(e) \/ WriteFails(e)
    \/ \E s \in Subscribers : Subscribe(s)
    \/ Start
    \/ Stop
    \/ BeginPoll
    \/ \E t \in Threads : LoopCheck(t) \/ ListDir(t)
    \/ \E a \in Scanners : ScanStep(a)

Spec == Init /\ [][Next]_vars

(* The operating system runs every thread, and a caller that is inside      *)
(* poll() keeps running; a thread that lists the directory again and again  *)
(* gets a complete listing in the end.  Nothing makes a tool write, a       *)
(* client start, stop, subscribe or poll, nor a file readable.              *)
ListAll(t) == ListDir(t) /\ todo'[t] = DOMAIN dir

Fairness ==
    /\ \A t \in Threads : WF_vars(LoopCheck(t) \/ ListDir(t))
    /\ \A t \in Threads : SF_vars(ListAll(t))
    /\ \A a \in Scanners : WF_vars(ScanStep(a))

FairSpec == Spec /\ Fairness

-----------------------------------------------------------------------------
(* Properties.                                                             *)

\* At any time at most one scanner is inside the callbacks, whatever mix of
\* watch threads and poll() is running: the loops over `cbs` all run under
\* the callbacks mutex, and a scanner whose callback panicked has left it.
CallbacksExclusive ==
    \A a \in Scanners : pc[a] = "call" <=> holder = a

\* No scanner calls a subscriber twice with one event, however often the file
\* is rewritten and however many passes it makes: `seen` remembers the name.
OncePerScanner == repeated = {}

\* What poll() has listed, it has dealt with: once it has returned, each event
\* written before it was called, of the files in its listing, has reached every
\* callback registered from the start, unless one of its polls had opened the
\* file before the tool had written the event out, a read of it failed, another
\* event was given the same file name, or a panic had poisoned the mutex.
NameTaken(e) ==
    \E other \in Events \ {e} :
        FileOf[other] = FileOf[e] /\ writer[other] # "new"

PollServesWhole ==
    pc[Poller] = "off" =>
        \A p \in promised : \/ <<Poller, p[1], p[2]>> \in delivered
                            \/ p[2] \in tooEarly
                            \/ <<Poller, FileOf[p[2]]>> \in unread
                            \/ NameTaken(p[2])
                            \/ poisoned

\* Once a callback has panicked no event reaches any subscriber again.
PoisonSilences == [][poisoned => delivered' = delivered]_vars

\* An event whose file is whole before a watch thread has seen it reaches each
\* callback registered by then, unless the watcher is stopped, the file is
\* written over, the one read of it fails, or a panic poisons the mutex.
WholeEventDelivered ==
    \A t \in Threads, s \in Subscribers, e \in Events :
        (/\ pc[t] \in {"check", "list"}
         /\ running /\ ~poisoned
         /\ s \in ToSet(subs)
         /\ Whole(e) /\ FileOf[e] \notin seen[t])
        ~> (\/ <<t, s, e>> \in delivered
            \/ ~running
            \/ ~Whole(e)
            \/ <<t, FileOf[e]>> \in unread
            \/ poisoned)

\* After stop() every watch thread ends by itself, unless start() is called
\* again: then the old thread reads the flag of the new one and goes on.
StopEndsThreads ==
    \A t \in Threads :
        ~running ~> (running \/ pc[t] \in {"off", "ended", "dead"})

\* Nobody waits for the callbacks mutex for ever, panics included.
LockIsReleased ==
    \A a \in Scanners : pc[a] = "lock" ~> pc[a] # "lock"

\* Why OncePerScanner holds.  A file keeps the name of the event it holds; a
\* scanner has marked the file of every event it delivered, and of the one it
\* is at; of the file it is at it has delivered nothing yet, except to the
\* callbacks before `next` while it is calling them.
BodyHasName ==
    /\ \A e \in Events : writer[e] = "created" => FileOf[e] \in DOMAIN dir
    /\ \A f \in DOMAIN dir : dir[f].body # Torn => FileOf[dir[f].body] = f

AtFile(a, f) ==
    /\ f \in seen[a]
    /\ \A s \in Subscribers, e \in Events :
         <<a, s, e>> \in delivered /\ FileOf[e] = f =>
             pc[a] = "call" /\ \E i \in 1 .. next[a] - 1 : subs[i] = s

ScannerInv(a) ==
    /\ todo[a] \subseteq DOMAIN dir
    /\ \A s \in Subscribers, e \in Events :
         <<a, s, e>> \in delivered => FileOf[e] \in seen[a]
    /\ pc[a] = "read" => item[a] \in DOMAIN dir /\ AtFile(a, item[a])
    /\ pc[a] \in {"lock", "call"} =>
         item[a] \in Events /\ AtFile(a, FileOf[item[a]])
    /\ pc[a] # "call" => next[a] = 1

\* Each file name a scanner has passed is accounted for before any callback
\* hears of it: the invariant that carries OncePerScanner and, with the mutex,
\* CallbacksExclusive.
ScanInv ==
    /\ BodyHasName
    /\ IsInjective(subs)
    /\ \A t \in Threads : t > spawned => pc[t] = "off"
    /\ poisoned => holder = NoScanner
    /\ \A a \in Scanners : ScannerInv(a)

-----------------------------------------------------------------------------
(* What the repository says of the watcher and the code does not do.       *)

\* "poll must deliver the event written to the watch dir": a poll called after
\* write_to_dir returned Ok, which lists its file, has when it returns delivered
\* the event to the callbacks registered before it was written.
PollDeliversWritten ==
    pc[Poller] = "off" =>
        \A p \in promised : <<Poller, p[1], p[2]>> \in delivered \/ poisoned
=============================================================================

# TLA+ verification of AtlasWorkspace

AtlasWorkspace is a tool host for a game project. Tools (editor, content tools,
game, server) exchange change events and an asset manifest through a shared
`.pipeline` directory, run over a small engine, and ship content patches. The
repository holds the suite twice. `src/Source` and `src/NovaForge` are the C++
original: the workspace's pipeline and editor, and the game with its client.
`src/AtlasRust` is a Cargo workspace that the root `README.md` calls the full
conversion, and the only thing CI builds. Both are modelled where they carry
state worth checking: of the Rust crates the pipeline, entities, undo and
patching; of the C++ code the parts where threads, processes and sockets meet,
which the conversion leaves out or has simplified.

Rust parts below are in `src/AtlasRust/crates/<crate>/src/lib.rs`.

## 1. The system's parts

| Part | State | Operations | Interacts through |
|---|---|---|---|
| atlas_pipeline: ChangeEvent files | files `*.change.json` in the watch directory | `write_to_dir`, `read_from_file` | file system, any number of processes |
| atlas_pipeline: PipelineWatcher | callbacks under a mutex, `running` flag, `seen_files` under a mutex, one `seen` set per thread | `subscribe`, `start`, `stop`, `poll`, the thread's loop | watch directory, callbacks, threads |
| atlas_pipeline: Manifest | `records`, `guid_index`, `path_index` | `register_asset`, `remove_asset`, `find_by_*`, `load`, `save` | `manifest.json`, shared by tools |
| atlas_pipeline: WatchLog | a path and a mutex | `append`, `append_line` | the log file, shared by tools |
| atlas_engine: EntityManager | `alive`, `free_list`, `next_id` | `create`, `destroy`, `clear` | ids, used as keys below |
| atlas_engine: ComponentStore | pools by type and id | `add`, `remove`, `get`, `has` | ids only; not told of deaths |
| atlas_engine: EventBus, Engine | subscriptions, queue, tick count, `running` | `subscribe`, `publish`, `enqueue`, `flush`, `reset`, `tick`, `run_headless` | callbacks |
| atlas_editor: UndoStack | undo and redo stacks | `execute`, `undo`, `redo`, `clear` | commands on the document |
| atlas_editor: EditorContext | console, inspector, profiler, panels, focus, notifications | one method each | owned state, no messages |
| novaforge_patch | install directory, patch source, patch manifest, installed manifest | `apply`, `verify`, `register_file`, `remove_file` | file system |
| atlas_networking | connections with queues and a reliable buffer, counters | `connect`, `disconnect`, `send`, `broadcast`, `ack_reliable`, `tick` | a transport the crate does not contain |
| atlas_workspace | project file, tools, active tool, manifest | `load_project`, `save_project`, `register_tool`, `activate_tool`, `snapshot`, `serialize`, `deserialize` | project file |
| atlas_input | pressed keys, previous keys, bindings | `key_down`, `key_up`, `update` | window events |
| atlas_ui | panels, focus, notifications, tooltip | small setters, `tick` | owned by EditorContext |
| atlas_animation, atlas_physics, atlas_audio, atlas_renderer, atlas_core | numeric state | per-frame updates | none |
| novaforge_editor_adapter | child pid, snapshot index | `launch_game`, `stop_game`, `begin_play`, `write_snapshot` | process, event bus, files |
| novaforge_game, novaforge_voxel, novaforge_world, apps | Bevy glue | mains, plugins | Bevy |
| C++ editor: `PIEExternalLaunch` | process state, exit code, pid, buffered lines, stop and notified flags | `launch`, `terminate`, `simulateExit`, destructor, `monitorLoop` | child process, pipe, monitor thread, callbacks |
| C++ game client: `TCPClient` | socket, `m_connected`, receive thread, message queue | `connect`, `disconnect`, `send`, `processMessages`, `receiveThread` | server, callbacks |
| C++ game client: session layer | `NetworkManager` state, session type, embedded server's flags and thread | host, join, leave, frame, cleanup | two `TCPClient`s, one `EmbeddedServer` |
| C++ pipeline: watcher and tools | `m_seen`, `m_callbacks`, `m_running`, the thread; registry and adapters, broker, reasoner | `start`, `stop`, `poll`, `writeToFile`, `handleEvent`, `analyzeEvent`, `processEvent` | one directory of event files that all of them write and read |
| C++ engine, rendering, game rules, panels | components, widgets, float state | per-tick updates | one thread |

The hard behaviours are in the pipeline and the patcher. Tools share files that
nobody writes atomically: a reader can see a file before its text, two writers
can overlap, and a tool can die in the middle. The watcher adds threads that are
never joined, a mutex held over foreign callbacks and its poisoning by a panic.
The C++ launcher has a second thread that races the editor for the end of a
process; the game client has a thread per connection beside a server that may
go away at any time; and the C++ tool suite feeds its own answers into the
directory it watches. The rest runs on one thread; what is hard there are long
sequences of legal calls: ids given again, indexes that must shift together,
stacks trimmed at their limit. Each such hazard is listed with its line in
`PROJECT.json`, with the property that would catch it or the reason why none
does yet.

What makes each part correct, in one line each:

- watcher: subscribers are never called concurrently, no scanner delivers an
  event twice, what poll has passed is delivered or accounted for, stopped
  threads end, nobody waits for ever;
- manifest: it behaves as a map from paths to records; the indexes never point
  outside the records;
- shared manifest file: no tool ever works on a manifest whose indexes would make
  it panic, only mixed texts of two saves can make one unsound, and the file is
  the last one saved unless saves overlapped or failed;
- log: whole lines in order, as long as one object writes;
- entities: no id is shared by two live entities and no component is inherited;
- undo: each undo reverts the command last in effect;
- patch: an Ok means the patch is in force, however many tries it took, and
  verify notices one that is not;
- external launch: each process is waited for by one thread, its end is reported
  once and after its output, and calls return;
- game client: lines arrive in order, a client is authenticated by the server it
  talks to, and failed calls leave nothing half done;
- tool suite: no event is lost that was whole when it was seen and could be
  opened, answers do not go round in circles, and the watcher can be stopped;
- event bus, networking, workspace, input (planned): every queued event
  dispatched at most once in order; sequence numbers unique and
  acknowledgements confined to their connection; a snapshot survives the round
  trip through a file with older keys; presses and releases alternate.

## 2. The modules

`PipelineWatcher` — the watch directory, the tools that write to it and every
scanner of one watcher object. `dir` maps a file to its size and what its text
parses to: the event it holds whole, or `Torn`. `CreateFile`, `WriteFile` and
`WriteFails` are the system calls of `write_to_dir`. A scanner is a thread that
`start` spawned or the caller of `poll`; both go through the same loop body, one
action per point where another thread can come between: list the directory,
visit an entry (skip it if seen, otherwise mark it *before* reading), read, take
the callbacks mutex, call each callback, leave. A panicking callback unwinds
through the mutex guard and poisons it, kills a thread, and in `poll` poisons
`seen_files` too. `stop` only clears the flag. A listing gives any part of the
directory, for `flatten` drops the entries that come back as errors and a
`read_dir` that fails gives none; and a read can fail on a whole file
(`ReadFails`), whose name stays marked. `delivered`, `repeated`, `promised`,
`tooEarly` (events whose file `poll` read before their text was in it) and
`unread` (files a scanner could not read) are history variables.

`ManifestOps` — the in-memory manifest as a value: the records and both indexes,
with what registering, removing, loading and looking up make of them.
`Manifest` is one such object used by one tool; `AssetRegistry` is what it
promises, a plain map from paths to assets, and `Manifest` implements it under
the mapping `find_by_path`. `ManifestStore` puts several tools, each with a
manifest in memory, over one `manifest.json` that `save` truncates and then
writes in one piece or several, each tool at its own offset; saves can overlap,
fail and die. `parts` holds the tools with text in the file, `cut` those whose
first part another save has truncated away. Where pieces of two texts meet, the
file holds a `Mixture`: as a rule it does not parse, but texts of equal length
that are cut after a record give one that does, with two records for a path.
`fileDoubt` and `doubt` follow such a file into the manifests loaded from it.

`WatchLog` — `append_line` as lock, open, write of the line, write of the
newline (`writeln!` on a `File`, which has no buffer, calls `write` once for
each). `ObjectOf` says which threads share a `WatchLog` object and its mutex.

`Entities` — the id pool and the component store. `EntitySpec` lets a caller
destroy any id it has ever been given, which the types allow. `CarefulSpec` is the
caller that strips and destroys live entities only. `births` and `born` say
which entity an id stands for; a component remembers the one it was added to.

`UndoStack` — the two stacks, and in `doc` the commands in effect. It implements
`EditHistory`, a line of commands with a cursor, where a redo after a new
command cannot even be expressed.

`Patch` — `apply` entry by entry, with `fs::copy` split into truncating the
destination and filling it, so that an error or a death leaves a `Partial` file;
`verify` as the predicate `HasIssue` on an entry, given the files that exist but
cannot be read, of whose content it says nothing. The manifest is chosen in the
initial state and the patch source may gain or lose files at any time.

`ExternalLaunch` — `NF::PIEExternalLaunch`
(`src/Source/Editor/include/NF/Editor/PIEExternalLaunch.h`). `ui` is the place of
the editor's thread inside `launch`, `terminate` or the destructor, `mon` that of
the monitor thread, `child` what each process is to the operating system: it
runs, has closed its output, is a zombie, is reaped. Every point where the two
threads touch shared state (the flags, the mutex-guarded fields, the join, the
`waitpid`) is an action. A launch whose executable is missing is a stub with no
process. `told` counts the calls of `onExited` for a launch, `late` names the
launches that reset `m_exitNotified` while the previous monitor had still to
test it. The thread that `launch` starts knows its launch as `monOf`; the code
has only one set of members, and `OneReaper` is what makes that sound.

`TcpClient` — `TCPClient` of the game client
(`src/NovaForge/Source/Game/src/Client/network/tcp_client.cpp`) and the server at
the other end: operators for the application's calls and actions for the receive
thread and the server. A line is the pair of its connection and its number. The
loop test and `recv` are one action, and EAGAIN changes nothing. Nor does a reset:
the code treats it like EAGAIN, and the thread ends when a later `recv` gives 0
(`RecvReset`, then `RecvEnds`).

`GameSession` — composes two such clients (those of `GameClient` and of
`SessionManager`) with `NetworkManager`, `SessionManager`, `EmbeddedServer` and
`Application`. The application has one thread: `todo` is what is left of the call
it is in, with what it undoes if a step fails, so the order of the code's steps
and of its rollbacks is kept while other threads move in between. A frame hands
on both queues at once: `processMessages` holds the queue's mutex throughout.
The branch of `TCPClient::connect` that disconnects first is unreachable through
`NetworkManager` and left out. These files are in the repository but not among
the sources of the current CMake target of the game, which builds `Game.cpp`.

`ToolSuite` — the C++ watcher (`src/Source/Pipeline/src/Pipeline.cpp`), the
adapters and the registry (`ToolWiring.cpp`), and the subscriptions of
`WorkspaceBroker` and `AtlasAIReasoner`. Unlike the Rust one, this watcher knows
a file by name and modification time, has one `m_seen` for its thread and for
callers of `poll`, and joins its thread. `dir` maps a name (tool, type,
millisecond) to content and time; a file is empty from its opening until its
stream is closed, which is when the text, smaller than the stream's buffer,
reaches it. `Handlers` are the subscribers that answer, in the order they are
called; `Reply`, `Accepts` and `Skips` are what the code says of each. An event
carries in `from` the marks of those it descends from. A new file may or may not
show up in an iteration under way. The directory may fail to open
(`ListFails`), and so may a file whose time is in `m_seen` already (`ReadFails`);
`unread` names those, `blurred` the files written again in the millisecond that
`m_seen` holds. Files that never were event files are left out, and an answer may
be missing for any reason (`NoAnswer`).

Operators named as slips (`SeenIgnored`, `RemovedUnshifted`, ...) stand next to
the definition they would replace. They are plausible bugs of that line; each
property is known to fail under at least one of them.

## 3. What the runs check

| Run | Distinct states | Shows |
|---|---|---|
| `watcher_scan` | 5 218 418 | one thread beside `poll`, three events of which two share a name, failing and retrying writers, failing listings and reads, a panicking callback: callbacks never overlap (`CallbacksExclusive`), no scanner repeats an event (`OncePerScanner`), a poll has delivered each event it listed, but for those read too early or in vain, renamed or silenced (`PollServesWhole`), a panic silences the watcher for good (`PoisonSilences`) |
| `watcher_restart` | 95 992 | two threads after start, stop, start, beside `poll`, with failing listings and reads, with fairness: `WholeEventDelivered`, `StopEndsThreads`, `LockIsReleased` |
| `manifest` | 5 149 | `IndexesSound`, `RemoveTakesOne`, and that the manifest implements the registry (`ImplementsRegistry`) |
| `manifest_store` | 319 198 | whatever pieces of saves overlap, manifests in memory have their indexes in range and know their guids, and are sound but for what goes back to a mixture (`LoadedSound`); without a clash it is the last one saved (`QuietFileIsLastSave`) |
| `watchlog_one` | 18 231 | threads of one process keep lines whole and in mutex order (`OneObjectWhole`); each failure spoils one line end at most (`FaultsMergeOnce`) |
| `entities_careful` | 4 119 | the pool is a partition of the ids given (`PoolPartition`) and components belong to their entity (`OwnComponents`) |
| `undo_stack` | 2 511 | `UndoesTheLast`, `DepthBounded`, `ImplementsHistory` |
| `patch` | 1 123 944 | `OkInstalls`, `OkVerifies`, `TornIsReported` over all manifests of up to three entries on two paths, repeated paths included, and whichever files verify cannot read |
| `pie` | 114 653 | three launches: one `waitpid` per process (`ReapedByOne`), one report per launch (`AtMostOneReport`, `ExitReported`) after its output (`OutputBeforeExit`); `terminate` and the destructor return, no zombie stays (`TerminateReturns`, `DestructorReturns`, `NoZombieStays`) |
| `client` | 579 950 | two clients, three connections, two lines, servers that close and reset: `LinesInOrder`, `FreshAuth`, `SessionWhole` after any failure, `TerminatedByLossOnly`; calls return and a lost server is noticed (`CallReturns`, `EndIsNoticed`) |
| `suite` | 461 628 | broker and reasoner on a watcher scanned by its thread and by a caller, over a directory and files that may not open: `SeenMeansServed`, `ChainsEnd`, `PendingServed`, `StopReturns` |
| `suite_loop` | — | with the adapters attached as well, an event descends from one of its own kind |

`suite_loop` ends in a counterexample, listed under `findings` in `PROJECT.json`.
The tests say the full suite runs "without interference or feedback loops"
(`src/Tests/Pipeline/test_full_suite.cpp:45-47`); `AtlasAIAdapter` accepts its
own `AIAnalysis` events, for which broker and reasoner have a filter and the
registry has none. `ReplayMinimizerAdapter` is a second loop of the same kind: it
accepts `ReplayExported` and answers with `ReplayExported` (`ToolWiring.cpp:92`
and `109`).

### Divergences stated, not run

These sentences of the repository are false of the code. Each is a definition at
the end of its module, and TLC refutes it when it is given as the invariant of an
instance of that module; they have no run of their own.

| Definition | Said | Done |
|---|---|---|
| `PipelineWatcher!PollDeliversWritten` | Rust `atlas_pipeline` `lib.rs:457`: poll delivers the event written to the directory | a file listed between its creation and its text, or that one read fails on, is marked seen and never read again |
| `Manifest!GuidLookupExact` | `lib.rs:129`: a GUID registry that mirrors the C++ one, whose `registerAsset` erases the replaced guid | the Rust `register_asset` leaves it in the index |
| `WatchLog!SharedLogWhole` | `lib.rs:235`: a log "shared between all tools" | the mutex is one process's, and a line and its newline are two writes |
| `Entities!LiveIdsDiffer` (under `EntitySpec`) | Rust `atlas_engine` `lib.rs:154`: a pool of live ids | destroying an id twice gives it to two entities |
| `ExternalLaunch!OnExitedExactlyOnce` | `PIEExternalLaunch.h:481`: `m_exitNotified` "ensures onExited fires exactly once" | a launch from the editor's thread that clears the flag before the previous monitor tests it lets that monitor report for it, and its own end goes unreported |
| `GameSession!NeverTerminated` | `PHASE4_NETWORK.md:405-411` (under `src/NovaForge/Docs`) explains "terminate called without an active exception" by the socket and calls closing it before the join the workaround | when the server closes first, `m_connected` is false already, `TCPClient::disconnect` skips the join, and the next connect or the destructor meets a joinable thread |

Two more have no definition because the models leave their cause out:
`simulateExit` says it has no effect while a real process runs
(`PIEExternalLaunch.h:230`) and tests the state only, so `SimulateExit` keeps to
stubs as all callers do; and `NetworkManager` never learns that its client lost
the server, so `isConnected()` stays true until somebody disconnects.

### Bounds

- Watcher: three events and two files are the least that have a shared name
  beside a name of its own; text lengths 2 and 1 let a short text be overlaid on
  a long one and a write stop half-way. Two starts give the overlap of an old
  thread with a new one; a third thread would run the same code beside the same
  mutex. The proofs remove these bounds.
- Manifest: three guids and paths with three records let a removal shift records
  on both sides of a stale index entry.
- Store: two tools and three saves give two overlapping saves and one that runs
  alone after them; one fault. Three records on two paths let a mixture repeat a
  path; one guid is enough, as no guid takes part in saving and `manifest` covers
  the guid index. Tools and paths are symmetric.
- Log: three threads, three appends and two faults: an append before, between
  and after the faults.
- Entities: three ids and five births, so that ids are given again twice and the
  counter restarts after clear.
- Undo: depth three with up to seven commands in effect: trims, undone and
  redone commands around the limit.
- Patch: three entries on two paths, three calls: the first can die in a copy,
  the second fail, the third complete.

- Launcher: three launches, so that the monitor of one, the reports of the next
  and a third `launch` overlap; one line tells output from none.
- Client: three connections let one of the two clients connect again after a
  loss while the other is up; two lines over all connections make one that waits
  in a queue beside one that is handed on, or two that race a reconnection.
- Suite: one outside write and two milliseconds: enough for a file created and
  filled in the same millisecond or in different ones, answered by two
  subscribers, whose answers share a name or do not. The proofs remove these
  bounds. `suite_loop` needs no more.

Counters that only grow (`launchCount`, `conns`, `sent`, `writes`, `now`, `spawned`, `births`, `tries`, `saves`, `faults`,
`Len(order)`, `Len(doc)`) are bounded by a constant in a guard; the bound is
what makes those systems stop, and the configurations say so where they switch
the deadlock check off.

### Fairness

The operating system runs every thread, so in `watcher_restart`, `pie`, `client`
and `suite` the steps of threads are weakly fair, and so are those of a call
that has begun (`UiStep`, `AppStep`, `Pass(Caller)`, `Join`); nobody has to begin
one. In `pie` a game sent SIGTERM exits in the end, and nothing else makes one
exit; that is why `DestructorReturns` excepts a monitor already in its blocking
`waitpid`. In `client` nothing is assumed of the server, and no delivery is
promised, because a paused game updates nothing. In `suite` the tools outside
need not finish what they write. In `watcher_restart` a caller inside `poll`
keeps running, so its scan steps are fair too. Weak fairness on `LockCallbacks` is enough
for `LockIsReleased` because in that bounded run the others stop taking the
mutex: every scanner calls the subscribers for a file at most once. Nothing is
assumed of tools, clients or callbacks beyond that a callback returns or panics.
In `watcher_restart` a thread that lists the directory pass after pass gets a
complete listing in the end (strong fairness of `ListAll`, since any pass may list
less); nothing makes a file readable. In `suite` a failure to open the directory
changes nothing, so weak fairness of the thread already says that it opens it at
last; a file that cannot be opened stays unopened.
`StopEndsThreads` allows the outcome that `start` was called again, because then
the old thread really does go on.

## 4. What is proved

The proof modules hold for every value of the constants.

| Module | Theorems | Argument |
|---|---|---|
| `PipelineWatcherProofs` | `WatcherTypeCorrect`, `CallbacksNeverOverlap`, `NoScannerRepeats`, `PoisonIsFinal`, `PollAccountsForAll` | inductive invariant `TypeOK /\ CallbacksExclusive /\ ScanInv /\ OncePerScanner`; on it, what `poll` still owes (`ServeInv`) |
| `ManifestProofs` | `ManifestTypeCorrect`, `ManifestIndexesSound`, `ManifestImplementsRegistry`, `ManifestRemoveTakesOne`; of the shared file `StoreTypeCorrect`, `StoreLoadedSound`, `StoreQuietFile` | soundness of each operation on manifests as lemmas, then the refinement step by step, and what saves that overlap can leave |
| `WatchLogProofs` | `WatchLogTypeCorrect`, `OneObjectLogWhole`, `FaultsSpoilOneEndEach` | what the file holds while a thread is at each point of `append_line`; what a line left open still costs (`Paid`) |
| `EditorProofs` | `PoolIsPartition`, `NoInheritedComponent`; `UndoRevertsTheLast`, `StacksBounded`, `StacksImplementHistory` | `PoolPartition` and `OwnComponents` with the births of live ids; the undo stack is the end of what is in effect, each command a step of the cursor on one line |
| `ExternalLaunchProofs` | `Typed`, `OneReaper`, `ReportedAtMostOnce`, `EndReported`, `OutputComplete` | who owns the process at each pair of places of the two threads |
| `GameSessionProofs` | `SessionInvariant`, `LinesKeepOrder`, `AuthIsFresh`, `SessionStaysWhole`, `LossAloneTerminates` | what a client has had from its connections; where a call of the application is, and what is up there |
| `ToolSuiteProofs` | `Typed`, `Stopped`, `SeenServed`, `NoFeedback` | what each scanner still owes the file it is at; a rank that every answer raises |
| `PatchProofs` | `PatchTypeCorrect`, `OkMeansInstalled`, `VerifyAgrees`, `TornFilesReported` | how far the current call has come (`Progress`), whatever it found |

Why the invariants are stronger than the theorems:

- *Watcher.* That no scanner repeats an event needs that a file keeps the name
  of the event it holds (`BodyHasName`), that a scanner has marked the file of
  everything it delivered, and that of the file it is at it has delivered
  nothing yet, except to the callbacks before `next` (`AtFile`). Subscribers must
  be distinct entries, which `Subscribe` keeps.
  For `PollServesWhole`, the event of a file the poller has marked seen is
  delivered, excused or in its hands (`Dealt`), and one it owes is marked or still
  to visit (`Due`). A name nobody else took holds its event once its writer has
  returned Ok (`DirKnown`, kept step by step by `StepOwnFile`), so a read that
  finds nothing there came before the text and is in `tooEarly`. The history
  variables only grow, so an excuse stays one.
- *Log.* A failure leaves at most one line open, and the line written after it
  spoils that end: until then the end is owed (`Owed`), and what is spoilt and
  owed together never exceeds the failures.
- *Manifest.* `IndexesSound` is inductive only with the exactness of
  `path_index`: an index out of step with the paths would let `register_asset`
  write a second record for a path.
- *Shared file.* A manifest built from any records, one with a path twice too,
  has its indexes in range and knows their guids, and registering and removing
  keep that (`Loose`); so this holds of every manifest in memory whatever was in
  the file. The records a save writes are those of its tool's manifest, which the
  save borrows and no call can change until the borrow ends (`Borrowed`); so a file
  that loads and is not in doubt holds the records of a sound manifest
  (`FileSavable`). That a quiet file is the last save needs more (`Alone`): unless
  there was a clash, either nobody is saving and the file is the last save, or one
  tool is and only its text has been written since it emptied the file.
- *Entities.* A live id must have a birth (`BornOK`), or a component could be
  recorded for nobody.
- *Patch.* `OkInstalls` speaks of finished calls. `Progress` says of a call
  under way that the entries before `i` are in force but for those overridden or
  missing, and, inside a copy, that this may fail for the file being copied.
  Nothing is assumed of the disk when a call begins, which is why earlier
  failures do not matter. For verify the unreadable files are any set of paths: it
  says less of those, so an Ok is never contradicted, and of a torn file that is
  not among them it says the same whatever the others are.

- *Launcher.* `IInv` ties the threads to the process: while a monitor is before
  its `waitpid`, `m_nativePid` is its own launch's, and an editor past the join
  has no monitor beside it (`Processes`, `Threads`, `Calls`). A launch that is
  reported must have ended (`Reports`), and what was written is buffered or in
  the pipe (`Lines`).
- *Client.* `LinesInOrder` says how the lines a client has had are numbered;
  inductive is that the line queued next continues them (`Continued`): as many of
  its connection are there as the thread has queued, none is of a later
  connection, and no two clients share one (`Numbered`). `FreshAuth` needs
  that a queue which was empty at the connect holds lines of that connection only
  (`OwnLines`). For `SessionWhole`, `Located` lists what can be left of a call
  (26 sequences of operations, with the ways out of each failure) and what of
  session, server and clients is up at each; `TickerKnown` says the
  server's thread is there while the server runs and its stop flag is up only in
  a call that waits for it. For `TerminatedByLossOnly`, while no server has
  closed or reset a connection (`NoLoss`; a lost one stays lost, `LostForGood`), a
  receive thread belongs to a connection whose flag is up or to the
  `disconnect` that is joining it (`ThreadsKnown`), and a flag that is up means
  an open socket, a thread and a NetworkManager that believes in it (`FlagUp`).
- *Suite.* `SeenMeansServed` is inductive given the types: a scanner that has put
  a time in `m_seen` holds the file until it has given it or failed to open it,
  which puts what it held into `unread`, and a file filled later has a later time or
  is `blurred`. `NoFeedback` assumes a rank on marks
  that every handler's answer exceeds. The broker and the reasoner have one, for
  neither takes what AtlasAI wrote; with the AtlasAI adapter (or the replay
  minimizer) there is none, and
  `suite_loop` shows the loop.

Assumptions: the named `ASSUME`s in the modules (marker values are distinct,
functions have their domains, bounds are naturals, a package has a body for each
path, the client of the game is not that of the session), evaluated by TLC on the
instances above. The bounds are constants, so the theorems hold for any number of
starts, tries, appends, births, saves, connections and lines.

Model-checked only: the liveness properties (TLAPS does not prove `ENABLED` and
fairness), that is `WholeEventDelivered`, `StopEndsThreads`, `LockIsReleased`,
`TerminateReturns`, `DestructorReturns`, `NoZombieStays`, `CallReturns`,
`EndIsNoticed`, `PendingServed` and `StopReturns`; and the part of
`GameSession!TypeOK` that bounds the numbers of lines, which rests on a fold over
all connections, an induction over data. `Typed` in `GameSessionProofs` is
that invariant without the bound. Every safety property a passing run checks is
stated by a theorem. The hash computations of the code
(checksums, guids) are abstract: `Sum` is any function, so a truncated file may
have the checksum of the whole, and a generated guid may be any guid.

## 5. Limits of the models

- Callbacks are foreign code that returns or panics. One that calls its own
  watcher's `poll` or `subscribe` relocks a mutex its thread holds, which the
  standard library leaves unspecified; it is listed as a hazard and not modelled.
- File names are not built from characters: `FileOf` says which events share a
  name. A listing is taken at one moment, though it may lack any of the
  entries, and a file is read at one moment.
- `PipelineWatcher`: what two writers of one name leave mixed does not parse in the
  model. Should it parse, it is nobody's event, and no property speaks of it.
- File-system calls are atomic as far as a single `write` goes; no loss of
  completed writes by power failure.
- Strings, floats, timestamps, logging and formats are left out.
- `Entities` keeps the alive list as a count for each id; its order is visible
  only through `alive()`, which nothing reads.
- In `UndoStack` commands do not panic.
- `ExternalLaunch`: an `onExited` callback that launches again would join the
  monitor it runs on; callbacks here return and call nothing back.
- `GameSession`: commands after the greeting, SIGPIPE, the socket that a
  reconnection after a loss leaves open, JSON and LAN discovery are left out. A
  reset is reported once, as POSIX sockets do. On Windows `recv` goes on failing
  with `WSAECONNRESET`, which line 217 takes for EAGAIN: there the thread polls, and
  `m_connected` stays true, until somebody disconnects. That branch is not
  modelled, and `EndIsNoticed` does not hold of it.
- `Patch`: `Path::exists` is taken at its word; it also says false of a file it
  fails to look at, which `apply` then passes over and `verify` reports missing.
- `ToolSuite`: a flush that fails as the stream closes (the code asks `good()`
  before it, and it leaves the file empty), a time that cannot be read (taken as 0,
  so that the file is served again), an iterator that throws half-way, and a longer
  text of another writer of the name showing behind a shorter one (the parser takes
  the first value of each key) are left out. The stamp of an answer and the opening of its file fall in one
  millisecond; timestamps that are not numbers, which make `std::stoll` throw in
  the watcher's thread, and subscriptions after `start` are left out. The UI
  thread's use of the broker's sessions beside the watcher's thread, which
  nothing guards, is not modelled.

Not modelled at all, and why, is listed per component in `PROJECT.json`:
numeric crates, Bevy glue, mains, and of the C++ tree the engine, renderer,
panels and game rules: more than 300 000 lines, for the most part per-tick float arithmetic on
component records and of widgets, on one thread, each system independent of the
others, where a model would repeat the code and relate no two actors.

## 6. Plan

Done, in this order: watcher, manifest and its registry, log, shared manifest
file, undo stack, entities, patch, external launch, game client, tool suite.

Next:

1. `Engine`: `EventBus` (typed subscribers before wildcards, `flush` that loses
   the drained events when a callback panics, `reset`), tick and
   `run_headless` with `max_ticks`; abstract specification: each enqueued event
   dispatched at most once, in order. It will own the entity pool of `Entities`
   and take over its run.
2. `Networking`: connections, the global sequence number, the reliable buffer and
   acknowledgements that are lost, repeated or late; heartbeats against the 30 s
   timeout. Properties: sequence numbers unique over all buffers, an
   acknowledgement never clears another connection's packet, no reliable packet
   vanishes but by acknowledgement or removal. To be proved: uniqueness.
3. `Workspace`: shell, snapshot, `ProjectSerializer` and the project file; the
   round trip through a file that held a longer list; its save shares the
   in-place write of `ManifestStore`.
4. `EditorContext`: `UndoStack` with commands that panic, the bounded console,
   notifications and their timeouts, input phases.
5. Proofs: the new modules; then the step from a safety theorem to the liveness
   property that rests on it (who holds a lock, what a join waits for), as far as
   it can be said without `ENABLED`.

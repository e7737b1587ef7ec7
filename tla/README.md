# Heart Portal in TLA+

Heart Portal runs on a user's machine and gives a remote being ("Heart") a set
of MCP tools: files, shell commands, background processes, tool servers
("Kits"), and a coding sub-agent (`pi`) it can delegate tasks to. This
directory holds the specifications of Portal's concurrent core, their
model-checking configurations and the proofs about them. All paths below are
relative to `portal/src/` unless they start with `docs/` or `scripts/`.

Portal is one tokio program. Its state sits behind many small async mutexes,
most handlers await several times, and any tool call can be dropped at any of
its awaits when the client cancels the request or the connection ends. So the
models cut every handler **at its awaits and at the points where it gives a
lock back**: an action is the code between two such points.

## 1. The system

| Part | State it keeps | Operations | What is hard |
|---|---|---|---|
| **Sub-agent manager** (`subagent/mod.rs`) | tasks, sessions by key, `busy_task`, in-flight spawn keys, a semaphore, `shutting_down` | spawn, run and finalize, cancel, steer, status, list, reconcile, cleanup, configure_model, shutdown | eight awaits in spawn, three locks in finalize, cancel and shutdown against finalize, crash at any point |
| **Ledger** (`subagent/ledger.rs`) | `ledger.json`: a row per task | start_task, finish_task, set_callback_state, interrupt_open_tasks, prune, save, load | what is durable when; restart |
| **Heart callback** (`heart_callback.rs`) | none | detached POST with three attempts | lost and late deliveries |
| **pi daemon** (`subagent/pi_daemon.rs`) | the child, its client, the transport mode, behind one lock | ensure_running, adopt, replace, start, shutdown | a lock held over a start-up, dropped callers, a foreign daemon on the socket, the latch to stdio |
| **pi client** (`subagent/pi_client.rs`, `protocol.rs`) | the pending-request map, the writer, `connected` | connect, request, notify, reader task | EOF against insert, late answers |
| **Task over stdio** (`pi_daemon.rs`, `protocol.rs`, `mod.rs`) | the fold of one pi's output | run, read, judge | pipes held by descendants, what is repeated, time limit against exit |
| **Transcript** (`subagent/transcript.rs`) | bounded event log of a session | record, page | paging at the bound |
| **Connection server** (`main.rs`) | requests in progress by id, two JoinSets, the tool-list watch | read, admit, cancel, join, notify | id reuse, aborted tasks that still finish |
| **Tool host** (`tools/mod.rs`) | restart flag, reload locks, tool-list watch | dispatch, reload, restart, shut everything down | reload dropped halfway, 10 s shutdown limit |
| **Process manager** (`process_manager.rs`) | sessions, output rings, exit codes | spawn, poll, log, write, kill, kill_all, cleanup, exit watcher, readers | PID reuse, output after exit, a lock held across a write, lost wake-ups |
| **MCP clients** (`mcp/`) | response map, writer, child ownership | spawn, request, cancel, shutdown | timeouts, late answers, drop without cleanup |
| **Kits** (`kits/`) | registry with generations, start gates, retired connections | call, refresh, reload, shutdown | a call on a Kit that is replaced meanwhile |
| **Custom tools** (`tools/custom.rs`) | client, routes and tools of `mcp.toml`, under three locks | load, reload, call | a call between two of the three; a reload that fails after it emptied them |
| **Simple tools** (`tools/*.rs`) | nothing that outlives a call | one call each | mostly argument checks before an OS call |
| **Relay client** (`relay_client.rs`) | last inbound time, backoff | connect, bridge, heartbeat | reconnect, silent peers |
| **Start and end of Portal** (`main.rs`, `single_instance.rs`) | the instance lock, warm-up, cleanup | acquire, serve, warm up, clean up | two launches, warm-up against cleanup |
| **Installation, paths** (`user_installation.rs`, `paths.rs`, `windows_start.rs`) | the installed executable and its configuration | prepare, migrate, delegate, locate | concurrent downloads, the user's edits, crashes between file moves |
| **Upgrade** (`upgrade.rs`, `*_upgrade.rs`, `scripts/`) | stage, journal, backup, locks | submit, accept, replace, try, commit, roll back, recover | killed workers, deadlines, restarts by three kinds of guardian |
| **Configuration, policies** (`config.rs`, `exec_policy.rs`, `bounded_file.rs`) | files | parse, validate | sequential |

How they interact: the relay client (or the local listener) hands a byte stream
to the **connection server**, which runs each request as a task; the task calls
the **tool host**, which calls one of the managers. The **process manager** and
the **sub-agent manager** outlive the request that started their work: they
report back through the **Heart callback**, not through the connection. A
cancelled or lost connection therefore reaches the managers as *a call whose
future was dropped*, a restart as *loss of all memory, with the ledger left*.
In connect mode `ToolHost::set_callback_config` spawns `reconcile` beside the
relay client, so a restarted Portal reconciles and serves at the same time.

What makes each part correct:

* sub-agent: one task per session key; every permit and every key comes back;
  a finished, failed or interrupted task wakes the being at most once as long as
  the ledger can be written, and a cancelled run brings no result; a crash
  leaves evidence of every prompt that may be running.
* connection: an id answers the request that holds it; stuck work cannot fill
  the management pool; a restart follows its answer; announced changes of the
  tool list are passed on.
* process manager: an exit is reported once, last, and not to a being that
  killed the session; kill means dead; every poll returns.
* Kits: a call runs on the manifest it was resolved for, a broken process
  counts once, processes are bounded, and none serves a call after shutdown.
* MCP client: nobody is left waiting on a dead or garbled connection, slots are
  released on every way out, and the server learns what was given up.
* pi: no process is forgotten alive or used in a version Portal does not speak;
  every call returns; the verdict on a task is what its process earned.
* output: a client that follows `next_offset` misses nothing it is not told of.
* relay and process life: one Portal per configuration, a dead link is given up
  and dialled again, no answer goes to a later session, neither the warm-up nor
  (in connect mode) a call starts anything once the cleanup has begun.
* installation and upgrade: what the user has is never overwritten; the
  executable moves only inside a transaction that can be undone and that ends;
  what the command line was told is true.
* tool list: no two Kits own a route, a half-written Kit does not cost a loaded
  one, what clients were told can be called.

The hazards behind these properties are listed at their lines in
`PROJECT.json`, those no property covers with the reason.

## 2. Modules

| Module | What it is |
|---|---|
| `SubagentTasks` | spawn, run, finalize, cancel, shutdown, crash and restart, reconcile, delivery, with the ledger in memory and on disk |
| `SessionClaims` | abstract: one lock per session key; `SubagentTasks` implements it |
| `SubagentTasksProof` | the theorems about `SubagentTasks` |
| `Connection` | one MCP connection: `handle_connection` and its handler tasks |
| `RequestSlots` | abstract: what a connection promises about request ids; `Connection` implements it |
| `ProcessManager` | background sessions with their child, readers and watcher |
| `KitManager` | one Kit's registry entry with its calls, processes, reloads, retirement and shutdown |
| `McpConnection` | the requests that share one MCP server: table, writer, reader, cancellations, process |
| `RequestTable` | abstract: what a table of open requests promises its callers; `McpConnection` implements it |
| `McpConnectionProof` | the theorems about `McpConnection` |
| `OutputLog` | the output ring of a session, its decoder, its pages and the tail in a callback |
| `PiDaemon` | the daemon objects of the manager, their callers and the pi processes |
| `TaskRun` | one task as a pi process of its own: run, readers, fold, verdict |
| `PiClient` | the requests that share the daemon's socket |
| `PortalLife` | overlapping launches: instance lock, relay sessions, warm-up, calls, cleanup |
| `Upgrade` | command lines, workers, Portal, guardian and user around one executable, macOS and Windows |
| `Installation` | launches of downloads, restarts, migrations and edits around one user directory |
| `ToolRegistry` | Kits on disk and in the registry, custom tools, and the calls routed to them |
| `PortalProof` | the theorems about `Connection`, `PortalLife` and `Installation`: a Portal from its installation to its cleanup |
| `ProcessManagerProof` | the theorems about `ProcessManager` and `OutputLog` |
| `PiDaemonProof` | the theorems about `PiDaemon` and `TaskRun` |
| `KitManagerProof`, `UpgradeProof`, `ToolRegistryProof` | the theorems about the module of that name |
| `MC*` | the instances TLC checks |

### 2.1 SubagentTasks

A task is named by the spawn call that creates it (ids are fresh UUIDs), a
`SessionState` object by the spawn that allocates it, so that two objects for
one key could be told apart: `obj[t]` is the object the call works with,
`sessionOf[k]` the one in the map, `busy` and `active` are its `busy_task` and
`active_session_id.is_some()`.

| Code | Actions |
|---|---|
| `spawn` | `SpawnBegin` (shutting_down, `begin_spawn`, `try_acquire`: no await between them), `SpawnLookup`, `SpawnOpened`, `SpawnFails`, `SpawnClaim` / `SpawnRefused` (busy check and claim under one hold), `SpawnRegister`, `SpawnRecord` (`Ledger::start_task`), `SpawnLaunch`; `SpawnDropped` is the caller going away at any await |
| `run_task`, `finalize` | `PromptSettles`, `SocketLost`, `RecoveryEnds`, then one action per lock: `FinishStatus`, `FreeSession`, `FinishLedger`, `MarkSent`, `SendResult` |
| `cancel` | `CancelCheck`, `CancelFlag`, `CancelAnswer` |
| `shutdown` | `StopBegin`, `StopSnapshot`, `StopMark`, `StopSave` |
| crash, exit, start | `Restart`: memory and deliveries in flight are gone, `ledger' = disk` |
| `Ledger::save_lossy` | `Save`, in every step that changes the ledger: the file becomes what memory has, or (event `saveFails`) stays what it was and the handler goes on |
| `reconcile` | `ReconcileScan`, `ReconcileInterrupt`, `ReconcileReport`, `ReconcileDone` |
| `HeartCallback`, Heart's inbox | `Delivered`, `DeliveryLost` |

Abstracted: Done, Failed, Timeout and BudgetExhausted are one outcome
`"Result"`; briefs, usage, workdirs, models and texts are left out; which pi
transport runs the prompt matters only through its outcomes. `early` is a
history variable naming the tasks recorded before this life's reconcile closed
rows; `OnlyOrphansInterrupted` (section 3) shows why they are an exception.

A save writes the whole ledger, so a later one makes good what an earlier one
failed to write: `saveFailed` says that the last save of this life failed,
which is when disk and memory may differ. `forgot[t]` is a history variable: it
counts the restarts that lost a change of the row of `t` in this way. What a
failed save costs is then said exactly. A prompt may run without a row on disk
only while `saveFailed` (`EvidenceBeforePrompt`), and a task may be reported
once more for each change that was lost (`WakeAtMostOnce`).

A cancel is kept to the extent that these two properties say: from a cancel
that finalize sees, no *result* follows (`NoResultAfterCancel`), and once the
row is closed as cancelled on disk, nothing follows at all
(`CancelledIsSilent`); together they are `CancelHolds`. Between the two a crash
makes the next start report the task as interrupted, which the answer of
`cancel` denies: `CancelPromiseKept` (section 3). A ledger file that cannot be read or parsed, and a rename that
a power failure undoes (the directory is not synced), are not modelled.

### 2.2 Connection

An action is one iteration of the loop in `handle_connection`, or one step of a
handler task. `active` is `active_requests`; a handler in a JoinSet is a request
whose `call` is in `Unjoined`. After a cancellation the two disagree, and that
is what the properties are about. A request is sent (`Send`) before it is read,
so that `ManagementServed` (with `ChangeNoticed` in `ConnectionServes`) begins with a request the connection does not know
of yet; at most one is unread at a time. Notifications the client sends are
chosen when they are read. `NotifyBegins` is `changes.changed()`, `NotifyEnds`
the end of the write: the loop does nothing else in between (`Selecting`), but
the list may change. `Leave` is every return from the loop:
it drops both JoinSets. `RequestSlots` says what this promises: a result is
written only by the request that holds its id.

### 2.3 ProcessManager

Operating-system side: `proc` (alive, dead but not reaped, reaped), `heirs`
(descendants that hold the pipes), `unread`. The `sessions` mutex is a variable
(`lock`), because `write_stdin` keeps it across an await; other holders return
it within their own step, so a step needs only `lock = None`. The exit watcher
is `WatchReap` (wait), `WatchMark` (`exited_at`), `WatchPublish` (drain, status)
and `WatchWake`; `kill` is `KillAsk`, `KillCheck`, `KillTerminate`,
`KillRecheck`, `KillForce` with the lock given back between check and signal, as
in the code; `kill_all` is the `Sweep*` actions. A write to standard input ends
when whoever holds the read end takes the data, or when nobody holds it any
more. Fairness does not promise that: `Stuck` is a write to a deaf child (`Deaf`),
or to descendants of a child that is gone, and `WriteEnds` is fair only
otherwise. `CallersLearn` therefore speaks of behaviours in which no write stays
stuck for ever; what happens in the others is `KillReturns` (section 3). Output is one chunk per stream
here; its bytes are the subject of `OutputLog`.

### 2.4 KitManager

One Kit, since Kits share nothing but the registry lock, which nobody keeps
across an await. A process is named by the call that started it; who has an
`Arc` of its `McpConnection` is read off the state (`Held`), because the last
drop kills the process and returns its slot.

| Code | Actions |
|---|---|
| `call_tool`, up to `connection_for` | `Resolve` (generation noted), `AskGate`, `PassGate` / `TurnedAway` (`start_lock`, five seconds) |
| `connection_for` behind the gate | `Share`, `Refused`, `Prepare` (slot taken, dead connection taken out), `StartProcess`, `StartCancelled`, `StartSettles`, then `Install`, `StartFailed` or `Disowned` |
| the request and phase 3 of `call_tool` | `CallEnds`, `Bookkeep`, `GiveUp`, `AbortFailed`; `CallDropped` at any await |
| `refresh_kits_target` | `Reload`, `Remove`, `Add`; cool-down is `Recover` |
| `retire` | `Retire`, `RetireDropped`, `Unwrap`, `Closed` |
| `shutdown` | `StopBegin`, `StopTake`, `StopAborts`, `StopEnds` |

A warm-up is the first half of a call, so `CallDropped` covers its end.
`generation` is a counter here and a UUID in the code; `install` tells an
entry from the one before a removal, since a new entry brings new slots. The
host-wide limit on processes is one more way for a start to fail.

### 2.5 McpConnection

What is under `KitManager`'s `CallEnds`: one initialized connection. Requests
are named by their ids, which `next_id` never repeats, so a late answer can
meet an empty slot but never another request's.

| Code | Actions |
|---|---|
| `request_with_timeout` | `Register` / `Reject` (the flag and the limit, under the table's lock), `TakeWriter` / `WriterTimeout`, `WriteDone` / `WriteBreaks`, `Break` (abort), `Receive` |
| `PendingRequest::drop` | `GiveUp` (with `Cancel`), `Break` when it was writing |
| `reader_task` | `ReadAnswer`, `ReaderEof` / `ReaderFails`, `Drain`, `ReaderKills` |
| `cancellation::start` | `CancelNext`, `CancelTake`, `CancelDone` / `CancelBreaks`, `CancelAborts` |
| `abort`, `terminate` | `Abort` inside the steps that call it; `OwnerAborts` from outside |

A dropped future gives the writer back before its guard aborts the connection,
so another request may be glued to half a line: `torn` and `glued` keep track.
`shutdown(&mut self)` needs the connection to itself, so no request meets it; it
is a step of `KitManager`. `initialize` is not a request here: it has the
connection to itself and is never cancelled. Killing the process group is
taken to close its output. A descendant that left the group and kept the pipe
would keep the reader, and the waiting calls, until their time limit.

### 2.6 OutputLog

Text is a sequence of characters with two widths: bytes in the pipe and bytes in
the ring, which differ when U+FFFD replaces what was cut off. Offsets, the limit
of a page and the size of the ring count bytes as in the code: the offset of a
boundary between two characters is the width of what lies before it (`Wide`, `Upto`;
`Raw` in a pipe). So `ReadChunk`
may end inside a character (`pending` of `OutputDecoder`), `Appends` drops whole
characters until the rest fits, and `At` finds the boundary an offset denotes,
if any. The client takes pages with `portal_process log` or `poll`
(`Unlimited`), or of a transcript, always at the last `next_offset`. That the
code would refuse an offset inside a character is the invariant's business: it
says that a client is never refused. Text that was replaced for bytes that are
wrong rather than missing behaves like any wide character.

### 2.7 PiDaemon and TaskRun

`PiDaemon` has the objects one after the other (`replace_daemon` and
`adopt_command` make a new one), each with `child`, `client`, `mode` and its
lock, and the processes with who is on the socket.

| Code | Actions |
|---|---|
| `transport`, `ensure_transport` | `TransportBegin`, `ReadMode`, `TransportFailed`, `Returns`; `TransportDropped` at every await |
| `ensure_running` | `EnsureRunning`, `Adopt`, `ProbeOtherVersion`, `ProbeFails`, `ReplaceSpawns` |
| `spawn_locked`, `await_socket_ready` | `SpawnsFresh`, `SpawnFails`, `ReadyConnects`, `StartFails`, `ReadyLatches`, `ReadyTimesOut` |
| `shutdown` and its callers | `StopBegin` (with the reason), `ShutdownLocks`, `ShutdownTakesChild`, `ShutdownEnds`, `Stopped`; `ShutdownDropped` |
| `Drop` of an object | `ObjectDropped` |
| the processes | `ProcBinds`, `ProcExits` |

`TaskRun` is the other transport. `said` is what pi printed, `folded` what the
stdout reader made of it, `report` what `run_stdio_task` hands back, `verdict`
what `run_task_stdio` concludes. A line is folded when it is printed; a pi
that writes only at its end (`chatty` false) gives everything in `agent_end`.
In `MCPiDaemon` a behaviour is about one of the two (`transport`): a task meets
one or the other, and they share nothing after the latch. Every line is taken
to be UTF-8: `fold_stdout` ends silently at one that is not, with what it has
folded so far.

### 2.8 PiClient

`Check`, `InsertPending`, `TakeWriter`, `WriteLine` are the awaits and locks of
`request`; `ReadAnswer`, `StreamEnds`, `DrainPending` and `ClearConnected` those
of the reader's task. The gap between the last two is where the one
counterexample lives.

### 2.9 PortalLife

Each launch goes through `LaunchPortal`, `AcquireInstance`, `StartServing`, then
`StopRequested`, `WarmupShutdown`, `CleanupDone`, with `Warmup` beside it and
`Crash` anywhere. `link` is the relay session: `Redial`, `SessionUp`,
`DialFails`, `SessionCloses`, `HeartbeatWrites`, `HeartbeatGivesUp`,
`HeartbeatStuck`, `SessionEnds`. The relay itself (`RelayTurns`) may be up,
silent, down or refuse at any time. `work` is who started the children that
cleanup has to end (`CleanupKills`): the warm-up, calls, or the detached runs of
sub-agent tasks. The serving loop takes its calls with it when it is dropped;
the runs (`runs`) go on. `RunAsks` is the look of `transport` at `shutting_down`,
`RunStarts` the pi that `ensure_transport` starts some awaits later, so a
run may start one in the middle of the cleanup: `CleanedStaysClean` allows
this to a run that had looked before, and to nothing else. The Kit refresher
that `tools/mod.rs:180` spawns survives the loop, too, but starts no process: a
scan only retires connections, and once `kits.stopping` is set it does nothing.

### 2.10 Upgrade

One transaction engine for both platforms, which differ in order: macOS writes
its journal and accepts, Windows accepts, waits for the command to exit and
writes its journal. `cli` and `told` are the command line, `wrk` where each
worker is (one value per point where it can be killed), `exe`, `backup`,
`journal`, `accepted`, `outcome` the files, `owner` and `gate` the locks that
the operating system returns when their holder dies. `GuardianStarts` is
launchd, the session supervisor or the Windows supervisor.

The worker starts the Portal in one of four ways (`guardian` on macOS): launchd
starts it at once; a session guardian is asked through a file and does so when
it likes (`asked`); `start.sh` is a process that the worker leaves alone
(`scripts` counts those that have not executed the Portal yet, `ScriptStarts` is
when one does); an offline installation stays stopped. The worker waits
35 s for what it started. When it gives up (`GoesOn`), a guardian or a `start.sh`
that is still on its way may come between the stop and the rename of the
roll-back, so that the Portal that runs is not the one that is installed; `slipped` remembers
that a worker went on like this, and `RunsWhatIsInstalled` promises nothing from there
on. A slip is also how the installed candidate can be executed again although the
journal is there (`JournalForcesRollback`, section 3).

The nonce of a trial is abstracted: a `start.sh` of an open transaction is let
through. `wait_ready` looks for any process in this mode, so `PublishedReady`
does. That a guardian adopts a Portal which nobody supervised is not modelled.

### 2.11 Installation

`prepare` is `Lock`, `Check`, `Plan`, `Apply`, `Publish`, `Link`, one step per
file operation, then `Located`, `InitializeConfig`, `LoadConfig`. An
executable is named by the download it came from, a configuration by whose
settings it holds. `Upgraded` stands for the whole of `Upgrade`.

### 2.12 ToolRegistry

A scan reads one directory after the other (`ListDirs`, `ReadDir`) while `EditKits`
changes them, then `Reconcile` and `Announce`. Loads of `mcp.toml` go
through `ClearRoutes`, `ClearTools`, `Connect`, `PutClient`, `PutRoutes`,
`PutTools`, one lock each; calls take `Count`, `HasTool`, `FindServer`,
`TakeClient` in between. `cut` says that a change of the Kits was never told,
because its refresh was dropped; `dropped` that the last reload of `mcp.toml`
was. They differ: the next refresh of the Kits tells whatever the list then
is, tools of a half-reloaded `mcp.toml` included, so it ends `cut` and not
`dropped`, and `ToldCanBeCalled` promises a route only while neither holds.
`health` is what the list depends on besides the files: a Kit whose command was
`missing` when it was loaded stays hidden until a scan finds the command, which
is announced like any reload; one that `failed` three times (`FallsIll`) is hidden until it
has cooled down (`Recovers`), and neither is announced. `heard` is the health at
the last announcement, so `ToldCanBeCalled` says that the list clients were
told is the one they would get but for failures and recoveries since; the
rest is `IllnessIsTold` (section 3).
In `MCToolRegistry` a behaviour edits either the Kits or `mcp.toml` (`half`). In
the second half calls go on beside the loads, or the Kits are refreshed beside
them with no call under way; no action of the model reads both at once.

## 3. Runs

One run expects a violation: `pi_client` states what a comment of the repository
says, and TLC finds the behaviour that contradicts it. Ten more definitions
say what comments and documents promise and the code does not keep;
`PROJECT.json` "findings" quotes the lines. They have no run; to see one fail, put
it into the configuration of its module's run in place of that run's properties
(`BusySessionsFinish`, `ChangesTold`, `KillReturns`, `ShutdownStaysDown` and
`JournalForcesRollback` under PROPERTIES, the others under INVARIANTS):

| Definition | Run | What the code does instead |
|---|---|---|
| `BusySessionsFinish` | `sessions` | a dropped spawn leaves `busy_task` set for ever |
| `CancelPromiseKept` | `lives` | a callback arrives for a task whose cancel denied it |
| `OnlyOrphansInterrupted` | `lives` | reconcile closes the row of a task of this life |
| `ChangesTold` | `connection` | a reload empties the list, fails, and tells nobody |
| `NoStraySignal` | `processes` | kill signals a process that was reaped already |
| `KillReturns` | `processes`, with `Uses = {"write", "kill", "heirs"}` | a write that descendants of a dead child never read keeps every kill waiting |
| `ShutdownStaysDown` | `pi` | a call starts a pi after the shutdown stopped the daemon |
| `SaidIsHandedBack` | `pi` | what pi said is lost when a descendant keeps its pipe |
| `JournalForcesRollback` | `upgrade` | a candidate is executed again after its worker was killed |
| `IllnessIsTold` | `tools` | a Kit falls ill, leaves the list, and no client is told |

| Run | Instance | Question |
|---|---|---|
| `sessions` | 2 tasks, 2 keys, dropped callers, unloads, socket losses; 1 key, cancels, socket losses, shutdown | one task per session, exact permits, the map refines `SessionClaims`; `SessionFreed`: every launched task gives its session back, however its run ends |
| `lives` | 1 task, 3 lives, crashes, failing saves, shutdown, cancel, drop, unload, socket loss, lost deliveries; 2 tasks around one restart, a ledger of 1 finished row | is the ledger what recovery needs, who is woken how often and for which rows, `CancelHolds`: what does a cancel silence; `OrphansReported`: every orphan is reported, beside other orphans, spawns that are served already and rows that are pruned |
| `connection` | 3 requests, 2 ids, both pools of size 1; or 2 requests and two changes | ids, pool limits, restart after answer; `ConnectionServes`: a management request is read and served whatever fills the other pool, and every change of the list is noticed, also one before the initialization or during a notification |
| `processes` | 1 session, every operation and child behaviour; 2 pipes of 2 characters in a ring of 4 bytes | exit order, silence after kill and during shutdown, kill means dead; `CallersLearn`: exits are published, polls return unless a write is stuck; `OutputFaithful` |
| `kits` | 3 calls, 2 slots, unhealthy after 2 failures, one reload or removal with reinstallation | calls meet the manifest they were resolved for, processes are bounded, a fault counts once, shutdown reaches every process |
| `mcp` | 3 requests, 2 slots, a channel of 1 cancellation, aborts and death at any point | the table implements `RequestTable`; `RequestsSettle`: nobody waits out ten minutes on a dead or garbled stream, every abandoned request is cancelled or its server killed |
| `pi` | 1 caller, 1 stopper, 2 objects, 2 children and a foreign daemon; a task of 2 messages with budgets of 2 | every pi has an owner, every call returns; the verdict is earned and comes |
| `life` | 2 launches with instance lock in connect mode, silence limit 2, session numbers modulo 2 | one Portal on the relay, no late answer, nothing new but by a late run after cleanup began, the link recovers |
| `upgrade` | 2 commands, one killed worker, both platforms, every guardian | rejections are true, the running Portal is the installed one but after a slip, a trial has a way back, transactions end |
| `install` | 2 downloads, a restart, a migration, one killed process, edits and an upgrade | nothing is overwritten, a migrated launch runs with its settings |
| `tools` | 2 directories, 3 manifests of 2 Kits with a shared route, 2 servers, 1 call, 2 edits, 2 loads | routes have one owner, loaded Kits are kept, what was told can be called |
| `pi_client` | 2 requests | does a request on a dead connection wait for its time limit? |

**Bounds.** Two tasks are the smallest number that contend for a key, a permit
or a place in a pruned ledger; a third adds no new kind of pair, and the
invariants of `SubagentTasks` are proved for any number. What `lives` asks is
asked of each task for itself; three lives give a restart that meets rows an
earlier restart closed, and one whose row an earlier life failed to save.
A run with two tasks and every event at once is out of TLC's reach, so
`MCSubagentTasks` has four `story`s, each with the events of its question.
`claims` has two keys and callers and sessions that go away; `ends` one key, so
that the second task waits for, or is refused, the session of the first, and
all that ends a run. `task` is one task that is spawned in the first life
(in a later one it would find the same blank state). `orphans` has
two tasks around the last restart: `MaxFinished = 1` makes pruning
happen with the second finished row, and the last life meets two orphans, or
one and a task that it is starting itself. What a story leaves out is never a
step that fairness promises.
In `connection` three requests over two ids give reuse
of an id while the cancelled handler still runs *and* a third request that finds
the pool full; pools of size 1 are full at once. One unread request is
enough for what happens between sending and reading. `MCConnection` gives up the
third request for a second change of the list, the one that comes while the first
is being written. In `processes` one session is
enough for properties of one session; its operations share nothing but the lock
with other sessions. `Talks = {"stderr"}` lets the stream write that a watcher
might forget; stdout is symmetric. Four characters of one and two bytes, and
three for U+FFFD, overrun a ring of four bytes in every alignment and split
every wide one at a page of three. The session and its bytes are two halves of
one run (`half` of `MCProcessManager`): no step of one reads the other's state.
In `kits` two calls share
a process while the third starts its replacement, and three processes are one
more than the slots allow; one change gives an old and a new generation.
In `mcp` one request waits
for the writer while another breaks off its line, and with one cancellation
being written and one queued the third finds the channel full.
In `pi` the second object is the one that replaces the first while a call is
still in it, and two children are one that was lost sight of and its successor. Two messages
are one with text and one that only calls a tool, in either order. Sessions
modulo 2 tell this one from the last, and a late answer comes from the last.
Two upgrades are one in its transaction and one that must be refused; one
crash is enough to leave each intermediate state to whoever finds it first.
In `upgrade` one `start.sh` that is late and the one of the roll-back make two
`scripts`, which the killed worker's successor can bring about.
In `install` and `tools` two edits, or two downloads, are what it takes to
change something behind a reader's back and change it again.
`Events` and `Uses` name what an instance leaves out. Symmetry is used
only in `kits` and `install`, which have no liveness property.

**Deadlock** is not checked: every system here may come to rest (all calls
answered, connection closed, all tasks over, the last life reached).

**Fairness.** Weak fairness on steps of tokio tasks that are ready to run: the
runtime polls every woken task again, and every wait inside those steps has a
time limit or waits for another such step. In particular a prompt has its task
timeout (`run_task_daemon`), recovery its reconnect window, kill its grace, the
output drain its `OUTPUT_DRAIN_TIMEOUT`, a poll its deadline (a write to a session has none: it is fair only while it is
not `Stuck`), a write to an MCP server
its five seconds (but the ten minutes of an MCP call are never assumed to pass:
`HopelessSettles` says that nobody has to wait for them). `PiDaemon` has strong
fairness, since its lock is tokio's, given out in the order of its waiters, and
every await under it has a limit. `TaskRun` trusts neither pi nor its descendants:
only the run and the manager are fair. `PortalLife` has the loop of the relay
client, `Upgrade` the workers and the guardian that starts them again: for a
user without a guardian nothing is promised. `select!` in
`handle_connection` takes a ready branch at random, so a branch that stays ready
is taken. Nothing is assumed of the outside: no client sends, no child exits or
closes its pipes, no work request ends, no one spawns or cancels, and a crash
may come or not.

## 4. Proofs

Eight modules hold the theorems; each is checked by `tlapm` from nothing. Every
invariant and every action property that a passing run checks, and each of the
three refinements, is a theorem for every value of the constants. The only
hypotheses on constants are the `ASSUME`s of the modules, which TLC evaluates in
the runs. An inductive invariant is always a conjunction of named parts; what
follows says which part is there for what.

tlapm 1.4.5 gives Z3 an axiom on `Len` that is too strong: every value, not only a
sequence, has the domain `1..Len(v)`, so that a function on `0..n` next to a
`Len` is a contradiction. The functions of `TaskRun` and `OutputLog` (`Repeated`,
`Sums`) are such. The eight modules have also been checked with this axiom cut
down to what is true of sequences, and are written so that every leaf passes
there too.

### SubagentTasksProof

For every set of tasks and keys, every limit and any number of restarts, with
finite `Tasks`, `None` no task and natural bounds (`NoneAssumption`,
`FiniteAssumption`, `BoundsAssumption`).

* `TypeCorrect`: `TypeOK`. `Typed` is inductive alone; that the semaphore never
  exceeds its size comes from `PermitsExact`.
* `SessionSafety`: `OneTaskPerSession`. That two holders of one key are the same
  task is not inductive: one must know that both work with the *same session
  object*. `ClaimInv` says so: a spawn in flight owns its key's guard and no
  other does (`GuardsHeld`), each object has one key and is found in the map once
  it may be claimed (`ObjectsOwned`, `ObjectsFound`, `ActiveObjects`), and
  whoever holds a session is the `busy_task` of its object (`HoldersBusy`).
* `PermitSafety`: `PermitsExact`, a count over two disjoint finite sets; every
  action moves at most one task between them.
* `WakeSafety`, `ReportSafety`, `EvidenceSafety`: `WakeAtMostOnce`,
  `WakeOnlyWhenClosed`, `EvidenceBeforePrompt`, whichever saves fail. `WakeInv` ties
  each stage of finalize and of reconcile to what the row *in memory* says: a row stays
  open until its finalize closes it, a report is only ever in preparation for a
  closed row, a row that reconcile will report has not been posted but for lost
  saves, and its task is not running. `FileInv` is what a crash then finds: the
  file equals memory unless the last save failed (`FileCurrent`), and even then
  holds for each task a row that memory's has moved forward from (`FileBehind`,
  `FileRowsHaveSpawns`, `FileOpenRowsPending`).
* `CancelSafety` (`CancelHolds`), over all lives. For `NoResultAfterCancel`,
  `ResultsComeLast` says that a result is on its way, or in the inbox, only after the
  run that a cancel can no longer overtake was over; `Silenced` is then kept by
  every step. For `CancelledIsSilent`, a row that says Cancelled, in memory or on disk, is
  one nobody is left to report (`CancelledRows`, `NobodyReports`), and once the file
  has it no later reconcile takes it for open (`Hushed`).
* `RowSafety`: `RowsMoveForward`, an action property, from the same invariant.
* `ClaimsRefined`: `SubagentTasks` implements `SessionClaims` under the mapping
  "the holder of a key is the `busy_task` of its object", with `BusyObjects`: a
  set `busy_task` belongs to the task it names.

`TypeOK` is proved and not listed by a run: it is a step in the proof of what
the runs list.

### McpConnectionProof

For any number of requests and any positive limits (`NamesAssumption`,
`LimitsAssumption`).

* `TypeCorrect`: `TypeOK`, with the capacity of the channel of cancellations.
* `TableRefined`: `ImplementsTable`, under the mapping "open is `pending`, up is
  a reader that has not drained". It rests on `TableInv`: a slot belongs to a
  request under way without a reply (`SlotsOwned`), a connection whose flag is
  up is being read (`LiveIsRead`), and nothing enters the table after the drain
  (`StaysDrained`), which is why the flag is read under the table's lock.

### PortalProof

`Connection`, `PortalLife` and `Installation` together: their variables are
disjoint, and each specification has its own theorems, for any number of requests,
ids, launches, downloads and crashes.

* `Connection`: `TypeCorrect`, `HandlersSafe` (`HandlersBounded`), `RestartSafe`
  (`RestartAfterAnswer`), `SlotsRefined` (`ImplementsSlots`). `Inv` adds that a
  request not yet read is blank, that the owner of an id was not told to abort
  (`OwnersGoOn`: `$/cancelRequest` gives the id free in the same step), and that a
  handler came with an id. The bound is a count of two disjoint sets of handlers
  that only the two admissions enlarge.
* `PortalLife`: `LifeServesAlone` (`ServesAlone`) needs to know who holds the
  instance lock (`LockHeld`), that only a serving process has a link (`LinkServes`),
  and that calls are those of the session that is up (`CallsCurrent`).
  `LifeCleaned` (`CleanedStaysClean`) holds with and without a relay. Through a relay
  the loop is dropped with its calls before cleanup begins, so only a detached run
  that had looked at `shutting_down` before may still start a pi. In standalone mode
  connections end only with the process, and the property allows a call to start
  something beside the cleanup, too (`LateStarters`).
* `Installation`: `InstRunsWell` (`RunsWithItsSettings`) and `InstKeeps`
  (`InstallationKeeps`). `LaunchInv` follows one launch: it copies settings only
  after it looked (`CopiesLate`), only its own (`CopiesItsOwn`), they are in place
  before it goes on (`CopiesFirst`), and it publishes without them only where the
  installation was there before, was given settings, or had none beside it
  (`PublishesForCause`).

### ProcessManagerProof

For any number of sessions, any limit, every subset of the uses, and any set of
deaf children.

* `KillSafe` (`KillMeansDead`), `ExitSafe` (`ExitIsLast`), `SilenceSafe` (`Silences`)
  and `TypeCorrect`, from one `Inv`: a child lives once, between its spawn and its
  reaping, and leaves the map after that (`LivesOnce`); a reader that ended left
  nothing in its pipe and nobody who could write to it (`EndedIsEmpty`); only
  registered sessions are killed (`KillsKnown`); what was ended on purpose
  carries the flag (`DeliberateFlagged`); only a published exit was handed to
  delivery (`WokenExited`).
* `OutputKept` (`OutputFaithful`): for any characters, chunk boundaries, ring, page
  and tail sizes. Offsets are sums of widths, so `Sums` is shown to have the values
  of its recursion, to grow strictly and not to move when something is appended.
  `LogInv` then says that the client's offset is the boundary after its last
  page (`Followed`), which an append does not disturb and which the ring's start
  either precedes or has passed; `ChunkKeeps` and `EofKeeps` show that what is
  decoded extends each pipe's characters by the next ones.

### PiDaemonProof

* `PiOwned` (`PiIsOwned`): for any number of objects, children, callers and
  stoppers. `LockHeld`, `StartClean` and `TakenWhileWaiting` say what a start or a
  stop may rely on between its awaits.
* `VerdictTrue` (`TaskVerdictTrue`): for any number of messages and any budget. The
  reader's fold is what was printed (`FoldKept`: the last text, each message's
  usage once, any error), through `agent_end`, which repeats all of it: `Repeated`
  is a fold over the messages, read by induction in `RepeatedReads`. `RunStages`
  ties the run to its process and its report, `DoneByReport` the verdict to the
  report it was concluded from.

### KitManagerProof

For any number of calls, generations, slots and any failure limit.

* `CallsMeet`, `SlotsHold`, `FailuresTrue`, `ShutdownComplete`, `GivenUp` and
  `TypeCorrect`. `Core` has the gate and the generations: who is past the gate
  holds the lock of the generation it asked at, a connection is one of the present
  generation, and nobody starts one beside it or in an unhealthy Kit. `Refs` counts
  the references: whoever has an `Arc` of a process has one that was installed
  (`RefsServed`), what lives is held (`AliveHeld`), and on its way out a process
  has one owner (`OneOwner`), without which a process could be closed twice or
  kept for ever. Slots are counted per entry (`SlotsBounded`), failures against
  the processes that failed (`FailuresCounted`).

### UpgradeProof

On both platforms, for any number of requests with candidates of any versions, and
any number of killed workers.

* `TypeCorrect`, `RejectionsTrue`, `TrialsCanBeUndone`, `ExeByTransaction`
  (`ExeMovesByTransaction`): from `Inv`, which says at each point of a worker what
  the lock, the journal, the outcome and the way back are. The two platforms write
  the journal at different points, so those parts are stated per platform
  (`JournalOnMac`, `JournalOnWindows`, `BackupOnMac`, `BackupOnWindows`,
  `MacErrors`, `WindowsWaits`).
* `Sound` (`UpgradeSound`), for every guardian and every `start.sh`. Its part
  `RunsWhatIsInstalled` needs to know who may start the Portal while its image is
  exchanged (`StartsInv`): on Windows nobody, since the worker holds the gate
  (`GateHeld`); on macOS nobody but a guardian or script that was asked by the worker of
  an open trial, which still waits for it or was killed (`AskedOf`, `PendingInTrial`), so
  that the Portal is down when its image moves (`Stopped`) - all of it until a
  worker goes on without the start it asked for (`slipped`). The two other parts,
  `RejectedUntouched` and `TrialHasBackup`, are the two theorems above and hold after
  a slip as well.

### ToolRegistryProof

For any directories, manifests with any names, routes and requirements, servers,
calls and reloads.

* `RoutesSafe` (`RoutesUnambiguous`), `KitsKept` (`KitsAreKept`): the loaded Kits are
  pairwise apart in name, directory and routes; a scan yields Kits that are apart, and
  reconciling keeps that, whatever was edited in between.
* `ToldSafe` (`ToldCanBeCalled`): `TablesInv` says after each of a load's lock
  sections which of its three tables are cleared, stored or still those of before;
  `Numbered` that routes follow the clients, `Told` that the list a client
  heard is the list at the health of the last announcement once nothing reloads, and that
  no Kit has lost or found its command since (`SameMissing`): a scan that takes
  a Kit up or drops it announces it, and only loaded Kits are ill (`IllAreLoaded`).

### Induction, and what is only model-checked

Induction principles that take a predicate as a parameter are beyond the
installed provers. `InductionUpTo` is one for a *set* of numbers instead, proved from
the library's well-founded induction (`LeastNat`: a set of numbers has a least
one); the folds of `OutputLog` and `TaskRun` are recursive functions for this reason.
The lemma is in both modules that use it, which share nothing else.

Only model-checked is what depends on fairness: `SessionFreed`, `OrphansReported`,
`ConnectionServes`, `CallersLearn`, `RequestsSettle`, `CallsReturn`, `TaskRunEnds`,
`LinkRecovers`, `TransactionEnds`; and `PiClient`, whose run shows a
counterexample. `MCConnection` and `MCSubagentTasks` bound one module's steps further. TLC
checks the instances of `MC*` that join two modules (a process
and its output, a daemon and a run over stdio); the theorems are about each
module's own specification, and a step of the joint instance is a step of one of
them that leaves the other's variables alone.

## 5. Plan

1. `SubagentTasks`, `SessionClaims`, `McpConnection`, `RequestTable` and their
   proofs: done.
2. `Connection`, `RequestSlots`, `ProcessManager`, `OutputLog`, `KitManager`,
   `PiClient`, `PiDaemon`, `TaskRun`, `PortalLife`, `Upgrade`, `Installation`,
   `ToolRegistry`: done.
3. Proofs of the invariants, the action properties and the refinements that
   the runs check: done.
4. Proofs beyond what the runs list: the parts of `PiClient` that hold.
5. Sessions inside pi (idle unload against spawn, the event pump), composed with
   the part of `SubagentTasks` that opens sessions.

## 6. Not modelled

* The simple tools, OAuth and screenshots, configuration fields, exec policy,
  HTTP and WebSocket framing, rendering of events to text: sequential code in
  front of an OS or network call, or pure parsing.
* Provisioning of pi by npm (`auto_provision_pi`): file operations and one
  child without a concurrent partner inside Portal.
* The Linux upgrade, which renames the executable in place and restarts, and the
  download and check of release files.
* Windows job objects and code pages, the Windows transport of pi, launchd and
  scheduled tasks: the state is in the operating system.
* Durations: the models have no clock, so a limit is a step that may happen at
  any time; whether several limits add up to more than another (five seconds per
  session of `kill_all` against the ten of the whole shutdown) is outside them.
* The Heart side, except that its inbox keeps the first message for a task.

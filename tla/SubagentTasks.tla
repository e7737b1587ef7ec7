--------------------------- MODULE SubagentTasks ---------------------------
(***************************************************************************)
(* The life of a delegated task in SubagentManager                         *)
(* (portal/src/subagent/mod.rs) with its ledger (subagent/ledger.rs):      *)
(* spawn, run, finalize, cancel, shutdown, crash, restart, reconcile and   *)
(* the callback that wakes the being.                                      *)
(*                                                                         *)
(* A handler is cut at its awaits: each action is the code between two     *)
(* points where tokio may run somebody else.  A task is named by the spawn *)
(* call that creates it (task ids are fresh UUIDs, so a name is used once  *)
(* in all lives of Portal), and a SessionState object by the spawn that    *)
(* allocates it, so that two objects for one key can be told apart.        *)
(*                                                                         *)
(* Data is reduced to what the properties distinguish: Done, Failed,       *)
(* Timeout and BudgetExhausted are all "Result" (the pi run produced an    *)
(* outcome to report); text, usage, briefs and workdirs are left out.      *)
(***************************************************************************)
EXTENDS Naturals, FiniteSets

CONSTANTS
    Tasks,          \* spawn calls, and the tasks they create
    Keys,           \* session keys
    None,           \* no task, no session object
    MaxConcurrent,  \* [subagent].max_concurrent
    MaxFinished,    \* MAX_FINISHED_TASKS of the ledger
    MaxLives,       \* bound: Portal starts at most this often
    Connected,      \* --connect mode: a callback target is configured
    Events          \* the environment events this instance lets happen

ASSUME NoneAssumption == None \notin Tasks
ASSUME FiniteAssumption == IsFiniteSet(Tasks)
ASSUME BoundsAssumption ==
    /\ MaxConcurrent \in Nat
    /\ MaxFinished \in Nat
    /\ MaxLives \in Nat
    /\ Connected \in BOOLEAN
ASSUME EventsAssumption ==
    Events \subseteq {"drop", "cancel", "unload", "socketLoss", "lost", "shutdown",
                      "saveFails"}

VARIABLES
    \* --- one spawn call -------------------------------------------------
    spawn,      \* [Tasks -> how far the call got]
    key,        \* [Tasks -> session key asked for]
    obj,        \* [Tasks -> session object the call works with]
    spawning,   \* keys with a spawn in flight (SpawnGuard)
    permits,    \* free permits of the `running` semaphore
    \* --- sessions -------------------------------------------------------
    sessionOf,  \* [Keys -> session object in the `sessions` map]
    busy,       \* [session object -> busy_task]
    active,     \* [session object -> active_session_id.is_some()]
    \* --- tasks in memory ------------------------------------------------
    status,     \* [Tasks -> TaskInner.status, "none" when not tracked]
    cancelled,  \* [Tasks -> TaskState.cancelled]
    cb,         \* [Tasks -> TaskInner.callback]
    run,        \* [Tasks -> where run_task/finalize is]
    outcome,    \* [Tasks -> status computed by the run]
    \* --- ledger ---------------------------------------------------------
    ledger,     \* [Tasks -> row in memory]
    disk,       \* [Tasks -> row in ledger.json]
    saveFailed, \* the last save_lossy of this life swallowed an error
    born,       \* [Tasks -> position of the row in the append order]
    \* --- controllers ----------------------------------------------------
    asked,      \* [Tasks -> where the being's cancel call is]
    stopping,   \* shutting_down
    stop,       \* where shutdown() is
    stopTodo,   \* its snapshot of tasks still to mark
    rec,        \* where reconcile() is
    recTodo,    \* rows it closed and has still to report
    life,       \* which start of Portal this is
    \* --- the outside ----------------------------------------------------
    outbox,     \* deliveries in flight: <<task, what is reported>>
    inbox,      \* [Tasks -> what Heart's inbox holds for the task]
    posts,      \* history: [Tasks -> payloads handed to deliver_detached]
    early,      \* history: tasks recorded before this life's reconcile
    forgot      \* history: [Tasks -> crashes that lost a change of the row which
                \*          a failed save had kept from the file]

spawnVars   == <<spawn, key, obj, spawning>>
sessionVars == <<sessionOf, busy, active>>
taskVars    == <<status, cancelled, cb>>
runVars     == <<run, outcome>>
rowVars     == <<ledger, disk, saveFailed>>
ledgerVars  == <<rowVars, born>>
stopVars    == <<stopping, stop, stopTodo>>
recVars     == <<rec, recTodo>>
wakeVars    == <<outbox, posts>>
pastVars    == <<early, forgot>>
vars == <<spawnVars, permits, sessionVars, taskVars, runVars, ledgerVars,
          asked, stopVars, recVars, life, wakeVars, inbox, pastVars>>

-----------------------------------------------------------------------------
(* Types *)

SpawnStates == {"idle", "begun", "opening", "opened", "claimed", "registered",
                "recorded", "launched", "refused", "dropped", "gone"}
(* The spawn call holds its guard and its permit. *)
InFlightStates == {"begun", "opening", "opened", "claimed", "registered", "recorded"}
RunStates == {"none", "prompting", "recovering", "settled", "marked", "freed",
              "unreported", "sending", "over"}
(* The run holds its permit. *)
LiveRunStates == RunStates \ {"none", "over"}
Outcomes  == {"Result", "Interrupted", "Cancelled"}
RowStates == {"absent", "Running"} \cup Outcomes
CallbackStates == {"Pending", "Sent", "Suppressed"}
Rows  == [st : RowStates, cb : CallbackStates]
NoRow == [st |-> "absent", cb |-> "Pending"]
Reports == {"result", "interrupted"}

Typed ==
    /\ spawn \in [Tasks -> SpawnStates]
    /\ key \in [Tasks -> Keys \cup {None}]
    /\ obj \in [Tasks -> Tasks \cup {None}]
    /\ spawning \subseteq Keys
    /\ permits \in Nat
    /\ sessionOf \in [Keys -> Tasks \cup {None}]
    /\ busy \in [Tasks -> Tasks \cup {None}]
    /\ active \in [Tasks -> BOOLEAN]
    /\ status \in [Tasks -> {"none", "Running"} \cup Outcomes]
    /\ cancelled \in [Tasks -> BOOLEAN]
    /\ cb \in [Tasks -> CallbackStates]
    /\ run \in [Tasks -> RunStates]
    /\ outcome \in [Tasks -> Outcomes \cup {"none"}]
    /\ ledger \in [Tasks -> Rows]
    /\ disk \in [Tasks -> Rows]
    /\ saveFailed \in BOOLEAN
    /\ born \in [Tasks -> Nat]
    /\ asked \in [Tasks -> {"no", "checked", "flagged", "promised", "error"}]
    /\ stopping \in BOOLEAN
    /\ stop \in {"no", "snapshot", "marking", "stopped"}
    /\ stopTodo \subseteq Tasks
    /\ rec \in {"scan", "interrupt", "report", "done"}
    /\ recTodo \subseteq Tasks
    /\ life \in Nat
    /\ outbox \subseteq Tasks \X Reports
    /\ inbox \in [Tasks -> Reports \cup {"none"}]
    /\ posts \in [Tasks -> Nat]
    /\ early \subseteq Tasks
    /\ forgot \in [Tasks -> Nat]
    /\ \A t \in Tasks :
        /\ spawn[t] # "idle" => key[t] \in Keys
        /\ run[t] \notin {"none", "prompting", "recovering"} => outcome[t] \in Outcomes

(* The type invariant; the semaphore never holds more permits than it was  *)
(* created with (SubagentManager, `running`).                              *)
TypeOK == Typed /\ permits <= MaxConcurrent

-----------------------------------------------------------------------------
(* The ledger *)

IsOpenUntilReported(row) == row # NoRow /\ row.cb = "Pending"    \* mutant
IsOpen(row) == row.st = "Running"
OpenRows(l) == {t \in Tasks : IsOpen(l[t])}
FinishedRows(l) == {t \in Tasks : l[t].st \in Outcomes}

(* Keep the newest MaxFinished finished rows; open tasks always stay. *)
Prune(l) ==
    [t \in Tasks |->
        IF /\ t \in FinishedRows(l)
           /\ Cardinality({u \in FinishedRows(l) : born[u] > born[t]}) >= MaxFinished
        THEN NoRow ELSE l[t]]

(* Rows that prune has dropped are ignored by finish_task and              *)
(* set_callback_state.                                                     *)
FinishTaskKeepsStatus(l, t, st) == l                             \* mutant
FinishTask(l, t, st) ==
    IF l[t] = NoRow THEN l ELSE [l EXCEPT ![t].st = st]
SetCallbackState(l, t, c) ==
    IF l[t] = NoRow THEN l ELSE [l EXCEPT ![t].cb = c]
InterruptOpenTasks(l) ==
    [t \in Tasks |-> IF IsOpen(l[t]) THEN [l[t] EXCEPT !.st = "Interrupted"] ELSE l[t]]

(* Mutate under the ledger lock and save_lossy before releasing it: the    *)
(* file is replaced as a whole, or an error is logged and the handler goes *)
(* on with a ledger that only memory knows.                                *)
Save(l) ==
    /\ ledger' = l
    /\ \/ disk' = l /\ saveFailed' = FALSE
       \/ "saveFails" \in Events /\ disk' = disk /\ saveFailed' = TRUE

-----------------------------------------------------------------------------
Init ==
    /\ spawn = [t \in Tasks |-> "idle"]
    /\ key = [t \in Tasks |-> None]
    /\ obj = [t \in Tasks |-> None]
    /\ spawning = {}
    /\ permits = MaxConcurrent
    /\ sessionOf = [k \in Keys |-> None]
    /\ busy = [o \in Tasks |-> None]
    /\ active = [o \in Tasks |-> FALSE]
    /\ status = [t \in Tasks |-> "none"]
    /\ cancelled = [t \in Tasks |-> FALSE]
    /\ cb = [t \in Tasks |-> "Pending"]
    /\ run = [t \in Tasks |-> "none"]
    /\ outcome = [t \in Tasks |-> "none"]
    /\ ledger = [t \in Tasks |-> NoRow]
    /\ disk = [t \in Tasks |-> NoRow]
    /\ saveFailed = FALSE
    /\ born = [t \in Tasks |-> 0]
    /\ asked = [t \in Tasks |-> "no"]
    /\ stopping = FALSE
    /\ stop = "no"
    /\ stopTodo = {}
    /\ rec = "scan"
    /\ recTodo = {}
    /\ life = 1
    /\ outbox = {}
    /\ inbox = [t \in Tasks |-> "none"]
    /\ posts = [t \in Tasks |-> 0]
    /\ early = {}
    /\ forgot = [t \in Tasks |-> 0]

-----------------------------------------------------------------------------
(* spawn(): one call, cut at its awaits *)

(* Mutant: no spawn guard. *)
SpawnBeginUnguarded(t, k) ==
    /\ spawn[t] = "idle"
    /\ ~stopping
    /\ permits > 0
    /\ spawn' = [spawn EXCEPT ![t] = "begun"]
    /\ key' = [key EXCEPT ![t] = k]
    /\ spawning' = spawning \cup {k}
    /\ permits' = permits - 1
    /\ UNCHANGED <<obj, sessionVars, taskVars, runVars, ledgerVars, asked, stopVars,
                   recVars, life, wakeVars, inbox, pastVars>>

(* The synchronous prefix: shutting_down check, begin_spawn, permit. *)
SpawnBegin(t, k) ==
    /\ spawn[t] = "idle"
    /\ ~stopping
    /\ k \notin spawning
    /\ permits > 0
    /\ spawn' = [spawn EXCEPT ![t] = "begun"]
    /\ key' = [key EXCEPT ![t] = k]
    /\ spawning' = spawning \cup {k}
    /\ permits' = permits - 1
    /\ UNCHANGED <<obj, sessionVars, taskVars, runVars, ledgerVars, asked, stopVars,
                   recVars, life, wakeVars, inbox, pastVars>>

(* transport() (which refuses while stopping), then ensure_session's       *)
(* look-up: the tracked object, or a new one not yet in the map.           *)
SpawnLookup(t) ==
    LET o == IF sessionOf[key[t]] = None THEN t ELSE sessionOf[key[t]]
    IN  /\ spawn[t] = "begun"
        /\ ~stopping
        /\ obj' = [obj EXCEPT ![t] = o]
        /\ spawn' = [spawn EXCEPT ![t] = IF active[o] THEN "opened" ELSE "opening"]
        /\ UNCHANGED <<key, spawning, permits, sessionVars, taskVars, runVars, ledgerVars,
                       asked, stopVars, recVars, life, wakeVars, inbox, pastVars>>

(* create answered: active_session_id is set, then upsert_session changes  *)
(* the session's entry and saves the whole ledger.                         *)
Opens(t) == active' = [active EXCEPT ![obj[t]] = TRUE]

(* open_pi_session succeeds; a new object enters the map. *)
SpawnOpened(t) ==
    /\ spawn[t] = "opening"
    /\ spawn' = [spawn EXCEPT ![t] = "opened"]
    /\ Opens(t)
    /\ Save(ledger)
    /\ sessionOf' = IF obj[t] = t THEN [sessionOf EXCEPT ![key[t]] = t] ELSE sessionOf
    /\ UNCHANGED <<key, obj, spawning, permits, busy, taskVars, runVars, born, asked,
                   stopVars, recVars, life, wakeVars, inbox, pastVars>>

(* What dropping the SpawnGuard and the permit does. *)
ReleaseGuardOnly(t) == spawning' = spawning \ {key[t]} /\ UNCHANGED permits    \* mutant
ReleaseSpawn(t) ==
    /\ spawning' = spawning \ {key[t]}
    /\ permits' = permits + 1

(* transport(), the cwd check or create fails; or the provider check does, *)
(* after the session was opened and saved.                                 *)
SpawnFails(t) ==
    /\ spawn[t] \in {"begun", "opening"}
    /\ spawn' = [spawn EXCEPT ![t] = "refused"]
    /\ ReleaseSpawn(t)
    /\ \/ UNCHANGED <<active, rowVars>>
       \/ spawn[t] = "opening" /\ Opens(t) /\ Save(ledger)
    /\ UNCHANGED <<key, obj, sessionOf, busy, taskVars, runVars, born, asked,
                   stopVars, recVars, life, wakeVars, inbox, pastVars>>

(* Mutant: claims without looking at busy_task. *)
SpawnClaimUnchecked(t) ==
    /\ spawn[t] = "opened"
    /\ active[obj[t]]
    /\ busy' = [busy EXCEPT ![obj[t]] = t]
    /\ spawn' = [spawn EXCEPT ![t] = "claimed"]
    /\ UNCHANGED <<key, obj, spawning, permits, sessionOf, active, taskVars, runVars,
                   ledgerVars, asked, stopVars, recVars, life, wakeVars, inbox, pastVars>>

(* Busy check and claim under one hold of the session lock. *)
SpawnClaim(t) ==
    /\ spawn[t] = "opened"
    /\ busy[obj[t]] = None
    /\ active[obj[t]]
    /\ busy' = [busy EXCEPT ![obj[t]] = t]
    /\ spawn' = [spawn EXCEPT ![t] = "claimed"]
    /\ UNCHANGED <<key, obj, spawning, permits, sessionOf, active, taskVars, runVars,
                   ledgerVars, asked, stopVars, recVars, life, wakeVars, inbox, pastVars>>

(* The session is busy, or its pi session went away meanwhile. *)
SpawnRefused(t) ==
    /\ spawn[t] = "opened"
    /\ busy[obj[t]] # None \/ ~active[obj[t]]
    /\ spawn' = [spawn EXCEPT ![t] = "refused"]
    /\ ReleaseSpawn(t)
    /\ UNCHANGED <<key, obj, sessionVars, taskVars, runVars, ledgerVars, asked, stopVars,
                   recVars, life, wakeVars, inbox, pastVars>>

(* register_task: the task is now visible to cancel, status and shutdown. *)
SpawnRegister(t) ==
    /\ spawn[t] = "claimed"
    /\ spawn' = [spawn EXCEPT ![t] = "registered"]
    /\ status' = [status EXCEPT ![t] = "Running"]
    /\ UNCHANGED <<key, obj, spawning, permits, sessionVars, cancelled, cb, runVars,
                   ledgerVars, asked, stopVars, recVars, life, wakeVars, inbox, pastVars>>

(* start_task appends the open row. *)
SpawnRecord(t) ==
    /\ spawn[t] = "registered"
    /\ spawn' = [spawn EXCEPT ![t] = "recorded"]
    /\ Save([ledger EXCEPT ![t] = [st |-> "Running", cb |-> "Pending"]])
    /\ born' = [born EXCEPT ![t] = 1 + Cardinality({u \in Tasks : born[u] > 0})]
    /\ early' = IF rec \in {"scan", "interrupt"} THEN early \cup {t} ELSE early
    /\ UNCHANGED <<key, obj, spawning, permits, sessionVars, taskVars, runVars, asked,
                   stopVars, recVars, life, wakeVars, inbox, forgot>>

(* Mutant: launches before the row is written. *)
SpawnLaunchUnrecorded(t) ==
    /\ spawn[t] = "registered"
    /\ spawn' = [spawn EXCEPT ![t] = "launched"]
    /\ spawning' = spawning \ {key[t]}
    /\ run' = [run EXCEPT ![t] = "prompting"]
    /\ UNCHANGED <<key, obj, permits, sessionVars, taskVars, outcome, ledgerVars, asked,
                   stopVars, recVars, life, wakeVars, inbox, pastVars>>

(* tokio::spawn(run_task): the permit moves into the run, the guard drops, *)
(* the caller gets its receipt.                                            *)
SpawnLaunch(t) ==
    /\ spawn[t] = "recorded"
    /\ spawn' = [spawn EXCEPT ![t] = "launched"]
    /\ spawning' = spawning \ {key[t]}
    /\ run' = [run EXCEPT ![t] = "prompting"]
    /\ UNCHANGED <<key, obj, permits, sessionVars, taskVars, outcome, ledgerVars, asked,
                   stopVars, recVars, life, wakeVars, inbox, pastVars>>

(* The tool call's future is dropped at an await: the caller cancelled the *)
(* request or its connection ended (main.rs handle_connection).            *)
SpawnDropped(t) ==
    /\ "drop" \in Events
    /\ spawn[t] \in InFlightStates
    /\ spawn' = [spawn EXCEPT ![t] = "dropped"]
    /\ ReleaseSpawn(t)
    /\ \/ UNCHANGED <<active, rowVars>>
       \/ spawn[t] = "opening" /\ Opens(t) /\ (Save(ledger) \/ UNCHANGED rowVars)
    /\ UNCHANGED <<key, obj, sessionOf, busy, taskVars, runVars, born, asked, stopVars,
                   recVars, life, wakeVars, inbox, pastVars>>

-----------------------------------------------------------------------------
(* run_task *)

(* Mutant: finalize trusts what the run classified. *)
SettleAsClassified(t, o) ==
    /\ run' = [run EXCEPT ![t] = "settled"]
    /\ outcome' = [outcome EXCEPT ![t] = o]

(* What finalize will report: it reads `cancelled` once, on entry, and     *)
(* that overrides whatever the run classified.                             *)
Settle(t, o) ==
    /\ run' = [run EXCEPT ![t] = "settled"]
    /\ outcome' = [outcome EXCEPT ![t] = IF cancelled[t] THEN "Cancelled" ELSE o]

(* The prompt answers, fails or times out.  An error while shutting down   *)
(* is an interruption.                                                     *)
PromptSettles(t) ==
    /\ run[t] = "prompting"
    /\ \E o \in {"Result"} \cup (IF stopping THEN {"Interrupted"} ELSE {}) : Settle(t, o)
    /\ UNCHANGED <<spawnVars, permits, sessionVars, taskVars, ledgerVars, asked, stopVars,
                   recVars, life, wakeVars, inbox, pastVars>>

(* The pi socket died and nobody asked for it: recover_after_socket_loss. *)
SocketLost(t) ==
    /\ "socketLoss" \in Events
    /\ run[t] = "prompting"
    /\ ~cancelled[t]
    /\ ~stopping
    /\ run' = [run EXCEPT ![t] = "recovering"]
    /\ UNCHANGED <<spawnVars, permits, sessionVars, taskVars, outcome, ledgerVars, asked,
                   stopVars, recVars, life, wakeVars, inbox, pastVars>>

(* Re-attached and idle, or the reconnect window, a cancel or a shutdown   *)
(* ended the attempts.                                                     *)
RecoveryEnds(t) ==
    /\ run[t] = "recovering"
    /\ \E o \in {"Result", "Interrupted"} : Settle(t, o)
    /\ UNCHANGED <<spawnVars, permits, sessionVars, taskVars, ledgerVars, asked, stopVars,
                   recVars, life, wakeVars, inbox, pastVars>>

(* finalize, first lock: the task's own record. *)
FinishStatus(t) ==
    /\ run[t] = "settled"
    /\ run' = [run EXCEPT ![t] = "marked"]
    /\ status' = [status EXCEPT ![t] = outcome[t]]
    /\ cb' = [cb EXCEPT ![t] = IF outcome[t] = "Cancelled" THEN "Suppressed" ELSE "Pending"]
    /\ UNCHANGED <<spawnVars, permits, sessionVars, cancelled, outcome, ledgerVars, asked,
                   stopVars, recVars, life, wakeVars, inbox, pastVars>>

(* Mutant: an interrupted task keeps its session. *)
FreeSessionUnlessInterrupted(t) ==
    /\ run[t] = "marked"
    /\ run' = [run EXCEPT ![t] = "freed"]
    /\ busy' = [busy EXCEPT ![obj[t]] = IF @ = t /\ outcome[t] # "Interrupted" THEN None ELSE @]
    /\ UNCHANGED <<spawnVars, permits, sessionOf, active, taskVars, outcome, ledgerVars,
                   asked, stopVars, recVars, life, wakeVars, inbox, pastVars>>

(* Second lock: the session is free, if it is still this task's. *)
FreeSession(t) ==
    /\ run[t] = "marked"
    /\ run' = [run EXCEPT ![t] = "freed"]
    /\ busy' = [busy EXCEPT ![obj[t]] = IF @ = t THEN None ELSE @]
    /\ UNCHANGED <<spawnVars, permits, sessionOf, active, taskVars, outcome, ledgerVars,
                   asked, stopVars, recVars, life, wakeVars, inbox, pastVars>>

(* Mutant: the row of a task that is reported stays open. *)
FinishLedgerOfQuiet(t) ==
    LET quiet == outcome[t] = "Cancelled"
        ends == quiet \/ ~Connected
    IN  /\ run[t] = "freed"
        /\ Save(IF ends THEN Prune(FinishTask(ledger, t, outcome[t])) ELSE ledger)
        /\ run' = [run EXCEPT ![t] = IF ends THEN "over" ELSE "unreported"]
        /\ permits' = IF ends THEN permits + 1 ELSE permits
        /\ UNCHANGED <<spawnVars, sessionVars, taskVars, outcome, born, asked, stopVars,
                       recVars, life, wakeVars, inbox, pastVars>>

(* Mutant: a cancelled task goes on to the report. *)
FinishLedgerTells(t) ==
    LET quiet == outcome[t] = "Cancelled"
        l == FinishTask(ledger, t, outcome[t])
    IN  /\ run[t] = "freed"
        /\ Save(Prune(IF quiet THEN SetCallbackState(l, t, "Suppressed") ELSE l))
        /\ run' = [run EXCEPT ![t] = IF Connected THEN "unreported" ELSE "over"]
        /\ permits' = IF Connected THEN permits ELSE permits + 1
        /\ UNCHANGED <<spawnVars, sessionVars, taskVars, outcome, born, asked, stopVars,
                       recVars, life, wakeVars, inbox, pastVars>>

(* Third lock: close the row; a cancelled task stays silent and ends here, *)
(* and so does every task of a Portal without a callback target.           *)
FinishLedger(t) ==
    LET quiet == outcome[t] = "Cancelled"
        l == FinishTask(ledger, t, outcome[t])
        ends == quiet \/ ~Connected
    IN  /\ run[t] = "freed"
        /\ Save(Prune(IF quiet THEN SetCallbackState(l, t, "Suppressed") ELSE l))
        /\ run' = [run EXCEPT ![t] = IF ends THEN "over" ELSE "unreported"]
        /\ permits' = IF ends THEN permits + 1 ELSE permits
        /\ UNCHANGED <<spawnVars, sessionVars, taskVars, outcome, born, asked, stopVars,
                       recVars, life, wakeVars, inbox, pastVars>>

(* The row says Sent before anything is sent. *)
MarkSent(t) ==
    /\ run[t] = "unreported"
    /\ Save(SetCallbackState(ledger, t, "Sent"))
    /\ run' = [run EXCEPT ![t] = "sending"]
    /\ UNCHANGED <<spawnVars, permits, sessionVars, taskVars, outcome, born, asked,
                   stopVars, recVars, life, wakeVars, inbox, pastVars>>

(* Hand the payload of a report to HeartCallback.deliver_detached. *)
DeliverDetached(t, report) ==
    /\ outbox' = outbox \cup {<<t, report>>}
    /\ posts' = [posts EXCEPT ![t] = @ + 1]

SendResult(t) ==
    /\ run[t] = "sending"
    /\ cb' = [cb EXCEPT ![t] = "Sent"]
    /\ DeliverDetached(t, "result")
    /\ run' = [run EXCEPT ![t] = "over"]
    /\ permits' = permits + 1
    /\ UNCHANGED <<spawnVars, sessionVars, status, cancelled, outcome, ledgerVars, asked,
                   stopVars, recVars, life, inbox, pastVars>>

(* cleanup: a finished task leaves the map after TASK_RETENTION. *)
ForgetTask(t) ==
    /\ run[t] = "over"
    /\ status[t] \in Outcomes
    /\ status' = [status EXCEPT ![t] = "none"]
    /\ UNCHANGED <<spawnVars, permits, sessionVars, cancelled, cb, runVars, ledgerVars,
                   asked, stopVars, recVars, life, wakeVars, inbox, pastVars>>

-----------------------------------------------------------------------------
(* cancel() *)

CancelCheck(t) ==
    /\ "cancel" \in Events
    /\ asked[t] = "no"
    /\ status[t] = "Running"
    /\ asked' = [asked EXCEPT ![t] = "checked"]
    /\ UNCHANGED <<spawnVars, permits, sessionVars, taskVars, runVars, ledgerVars, stopVars,
                   recVars, life, wakeVars, inbox, pastVars>>

CancelFlag(t) ==
    /\ asked[t] = "checked"
    /\ asked' = [asked EXCEPT ![t] = "flagged"]
    /\ cancelled' = [cancelled EXCEPT ![t] = TRUE]
    /\ UNCHANGED <<spawnVars, permits, sessionVars, status, cb, runVars, ledgerVars,
                   stopVars, recVars, life, wakeVars, inbox, pastVars>>

(* Abort, a bounded wait, and the note that no callback will arrive; or an *)
(* error when the session is no longer loaded in the daemon.               *)
CancelAnswer(t) ==
    /\ asked[t] = "flagged"
    /\ asked' = [asked EXCEPT ![t] = IF active[obj[t]] THEN "promised" ELSE "error"]
    /\ UNCHANGED <<spawnVars, permits, sessionVars, taskVars, runVars, ledgerVars, stopVars,
                   recVars, life, wakeVars, inbox, pastVars>>

(* The daemon reports the session closed, or an idle unload or a credential *)
(* change forgets it.                                                      *)
SessionUnloaded(o) ==
    /\ "unload" \in Events
    /\ active[o]
    /\ active' = [active EXCEPT ![o] = FALSE]
    /\ UNCHANGED <<spawnVars, permits, sessionOf, busy, taskVars, runVars, ledgerVars, asked,
                   stopVars, recVars, life, wakeVars, inbox, pastVars>>

-----------------------------------------------------------------------------
(* shutdown() *)

StopBegin ==
    /\ "shutdown" \in Events
    /\ stop = "no"
    /\ stopping' = TRUE
    /\ stop' = "snapshot"
    /\ UNCHANGED <<spawnVars, permits, sessionVars, taskVars, runVars, ledgerVars, asked,
                   stopTodo, recVars, life, wakeVars, inbox, pastVars>>

StopSnapshot ==
    /\ stop = "snapshot"
    /\ stop' = "marking"
    /\ stopTodo' = {t \in Tasks : status[t] # "none"}
    /\ UNCHANGED <<spawnVars, permits, sessionVars, taskVars, runVars, ledgerVars, asked,
                   stopping, recVars, life, wakeVars, inbox, pastVars>>

StopMark(t) ==
    /\ stop = "marking"
    /\ t \in stopTodo
    /\ stopTodo' = stopTodo \ {t}
    /\ cancelled' = [cancelled EXCEPT ![t] = @ \/ status[t] = "Running"]
    /\ UNCHANGED <<spawnVars, permits, sessionVars, status, cb, runVars, ledgerVars, asked,
                   stopping, stop, recVars, life, wakeVars, inbox, pastVars>>

StopSave ==
    /\ stop = "marking"
    /\ stopTodo = {}
    /\ stop' = "stopped"
    /\ Save(Prune(ledger))
    /\ UNCHANGED <<spawnVars, permits, sessionVars, taskVars, runVars, born, asked, stopping,
                   stopTodo, recVars, life, wakeVars, inbox, pastVars>>

-----------------------------------------------------------------------------
(* Portal goes away and comes back: a crash at any point, or the exit that *)
(* follows shutdown() or its 10 s limit.  Memory and deliveries in flight  *)
(* are lost, the ledger file is loaded again.                              *)
Restart ==
    /\ life < MaxLives
    /\ life' = life + 1
    /\ spawn' = [t \in Tasks |-> IF spawn[t] = "idle" THEN "idle" ELSE "gone"]
    /\ obj' = [t \in Tasks |-> None]
    /\ spawning' = {}
    /\ permits' = MaxConcurrent
    /\ sessionOf' = [k \in Keys |-> None]
    /\ busy' = [o \in Tasks |-> None]
    /\ active' = [o \in Tasks |-> FALSE]
    /\ status' = [t \in Tasks |-> "none"]
    /\ cancelled' = [t \in Tasks |-> FALSE]
    /\ cb' = [t \in Tasks |-> "Pending"]
    /\ run' = [t \in Tasks |-> "none"]
    /\ outcome' = [t \in Tasks |-> "none"]
    /\ ledger' = disk
    /\ saveFailed' = FALSE
    /\ forgot' = [t \in Tasks |->
                    IF saveFailed /\ ledger[t] # disk[t] THEN forgot[t] + 1 ELSE forgot[t]]
    /\ asked' = [t \in Tasks |-> IF asked[t] \in {"checked", "flagged"} THEN "error" ELSE asked[t]]
    /\ stopping' = FALSE
    /\ stop' = "no"
    /\ stopTodo' = {}
    /\ rec' = "scan"
    /\ recTodo' = {}
    /\ outbox' = {}
    /\ UNCHANGED <<key, disk, born, inbox, posts, early>>

(* reconcile(), spawned beside the relay client at start-up *)

ReconcileScan ==
    /\ rec = "scan"
    /\ rec' = IF OpenRows(ledger) = {} THEN "done" ELSE "interrupt"
    /\ UNCHANGED <<spawnVars, permits, sessionVars, taskVars, runVars, ledgerVars, asked,
                   stopVars, recTodo, life, wakeVars, inbox, pastVars>>

(* Mutant: collects the open rows after closing them. *)
ReconcileCollectsLate ==
    /\ rec = "interrupt"
    /\ Save(Prune(InterruptOpenTasks(ledger)))
    /\ recTodo' = IF Connected THEN OpenRows(InterruptOpenTasks(ledger)) ELSE {}
    /\ rec' = IF Connected THEN "report" ELSE "done"
    /\ UNCHANGED <<spawnVars, permits, sessionVars, taskVars, runVars, born, asked, stopVars,
                   life, wakeVars, inbox, pastVars>>

ReconcileInterrupt ==
    /\ rec = "interrupt"
    /\ Save(Prune(InterruptOpenTasks(ledger)))
    /\ recTodo' = IF Connected THEN OpenRows(ledger) ELSE {}
    /\ rec' = IF Connected THEN "report" ELSE "done"
    /\ UNCHANGED <<spawnVars, permits, sessionVars, taskVars, runVars, born, asked, stopVars,
                   life, wakeVars, inbox, pastVars>>

(* One record, in ledger order. *)
ReconcileReport(t) ==
    /\ rec = "report"
    /\ t \in recTodo
    /\ \A u \in recTodo : born[t] <= born[u]
    /\ Save(SetCallbackState(ledger, t, "Sent"))
    /\ DeliverDetached(t, "interrupted")
    /\ recTodo' = recTodo \ {t}
    /\ UNCHANGED <<spawnVars, permits, sessionVars, taskVars, runVars, born, asked, stopVars,
                   rec, life, inbox, pastVars>>

ReconcileDone ==
    /\ rec = "report"
    /\ recTodo = {}
    /\ rec' = "done"
    /\ UNCHANGED <<spawnVars, permits, sessionVars, taskVars, runVars, ledgerVars, asked,
                   stopVars, recTodo, life, wakeVars, inbox, pastVars>>

-----------------------------------------------------------------------------
(* The detached POST reaches Heart, whose inbox keeps the first message of *)
(* a task id; or its attempts run out.                                     *)
Delivered(t, report) ==
    /\ <<t, report>> \in outbox
    /\ outbox' = outbox \ {<<t, report>>}
    /\ inbox' = [inbox EXCEPT ![t] = IF @ = "none" THEN report ELSE @]
    /\ UNCHANGED <<spawnVars, permits, sessionVars, taskVars, runVars, ledgerVars, asked,
                   stopVars, recVars, life, posts, pastVars>>

DeliveryLost(t, report) ==
    /\ "lost" \in Events
    /\ <<t, report>> \in outbox
    /\ outbox' = outbox \ {<<t, report>>}
    /\ UNCHANGED <<spawnVars, permits, sessionVars, taskVars, runVars, ledgerVars, asked,
                   stopVars, recVars, life, posts, inbox, pastVars>>

-----------------------------------------------------------------------------
SpawnStep(t) ==
    \/ SpawnLookup(t) \/ SpawnOpened(t) \/ SpawnFails(t) \/ SpawnClaim(t)
    \/ SpawnRefused(t) \/ SpawnRegister(t) \/ SpawnRecord(t) \/ SpawnLaunch(t)
RunStep(t) ==
    \/ PromptSettles(t) \/ RecoveryEnds(t) \/ FinishStatus(t) \/ FreeSession(t)
    \/ FinishLedger(t) \/ MarkSent(t) \/ SendResult(t)
CancelStep(t) == CancelFlag(t) \/ CancelAnswer(t)
StopStep == StopSnapshot \/ StopSave \/ \E t \in Tasks : StopMark(t)
ReconcileStep ==
    \/ ReconcileScan \/ ReconcileInterrupt \/ ReconcileDone
    \/ \E t \in Tasks : ReconcileReport(t)

Next ==
    \/ \E t \in Tasks :
        \/ \E k \in Keys : SpawnBegin(t, k)
        \/ SpawnStep(t)
        \/ SpawnDropped(t)
        \/ RunStep(t)
        \/ SocketLost(t)
        \/ ForgetTask(t)
        \/ CancelCheck(t)
        \/ CancelStep(t)
        \/ SessionUnloaded(t)
        \/ \E report \in Reports : Delivered(t, report) \/ DeliveryLost(t, report)
    \/ StopBegin
    \/ StopStep
    \/ ReconcileStep
    \/ Restart

Spec == Init /\ [][Next]_vars

(* Every tokio task that can run is polled again, every await of a run has *)
(* a time limit.  Nobody is obliged to spawn, cancel, stop or crash.       *)
Fairness ==
    /\ \A t \in Tasks :
        /\ WF_vars(SpawnStep(t))
        /\ WF_vars(RunStep(t))
        /\ WF_vars(CancelStep(t))
        /\ WF_vars(\E report \in Reports : Delivered(t, report))
    /\ WF_vars(StopStep)
    /\ WF_vars(ReconcileStep)

FairSpec == Spec /\ Fairness

-----------------------------------------------------------------------------
(* Properties that hold *)

(* The task has its session: from the claim of busy_task to its release.   *)
Holds(t) ==
    \/ spawn[t] \in {"claimed", "registered", "recorded"}
    \/ run[t] \in {"prompting", "recovering", "settled", "marked"}

(* Two tasks never work in one session key at the same time, whatever      *)
(* spawns, refusals, unloads and dropped callers interleave: the spawning  *)
(* guard of begin_spawn and the busy_task claim of spawn() together.       *)
OneTaskPerSession ==
    \A t, u \in Tasks : Holds(t) /\ Holds(u) /\ key[t] = key[u] => t = u

(* Every permit of the `running` semaphore is free, held by one spawn call *)
(* or held by one run: no exit path of spawn() or run_task leaks one, and  *)
(* none is given back twice.                                               *)
InFlightSpawns == {t \in Tasks : spawn[t] \in InFlightStates}
LiveRuns == {t \in Tasks : run[t] \in LiveRunStates}
PermitsExact ==
    permits + Cardinality(InFlightSpawns) + Cardinality(LiveRuns) = MaxConcurrent

(* While pi may be working on a task its row is open, in memory and - if   *)
(* the last save did not fail - on disk, so a crash leaves something to    *)
(* reconcile (ledger.rs start_task).  The exception is a row that this     *)
(* life's reconcile took for an orphan.                                    *)
EvidenceBeforePrompt ==
    \A t \in Tasks \ early :
        run[t] \in {"prompting", "recovering", "settled", "marked", "freed"} =>
            IsOpen(ledger[t]) /\ (IsOpen(disk[t]) \/ saveFailed)

(* Across crashes and restarts at most one payload is handed to delivery   *)
(* for a task, and one more for each crash that lost a change of its row   *)
(* which a failed save had kept from the file: finalize closes the row     *)
(* before it reports, and reconcile reports only rows it has closed.  The  *)
(* exception is a row recorded before this life's reconcile ran.           *)
WakeAtMostOnce == \A t \in Tasks \ early : posts[t] <= 1 + forgot[t]

(* Nothing is handed to delivery for a task whose row is still open, or    *)
(* says the callback was suppressed - in memory, and on disk unless the    *)
(* last save failed.                                                       *)
WakeOnlyWhenClosed ==
    \A t \in Tasks \ early :
        posts[t] > forgot[t] =>
            /\ ~IsOpen(ledger[t]) /\ ledger[t].cb # "Suppressed"
            /\ ~saveFailed => ~IsOpen(disk[t]) /\ disk[t].cb # "Suppressed"

(* A row on disk only moves forward: absent, open, closed, pruned; a       *)
(* closed row keeps its status (unless reconcile closed it by mistake),    *)
(* and a callback state other than Pending is final.                       *)
RowMovesForward(t) ==
    /\ disk[t].st \in Outcomes =>
        \/ disk'[t] = NoRow
        \/ disk'[t].st = disk[t].st
        \/ t \in early /\ disk'[t].st \in Outcomes
    /\ disk[t].cb # "Pending" /\ t \notin early =>
        disk'[t].cb = disk[t].cb \/ disk'[t] = NoRow
RowsMoveForward == [][\A t \in Tasks : RowMovesForward(t)]_vars

(* A cancel that sets the flag while the run is still going: no result of  *)
(* that task ever reaches the inbox, whatever crashes and failed saves     *)
(* follow.  An "interrupted" may (CancelPromiseKept below).                *)
NoResultAfterCancel ==
    \A t \in Tasks :
        [](cancelled[t] /\ run[t] \in {"prompting", "recovering"}
            => [](inbox[t] # "result"))

(* From the save that closes its row as Cancelled on, nothing at all is    *)
(* handed to delivery for a task, in this life or a later one.             *)
CancelledIsSilent ==
    \A t \in Tasks :
        [](disk[t].st = "Cancelled" /\ t \notin early => [](posts[t] = 0))

(* What a cancel is good for, through all lives of Portal (mod.rs          *)
(* finalize): no result once the run has to see the flag, no word at all   *)
(* once the file has it.                                                   *)
CancelHolds == NoResultAfterCancel /\ CancelledIsSilent

(* Every launched task eventually gives its session back (or Portal goes   *)
(* down): the run ends, and finalize frees busy_task.                      *)
SessionFreed ==
    \A t \in Tasks : spawn[t] = "launched" ~> \A o \in Tasks : busy[o] # t

(* Once Portal stays up, every row it finds open at start is handed to     *)
(* delivery in this life, while new spawns are served, rows are pruned and *)
(* saves fail.                                                             *)
OrphansReported ==
    \A t \in Tasks :
        life = MaxLives /\ spawn[t] = "gone" /\ IsOpen(ledger[t])
            ~> <<t, "interrupted">> \in outbox

-----------------------------------------------------------------------------
(* What the code's comments say, and its interleavings break *)

(* mod.rs cancel(): "Cancelled deliberately, so no callback will arrive    *)
(* for this task."                                                         *)
CancelPromiseKept ==
    \A t \in Tasks \ early : asked[t] = "promised" => inbox[t] = "none"

(* mod.rs reconcile(): it closes tasks "that were running before this      *)
(* Portal started".                                                        *)
OnlyOrphansInterrupted ==
    \A t \in Tasks : run[t] = "prompting" => disk[t].st # "Interrupted"

(* mod.rs spawn(): "session is busy with task ...; wait for it to finish". *)
BusySessionsFinish ==
    \A o, t \in Tasks : busy[o] = t ~> busy[o] # t

-----------------------------------------------------------------------------
(* The `sessions` map with its busy_task fields implements one lock per    *)
(* session key.                                                            *)
Claims == INSTANCE SessionClaims WITH
    holder <- [k \in Keys |-> IF sessionOf[k] = None THEN None ELSE busy[sessionOf[k]]]

ImplementsClaims == Claims!Spec
=============================================================================

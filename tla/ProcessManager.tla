---------------------------- MODULE ProcessManager ----------------------------
(***************************************************************************)
(* Background shell sessions: ProcessManager                               *)
(* (portal/src/process_manager.rs) with the child process, the two output  *)
(* readers and the exit watcher of each session.                           *)
(*                                                                         *)
(* Threads run in parallel, so an action ends where another thread may     *)
(* come between: at an await, and where a lock is given back before a      *)
(* signal is sent.  The `sessions` lock is a variable because write_stdin  *)
(* keeps it across its write; every other holder gives it back within its  *)
(* own step.  Output is one chunk per stream: the properties ask only      *)
(* whether all of it is there.                                             *)
(***************************************************************************)
EXTENDS Naturals, FiniteSets

CONSTANTS
    Sessions,       \* spawn calls and the sessions they create
    None,           \* nobody
    MaxSessions,    \* max_sessions
    Connected,      \* a callback target is configured
    Deaf,           \* sessions whose child does not read its standard input
    Talks,          \* bound: streams on which children write
    Uses            \* bound: what this instance does besides spawning

ASSUME NoneAssumption == None \notin Sessions
ASSUME LimitsAssumption == IsFiniteSet(Sessions) /\ MaxSessions \in Nat
ASSUME DeafAssumption == Deaf \subseteq Sessions
ASSUME TalksAssumption == Talks \subseteq {"stdout", "stderr"}
ASSUME UsesAssumption ==
    /\ Connected \in BOOLEAN
    /\ Uses \subseteq {"poll", "write", "kill", "shutdown", "cleanup", "drop", "heirs"}

VARIABLES
    \* --- the operating system's side ------------------------------------
    proc,       \* [Sessions -> life of the child process]
    heirs,      \* sessions whose pipes are held by descendants as well
    unread,     \* [Sessions -> streams with a chunk in the pipe]
    strays,     \* history: sessions whose PID was signalled after its reaping
    \* --- a session ------------------------------------------------------
    lock,       \* who keeps the `sessions` lock across an await
    spawn,      \* [Sessions -> how far the spawn call got]
    entry,      \* sessions in the map
    status,     \* [Sessions -> ProcessStatus]
    code,       \* [Sessions -> exit code of the watcher]
    exitedAt,   \* sessions with exited_at set
    killed,     \* sessions with the killed flag set
    output,     \* [Sessions -> streams whose chunk is in the OutputBuffer]
    eof,        \* [Sessions -> streams whose reader has ended]
    watcher,    \* [Sessions -> where the exit watcher is]
    late,       \* sessions whose output drain timed out
    wake,       \* sessions whose exit was handed to delivery
    ended,      \* history: sessions killed before their exit was published
    swept,      \* history: sessions not yet exited when kill_all began
    \* --- calls ----------------------------------------------------------
    kill,       \* [Sessions -> where its kill() call is]
    write,      \* [Sessions -> where write_stdin() is]
    poll,       \* [Sessions -> where poll() is]
    sweep,      \* where kill_all() is
    sweepTodo   \* its sessions still to kill

osVars      == <<proc, heirs, unread, strays>>
sessionVars == <<entry, status, code, exitedAt, killed>>
outputVars  == <<output, eof>>
watchVars   == <<watcher, late, wake>>
quietVars   == <<ended, swept>>
sweepVars   == <<sweep, sweepTodo>>
vars == <<osVars, lock, spawn, sessionVars, outputVars, watchVars, kill, write, poll, sweepVars,
          quietVars>>

Streams == {"stdout", "stderr"}
KillStates == {"idle", "asked", "checked", "grace", "overdue", "returned", "dropped"}
PollStates == {"idle", "looking", "between", "waiting", "expired", "returned"}
Running(s) == status[s] = "Running"

(* The type invariant; a published exit has its code, and only a reaped    *)
(* child has one.                                                          *)
TypeOK ==
    /\ proc \in [Sessions -> {"none", "alive", "dead", "reaped"}]
    /\ heirs \subseteq Sessions
    /\ unread \in [Sessions -> SUBSET Streams]
    /\ strays \subseteq Sessions
    /\ lock \in Sessions \cup {None}
    /\ spawn \in [Sessions -> {"idle", "started", "registered", "refused", "dropped"}]
    /\ entry \subseteq Sessions
    /\ status \in [Sessions -> {"Running", "Exited"}]
    /\ code \in [Sessions -> {"none", "own", "killed"}]
    /\ exitedAt \subseteq Sessions
    /\ killed \subseteq Sessions
    /\ output \in [Sessions -> SUBSET Streams]
    /\ eof \in [Sessions -> SUBSET Streams]
    /\ watcher \in [Sessions -> {"none", "waiting", "reaped", "marked", "published", "over"}]
    /\ late \subseteq Sessions
    /\ wake \cup ended \cup swept \subseteq Sessions
    /\ kill \in [Sessions -> KillStates]
    /\ write \in [Sessions -> {"idle", "writing", "returned"}]
    /\ poll \in [Sessions -> PollStates]
    /\ sweep \in Sessions \cup {"no", "killing"}
    /\ sweepTodo \subseteq Sessions
    /\ \A s \in Sessions :
        /\ code[s] # "none" => proc[s] = "reaped"
        /\ status[s] = "Exited" => code[s] # "none"

Init ==
    /\ proc = [s \in Sessions |-> "none"]
    /\ heirs = {}
    /\ unread = [s \in Sessions |-> {}]
    /\ strays = {}
    /\ lock = None
    /\ spawn = [s \in Sessions |-> "idle"]
    /\ entry = {}
    /\ status = [s \in Sessions |-> "Running"]
    /\ code = [s \in Sessions |-> "none"]
    /\ exitedAt = {}
    /\ killed = {}
    /\ output = [s \in Sessions |-> {}]
    /\ eof = [s \in Sessions |-> {}]
    /\ watcher = [s \in Sessions |-> "none"]
    /\ late = {}
    /\ wake = {}
    /\ ended = {}
    /\ swept = {}
    /\ kill = [s \in Sessions |-> "idle"]
    /\ write = [s \in Sessions |-> "idle"]
    /\ poll = [s \in Sessions |-> "idle"]
    /\ sweep = "no"
    /\ sweepTodo = {}

(* Notify::notify_waiters wakes those that wait now and nobody else. *)
NotifyWaiters(s) == poll' = [poll EXCEPT ![s] = IF @ = "waiting" THEN "looking" ELSE @]

-----------------------------------------------------------------------------
(* spawn_with_shell() *)

(* Count the running sessions, start the child and its readers. *)
SpawnStart(s) ==
    LET running == {o \in entry : Running(o)}
    IN  /\ spawn[s] = "idle"
        /\ lock = None
        /\ IF Cardinality(running) < MaxSessions
           THEN /\ spawn' = [spawn EXCEPT ![s] = "started"]
                /\ proc' = [proc EXCEPT ![s] = "alive"]
           ELSE /\ spawn' = [spawn EXCEPT ![s] = "refused"]
                /\ UNCHANGED proc
        /\ UNCHANGED <<heirs, unread, strays, lock, sessionVars, outputVars, watchVars,
                       kill, write, poll, sweepVars, quietVars>>

(* Insert into the map, then start the exit watcher. *)
SpawnRegister(s) ==
    /\ spawn[s] = "started"
    /\ lock = None
    /\ spawn' = [spawn EXCEPT ![s] = "registered"]
    /\ entry' = entry \cup {s}
    /\ watcher' = [watcher EXCEPT ![s] = "waiting"]
    /\ UNCHANGED <<osVars, lock, status, code, exitedAt, killed, outputVars, late, wake,
                   kill, write, poll, sweepVars, quietVars>>

(* The caller goes away while the call waits for the lock: kill_on_drop.   *)
SpawnDropped(s) ==
    /\ "drop" \in Uses
    /\ spawn[s] = "started"
    /\ spawn' = [spawn EXCEPT ![s] = "dropped"]
    /\ proc' = [proc EXCEPT ![s] = "reaped"]
    /\ UNCHANGED <<heirs, unread, strays, lock, sessionVars, outputVars, watchVars, kill,
                   write, poll, sweepVars, quietVars>>

-----------------------------------------------------------------------------
(* The child and its readers *)

ChildWrites(s, st) ==
    /\ st \in Talks
    /\ proc[s] = "alive" \/ s \in heirs
    /\ st \notin unread[s] \cup output[s]
    /\ unread' = [unread EXCEPT ![s] = @ \cup {st}]
    /\ UNCHANGED <<proc, heirs, strays, lock, spawn, sessionVars, outputVars, watchVars,
                   kill, write, poll, sweepVars, quietVars>>

(* The child ends, by itself or by a signal, which only its own PID gets;  *)
(* descendants may keep its pipes, standard input included.                *)
Ends(s) ==
    /\ proc[s] = "alive"
    /\ proc' = [proc EXCEPT ![s] = "dead"]
    /\ \/ UNCHANGED heirs
       \/ "heirs" \in Uses /\ heirs' = heirs \cup {s}

ChildExits(s) ==
    /\ Ends(s)
    /\ UNCHANGED <<unread, strays, lock, spawn, sessionVars, outputVars, watchVars, kill,
                   write, poll, sweepVars, quietVars>>

HeirsExit(s) ==
    /\ s \in heirs
    /\ heirs' = heirs \ {s}
    /\ UNCHANGED <<proc, unread, strays, lock, spawn, sessionVars, outputVars, watchVars,
                   kill, write, poll, sweepVars, quietVars>>

(* read_into_buffer: one chunk, or the end of the stream. *)
ReaderReads(s, st) ==
    /\ st \in unread[s]
    /\ unread' = [unread EXCEPT ![s] = @ \ {st}]
    /\ output' = [output EXCEPT ![s] = @ \cup {st}]
    /\ NotifyWaiters(s)
    /\ UNCHANGED <<proc, heirs, strays, lock, spawn, sessionVars, eof, watchVars, kill,
                   write, sweepVars, quietVars>>

ReaderEnds(s, st) ==
    /\ proc[s] \in {"dead", "reaped"}
    /\ s \notin heirs
    /\ st \notin unread[s] \cup eof[s]
    /\ eof' = [eof EXCEPT ![s] = @ \cup {st}]
    /\ NotifyWaiters(s)
    /\ UNCHANGED <<osVars, lock, spawn, sessionVars, output, watchVars, kill, write,
                   sweepVars, quietVars>>

-----------------------------------------------------------------------------
(* The exit watcher *)

(* child.wait() returns and reaps; the flag decides the code. *)
WatchReap(s) ==
    /\ watcher[s] = "waiting"
    /\ proc[s] = "dead"
    /\ proc' = [proc EXCEPT ![s] = "reaped"]
    /\ code' = [code EXCEPT ![s] = IF s \in killed THEN "killed" ELSE "own"]
    /\ watcher' = [watcher EXCEPT ![s] = "reaped"]
    /\ UNCHANGED <<heirs, unread, strays, lock, spawn, entry, status, exitedAt, killed,
                   outputVars, late, wake, kill, write, poll, sweepVars, quietVars>>

WatchMark(s) ==
    /\ watcher[s] = "reaped"
    /\ lock = None
    /\ exitedAt' = IF s \in entry THEN exitedAt \cup {s} ELSE exitedAt
    /\ watcher' = [watcher EXCEPT ![s] = "marked"]
    /\ UNCHANGED <<osVars, lock, spawn, entry, status, code, killed, outputVars, late, wake,
                   kill, write, poll, sweepVars, quietVars>>

Publish(s) ==
    /\ status' = [status EXCEPT ![s] = "Exited"]
    /\ watcher' = [watcher EXCEPT ![s] = "published"]
    /\ NotifyWaiters(s)
    /\ UNCHANGED <<osVars, lock, spawn, entry, code, exitedAt, killed, outputVars, wake,
                   kill, write, sweepVars, quietVars>>

(* Mutant: waits for stdout only. *)
WatchPublishStdout(s) ==
    /\ watcher[s] = "marked"
    /\ late' = IF "stdout" \in eof[s] THEN late ELSE late \cup {s}
    /\ Publish(s)

(* Both readers have ended, or OUTPUT_DRAIN_TIMEOUT is over. *)
WatchPublish(s) ==
    /\ watcher[s] = "marked"
    /\ late' = IF eof[s] = Streams THEN late ELSE late \cup {s}
    /\ Publish(s)

WatchOver(s) ==
    /\ watcher' = [watcher EXCEPT ![s] = "over"]
    /\ UNCHANGED <<osVars, lock, spawn, sessionVars, outputVars, late, kill, write, poll,
                   sweepVars, quietVars>>

(* Mutant: the flag as it was when the child was reaped. *)
WatchWakeByCode(s) ==
    /\ watcher[s] = "published"
    /\ wake' = IF code[s] # "killed" /\ Connected THEN wake \cup {s} ELSE wake
    /\ WatchOver(s)

(* kill and shutdown are deliberate: the flag is read once more. *)
WatchWake(s) ==
    /\ watcher[s] = "published"
    /\ wake' = IF s \notin killed /\ Connected THEN wake \cup {s} ELSE wake
    /\ WatchOver(s)

-----------------------------------------------------------------------------
(* kill(), called by the being or by kill_all(); bound: one call per       *)
(* session at a time, and one by the being.                                *)

KillAsk(s) ==
    /\ "kill" \in Uses
    /\ spawn[s] = "registered"
    /\ kill[s] = "idle"
    /\ kill' = [kill EXCEPT ![s] = "asked"]
    /\ UNCHANGED <<osVars, lock, spawn, sessionVars, outputVars, watchVars, write, poll,
                   sweepVars, quietVars>>

(* Under the lock: raise the flag; an exited session needs no signal, an   *)
(* unknown one is an error.                                                *)
KillCheck(s) ==
    /\ kill[s] = "asked"
    /\ lock = None
    /\ killed' = IF s \in entry THEN killed \cup {s} ELSE killed
    /\ ended' = IF s \in entry /\ Running(s) THEN ended \cup {s} ELSE ended
    /\ kill' = [kill EXCEPT ![s] =
            IF s \in entry /\ s \notin exitedAt /\ Running(s) THEN "checked" ELSE "returned"]
    /\ UNCHANGED <<osVars, lock, spawn, entry, status, code, exitedAt, outputVars,
                   watchVars, write, poll, sweepVars, swept>>

(* A signal to a PID whose child was reaped hits whoever has it now. *)
Signal(s, deadly) ==
    /\ strays' = IF proc[s] = "reaped" THEN strays \cup {s} ELSE strays
    /\ \/ (~deadly \/ proc[s] # "alive") /\ UNCHANGED <<proc, heirs>>
       \/ Ends(s)

(* SIGTERM, which the child may ignore. *)
KillTerminate(s) ==
    /\ kill[s] = "checked"
    /\ Signal(s, FALSE)
    /\ kill' = [kill EXCEPT ![s] = "grace"]
    /\ UNCHANGED <<unread, lock, spawn, sessionVars, outputVars, watchVars, write, poll,
                   sweepVars, quietVars>>

(* Mutant: a child that got SIGTERM is taken for dead. *)
KillRecheckTrusts(s) ==
    /\ kill[s] = "grace"
    /\ lock = None
    /\ kill' = [kill EXCEPT ![s] = "returned"]
    /\ UNCHANGED <<osVars, lock, spawn, sessionVars, outputVars, watchVars, write, poll,
                   sweepVars, quietVars>>

(* KILL_GRACE later, under the lock again. *)
KillRecheck(s) ==
    /\ kill[s] = "grace"
    /\ lock = None
    /\ kill' = [kill EXCEPT ![s] =
            IF s \in entry /\ s \notin exitedAt /\ Running(s) THEN "overdue" ELSE "returned"]
    /\ UNCHANGED <<osVars, lock, spawn, sessionVars, outputVars, watchVars, write, poll,
                   sweepVars, quietVars>>

(* SIGKILL. *)
KillForce(s) ==
    /\ kill[s] = "overdue"
    /\ Signal(s, TRUE)
    /\ kill' = [kill EXCEPT ![s] = "returned"]
    /\ UNCHANGED <<unread, lock, spawn, sessionVars, outputVars, watchVars, write, poll,
                   sweepVars, quietVars>>

(* The caller cancels its kill request at an await. *)
KillDropped(s) ==
    /\ "drop" \in Uses
    /\ kill[s] \in {"asked", "grace"}
    /\ sweep # s
    /\ kill' = [kill EXCEPT ![s] = "dropped"]
    /\ UNCHANGED <<osVars, lock, spawn, sessionVars, outputVars, watchVars, write, poll,
                   sweepVars, quietVars>>

-----------------------------------------------------------------------------
(* kill_all(), at shutdown *)

(* Flag every session first, because the kills come one after another. *)
SweepMark ==
    /\ "shutdown" \in Uses
    /\ sweep = "no"
    /\ lock = None
    /\ sweep' = "killing"
    /\ sweepTodo' = entry
    /\ killed' = killed \cup entry
    /\ swept' = {s \in entry : Running(s)}
    /\ UNCHANGED <<osVars, lock, spawn, entry, status, code, exitedAt, outputVars,
                   watchVars, kill, write, poll, ended>>

SweepKill(s) ==
    /\ sweep = "killing"
    /\ s \in sweepTodo
    /\ kill[s] \in {"idle", "returned", "dropped"}
    /\ sweep' = s
    /\ kill' = [kill EXCEPT ![s] = "asked"]
    /\ UNCHANGED <<osVars, lock, spawn, sessionVars, outputVars, watchVars, write, poll,
                   sweepTodo, quietVars>>

SweepNext(s) ==
    /\ sweep = s
    /\ kill[s] = "returned"
    /\ sweep' = "killing"
    /\ sweepTodo' = sweepTodo \ {s}
    /\ UNCHANGED <<osVars, lock, spawn, sessionVars, outputVars, watchVars, kill, write,
                   poll, quietVars>>

-----------------------------------------------------------------------------
(* write_stdin(): the lock is kept until the child has taken the data *)

WriteBegin(s) ==
    /\ "write" \in Uses
    /\ write[s] = "idle"
    /\ s \in entry
    /\ lock = None
    /\ IF s \in exitedAt \/ ~Running(s)
       THEN write' = [write EXCEPT ![s] = "returned"] /\ UNCHANGED lock
       ELSE write' = [write EXCEPT ![s] = "writing"] /\ lock' = s
    /\ UNCHANGED <<osVars, spawn, sessionVars, outputVars, watchVars, kill, poll, sweepVars,
                   quietVars>>

(* The data is in the pipe, or the pipe is broken; or the caller cancels.  *)
WriteEnds(s) ==
    /\ write[s] = "writing"
    /\ write' = [write EXCEPT ![s] = "returned"]
    /\ lock' = None
    /\ UNCHANGED <<osVars, spawn, sessionVars, outputVars, watchVars, kill, poll, sweepVars,
                   quietVars>>

(* Nobody need ever take the data: whoever holds the read end of standard  *)
(* input does not read it, a deaf child or, once the child is gone, its    *)
(* descendants.                                                            *)
Stuck(s) ==
    /\ write[s] = "writing"
    /\ IF proc[s] = "alive" THEN s \in Deaf ELSE s \in heirs

-----------------------------------------------------------------------------
(* poll(), from offset 0 and with a timeout *)

PollMoves(s, to) ==
    /\ poll' = [poll EXCEPT ![s] = to]
    /\ UNCHANGED <<osVars, lock, spawn, sessionVars, outputVars, watchVars, kill, write,
                   sweepVars, quietVars>>

PollBegin(s) ==
    /\ "poll" \in Uses
    /\ poll[s] = "idle"
    /\ spawn[s] = "registered"
    /\ PollMoves(s, "looking")

(* Mutant: loops once more when the deadline is over. *)
PollLookAgain(s) ==
    /\ poll[s] \in {"looking", "expired"}
    /\ lock = None
    /\ PollMoves(s,
            IF output[s] # {} \/ ~Running(s) \/ s \notin entry THEN "returned" ELSE "between")

(* Output, an exit, a forgotten session or the deadline ends the call. *)
PollLook(s) ==
    /\ poll[s] \in {"looking", "expired"}
    /\ lock = None
    /\ PollMoves(s,
            IF output[s] # {} \/ ~Running(s) \/ s \notin entry \/ poll[s] = "expired"
            THEN "returned" ELSE "between")

(* notified() registers only now: what was notified since the look is lost. *)
PollWait(s) ==
    /\ poll[s] = "between"
    /\ PollMoves(s, "waiting")

PollDeadline(s) ==
    /\ poll[s] = "waiting"
    /\ PollMoves(s, "expired")

-----------------------------------------------------------------------------
(* cleanup(): forget a session EXIT_RETENTION after its exit.  It looks    *)
(* and removes under two holds of the lock; nothing it looked at reverts.  *)
Cleanup(s) ==
    /\ "cleanup" \in Uses
    /\ lock = None
    /\ s \in entry \cap exitedAt
    /\ ~Running(s)
    /\ entry' = entry \ {s}
    /\ UNCHANGED <<osVars, lock, spawn, status, code, exitedAt, killed, outputVars,
                   watchVars, kill, write, poll, sweepVars, quietVars>>

-----------------------------------------------------------------------------
WatchStep(s) == WatchReap(s) \/ WatchMark(s) \/ WatchPublish(s) \/ WatchWake(s)
KillStep(s) == KillCheck(s) \/ KillTerminate(s) \/ KillRecheck(s) \/ KillForce(s)
ReaderStep(s) == \E st \in Streams : ReaderReads(s, st) \/ ReaderEnds(s, st)
PollStep(s) == PollLook(s) \/ PollWait(s) \/ PollDeadline(s)
SweepStep == \E s \in Sessions : SweepKill(s) \/ SweepNext(s)

Next ==
    \/ \E s \in Sessions :
        \/ SpawnStart(s) \/ SpawnRegister(s) \/ SpawnDropped(s)
        \/ \E st \in Streams : ChildWrites(s, st)
        \/ ChildExits(s) \/ HeirsExit(s)
        \/ ReaderStep(s)
        \/ WatchStep(s)
        \/ KillAsk(s) \/ KillDropped(s)
        \/ KillStep(s)
        \/ WriteBegin(s) \/ WriteEnds(s)
        \/ PollBegin(s) \/ PollStep(s)
        \/ Cleanup(s)
    \/ SweepMark
    \/ SweepStep

Spec == Init /\ [][Next]_vars

(* tokio polls every task that can run and its mutex is first come, first  *)
(* served; every wait but those for the child and for a full pipe has a    *)
(* limit.  No child has to exit, read, write or let go of its pipes.       *)
Fairness ==
    /\ \A s \in Sessions :
        /\ WF_vars(SpawnRegister(s))
        /\ WF_vars(ReaderStep(s))
        /\ WF_vars(WatchStep(s))
        /\ WF_vars(KillStep(s))
        /\ WF_vars(WriteEnds(s) /\ ~Stuck(s))
        /\ WF_vars(PollStep(s))
    /\ WF_vars(SweepStep)

FairSpec == Spec /\ Fairness

-----------------------------------------------------------------------------
(* Properties that hold *)

(* When poll and log report an exit, all output of the session is in its   *)
(* buffer and no more will come: the watcher publishes after both readers  *)
(* have ended.  The exception is a drain that ran into its limit.          *)
ExitIsLast ==
    \A s \in Sessions : status[s] = "Exited" /\ s \notin late =>
        unread[s] = {} /\ eof[s] = Streams

(* A kill that sets its flag before the exit is published silences the     *)
(* session for good, also when the child had ended by itself and only its  *)
(* output was still being drained.                                         *)
KillSilences == ended \cap wake = {}

(* No session that runs when kill_all begins wakes the being, however long *)
(* the kills before its own take and whoever ends it first.                *)
ShutdownSilences == swept \cap wake = {}

(* Nobody is woken for what was ended on purpose, by a kill or by the      *)
(* shutdown, wherever the exit watcher stands at that moment.              *)
Silences == KillSilences /\ ShutdownSilences

(* kill() returns only when the child is dead, also when it ignores        *)
(* SIGTERM or the session is cleaned up during the grace.                  *)
KillMeansDead ==
    \A s \in Sessions : kill[s] = "returned" => proc[s] # "alive"

(* Every exit is published in the end, also when descendants hold the      *)
(* output pipes for ever (OUTPUT_DRAIN_TIMEOUT).                           *)
ExitPublished ==
    \A s \in Sessions : watcher[s] = "waiting" /\ proc[s] = "dead" ~> status[s] = "Exited"

(* Every poll returns, also when the notification it should get comes      *)
(* between its look and its wait and is lost.                              *)
PollReturns == \A s \in Sessions : poll[s] = "looking" ~> poll[s] = "returned"

(* Whoever waits for a session learns of its end, or of the time, unless a *)
(* write_stdin keeps the lock for ever on a pipe nobody empties            *)
(* (process_manager.rs write_stdin; KillReturns below).                    *)
CallersLearn ==
    []<>(\A s \in Sessions : ~Stuck(s)) => ExitPublished /\ PollReturns

-----------------------------------------------------------------------------
(* What comments and tool descriptions say, and the code breaks *)

(* kill(): "Never signal that PID again: it may already have been reused." *)
NoStraySignal == strays = {}

(* portal_process: "'kill' ends a session deliberately": a kill ends.      *)
KillReturns ==
    \A s \in Sessions : kill[s] = "asked" ~> kill[s] = "returned"
=============================================================================

------------------------------ MODULE PortalLife ------------------------------
(***************************************************************************)
(* The life of a Portal process: main() of portal/src/main.rs from the     *)
(* single-instance guard to the cleanup, with the relay loop of            *)
(* relay_client.rs (sessions, heartbeat, back-off) as its service, or the  *)
(* TCP listener of the standalone mode.  Several launches of the same      *)
(* configuration may overlap: by hand, by the supervisor, after a restart. *)
(*                                                                         *)
(* Each process is an actor; the relay, the network and the being are the  *)
(* environment.  Sub-agents, processes and Kits are "work", kept apart by  *)
(* who started them: the warm-up, a call, or a sub-agent run, which spawn()*)
(* detaches and which neither the end of its session nor the end of the    *)
(* serving loop stops.  kill_all_managed_processes ends what is alive.     *)
(***************************************************************************)
EXTENDS Naturals, FiniteSets

CONSTANTS
    Launches,      \* processes that may be started, each once
    Guarded,       \* the platform has an instance lock: Windows, macOS
    Relayed,       \* a Loom link is configured: connect mode
    SilenceLimit,  \* heartbeat intervals in HEARTBEAT_TIMEOUT_SECS
    MaxSession,    \* the numbers of the sessions go 1, ..., MaxSession, 1, ...
    Nobody

ASSUME ModeAssumption == Guarded \in BOOLEAN /\ Relayed \in BOOLEAN
ASSUME SilenceAssumption == SilenceLimit \in Nat \ {0} /\ MaxSession \in Nat \ {0}
ASSUME NobodyAssumption == Nobody \notin Launches

BackoffMin == 2
BackoffMax == 30

VARIABLES
    phase,     \* [Launches -> where main() is]
    owner,     \* the process that holds the lock of this identity
    ready,     \* the process whose readiness was published last
    warming,   \* [Launches -> the warm-up tasks still run]
    work,      \* [Launches -> who started the children that are alive]
    runs,      \* [Launches -> the detached runs of sub-agent tasks: one asks for pi]
    \* --- connect_and_serve and run_one_session -------------------------------
    link,      \* [Launches -> state of the relay session]
    session,   \* [Launches -> number of the session]
    silent,    \* [Launches -> heartbeats since the last frame of the relay]
    old,       \* [Launches -> the session outlived HEALTHY_SESSION_SECS]
    backoff,   \* [Launches -> seconds]
    shown,     \* [Launches -> ConnectionState]
    calls,     \* [Launches -> sessions with a call under way]
    \* --- the environment --------------------------------------------------------
    relay,     \* "up", "silent" (frames vanish), "down" or "rejects"
    late       \* an answer has gone out in another session than its call's

relayVars == <<link, session, silent, old, backoff, shown, calls>>
lifeVars == <<phase, owner, ready, warming, work, runs, relayVars, relay, late>>

Phases == {"unborn", "guard", "start", "serve", "warmup down", "cleanup", "exited"}
Links  == {"off", "dialing", "up", "sleep"}
States == {"starting", "connecting", "connected", "retrying", "listening"}
Starters == {"warmup", "call", "task"}
Runs == {"none", "running", "asking"}

LifeTypeOK ==
    /\ phase \in [Launches -> Phases]
    /\ owner \in Launches \cup {Nobody}
    /\ ready \in Launches \cup {Nobody}
    /\ warming \in [Launches -> BOOLEAN]
    /\ work \in [Launches -> SUBSET Starters]
    /\ runs \in [Launches -> Runs]
    /\ link \in [Launches -> Links]
    /\ session \in [Launches -> 0..MaxSession]
    /\ silent \in [Launches -> 0..SilenceLimit + 1]
    /\ old \in [Launches -> BOOLEAN]
    /\ backoff \in [Launches -> {2, 4, 8, 16, 30}]
    /\ shown \in [Launches -> States]
    /\ calls \in [Launches -> SUBSET (0..MaxSession)]
    /\ relay \in {"up", "silent", "down", "rejects"}
    /\ late \in BOOLEAN

LifeInit ==
    /\ phase = [p \in Launches |-> "unborn"]
    /\ owner = Nobody
    /\ ready = Nobody
    /\ warming = [p \in Launches |-> FALSE]
    /\ work = [p \in Launches |-> {}]
    /\ runs = [p \in Launches |-> "none"]
    /\ link = [p \in Launches |-> "off"]
    /\ session = [p \in Launches |-> 0]
    /\ silent = [p \in Launches |-> 0]
    /\ old = [p \in Launches |-> FALSE]
    /\ backoff = [p \in Launches |-> BackoffMin]
    /\ shown = [p \in Launches |-> "starting"]
    /\ calls = [p \in Launches |-> {}]
    /\ relay \in {"up", "down"}
    /\ late = FALSE

Enters(p, to) == phase' = [phase EXCEPT ![p] = to]

(* Kernel locks and the tasks of the runtime go with the process; children *)
(* that outlive it are no longer this process's work.                      *)
Leaves(p) ==
    /\ Enters(p, "exited")
    /\ owner' = IF owner = p THEN Nobody ELSE owner
    /\ warming' = [warming EXCEPT ![p] = FALSE]
    /\ work' = [work EXCEPT ![p] = {}]
    /\ runs' = [runs EXCEPT ![p] = "none"]

(* The select drops connect_and_serve: with it go the socket, the bridges  *)
(* and the connection handler with its calls, and the loop's own state.    *)
(* Tasks of their own survive it: the runs of sub-agents.                  *)
LoopDropped(p) ==
    /\ link' = [link EXCEPT ![p] = "off"]
    /\ session' = [session EXCEPT ![p] = 0]
    /\ silent' = [silent EXCEPT ![p] = 0]
    /\ old' = [old EXCEPT ![p] = FALSE]
    /\ backoff' = [backoff EXCEPT ![p] = BackoffMin]
    /\ calls' = [calls EXCEPT ![p] = {}]

-----------------------------------------------------------------------------
(* main(): start-up *)

LaunchPortal(p) ==
    /\ phase[p] = "unborn"
    /\ Enters(p, "guard")
    /\ UNCHANGED <<owner, ready, warming, work, runs, relayVars, relay, late>>

(* single_instance::acquire: never waits. *)
Acquire(p) ==
    /\ phase[p] = "guard"
    /\ IF Guarded /\ owner # Nobody
       THEN Leaves(p)
       ELSE /\ owner' = IF Guarded THEN p ELSE owner
            /\ Enters(p, "start")
            /\ UNCHANGED <<warming, work, runs>>

AcquireInstance(p) ==
    /\ Acquire(p)
    /\ UNCHANGED <<ready, relayVars, relay, late>>

(* Bad configuration, workspace or bind: the process ends, whatever the    *)
(* warm-up may have started by then.                                       *)
StartFails(p) ==
    /\ phase[p] = "start"
    /\ Leaves(p)
    /\ UNCHANGED <<ready, relayVars, relay, late>>

(* ToolHost, warm-up tasks, then readiness, then the service. *)
StartServing(p) ==
    /\ phase[p] = "start"
    /\ ready' = p
    /\ warming' = [warming EXCEPT ![p] = TRUE]
    /\ Enters(p, "serve")
    /\ IF Relayed
       THEN /\ link' = [link EXCEPT ![p] = "dialing"]
            /\ shown' = [shown EXCEPT ![p] = "connecting"]
       ELSE /\ shown' = [shown EXCEPT ![p] = "listening"]
            /\ UNCHANGED link
    /\ UNCHANGED <<owner, work, runs, session, silent, old, backoff, calls, relay, late>>

(* Eager Kits, custom tools and the pi daemon: started in the background. *)
Warmup(p) ==
    /\ warming[p]
    /\ \E goesOn \in BOOLEAN : warming' = [warming EXCEPT ![p] = goesOn]
    /\ work' = [work EXCEPT ![p] = @ \cup {"warmup"}]
    /\ UNCHANGED <<phase, owner, ready, runs, relayVars, relay, late>>

-----------------------------------------------------------------------------
(* connect_and_serve(), run_one_session() *)

(* TCP, TLS and handshake succeed within their time limits. *)
SessionUp(p) ==
    /\ link[p] = "dialing"
    /\ relay = "up"
    /\ link' = [link EXCEPT ![p] = "up"]
    /\ session' = [session EXCEPT ![p] = (@ % MaxSession) + 1]
    /\ silent' = [silent EXCEPT ![p] = 0]
    /\ shown' = [shown EXCEPT ![p] = "connected"]
    /\ UNCHANGED <<phase, owner, ready, warming, work, runs, old, backoff, calls, relay, late>>

(* Back to the loop: a healthy or cleanly ended session resets the wait,   *)
(* a short failed one leaves it where the last sleep put it.               *)
EndsDetached(p, clean) ==                                        \* mutant
    /\ link' = [link EXCEPT ![p] = "sleep"]
    /\ UNCHANGED calls
    /\ backoff' = [backoff EXCEPT ![p] = IF clean \/ old[p] THEN BackoffMin ELSE @]
    /\ old' = [old EXCEPT ![p] = FALSE]
    /\ silent' = [silent EXCEPT ![p] = 0]
    /\ shown' = [shown EXCEPT ![p] = "retrying"]
SessionEnds(p, clean) ==
    /\ link' = [link EXCEPT ![p] = "sleep"]
    /\ calls' = [calls EXCEPT ![p] = {}]
    /\ backoff' = [backoff EXCEPT ![p] = IF clean \/ old[p] THEN BackoffMin ELSE @]
    /\ old' = [old EXCEPT ![p] = FALSE]
    /\ silent' = [silent EXCEPT ![p] = 0]
    /\ shown' = [shown EXCEPT ![p] = "retrying"]

DialFails(p) ==
    /\ link[p] = "dialing"
    /\ relay # "up"
    /\ SessionEnds(p, FALSE)
    /\ UNCHANGED <<phase, owner, ready, warming, work, runs, session, relay, late>>

(* The handler ends with Ok or Err, or a bridge ends. *)
SessionCloses(p, clean) ==
    /\ link[p] = "up"
    /\ relay # "silent"
    /\ SessionEnds(p, clean)
    /\ UNCHANGED <<phase, owner, ready, warming, work, runs, session, relay, late>>

(* A tick of the heartbeat: it gives up after too much silence, or writes. *)
HeartbeatNeverGivesUp(p) == FALSE                                \* mutant
HeartbeatGivesUp(p) ==
    /\ link[p] = "up"
    /\ silent[p] > SilenceLimit
    /\ SessionEnds(p, FALSE)
    /\ UNCHANGED <<phase, owner, ready, warming, work, runs, session, relay, late>>

HeartbeatWrites(p) ==
    /\ link[p] = "up"
    /\ silent[p] <= SilenceLimit
    /\ silent' = [silent EXCEPT ![p] = IF relay = "up" THEN 0 ELSE @ + 1]
    /\ UNCHANGED <<phase, owner, ready, warming, work, runs, link, session, old, backoff,
                   shown, calls, relay, late>>

(* The writer is stuck behind a full socket: the tick's own limit ends it. *)
HeartbeatStuck(p) ==
    /\ link[p] = "up"
    /\ relay = "silent"
    /\ SessionEnds(p, FALSE)
    /\ UNCHANGED <<phase, owner, ready, warming, work, runs, session, relay, late>>

SessionGrowsOld(p) ==
    /\ link[p] = "up"
    /\ ~old[p]
    /\ old' = [old EXCEPT ![p] = TRUE]
    /\ UNCHANGED <<phase, owner, ready, warming, work, runs, link, session, silent, backoff,
                   shown, calls, relay, late>>

(* next_backoff is applied after the sleep. *)
NextBackoff(b) == IF 2 * b > BackoffMax THEN BackoffMax ELSE 2 * b

Redial(p) ==
    /\ link[p] = "sleep"
    /\ backoff' = [backoff EXCEPT ![p] = NextBackoff(@)]
    /\ link' = [link EXCEPT ![p] = "dialing"]
    /\ shown' = [shown EXCEPT ![p] = "connecting"]
    /\ UNCHANGED <<phase, owner, ready, warming, work, runs, session, silent, old, calls, relay, late>>

-----------------------------------------------------------------------------
(* Calls: through the session, or a connection task of the listener. *)

Serving(p) ==
    IF Relayed THEN link[p] = "up" ELSE phase[p] \in {"serve", "warmup down", "cleanup"}

(* shutting_down: kill_all_managed_processes sets it before it awaits.     *)
ShuttingDown(p) == phase[p] = "cleanup"

(* A call may start a process itself, or be a spawn that found no shutdown *)
(* under way and hands its task to a run of its own.                       *)
CallStarts(p) ==
    /\ Serving(p)
    /\ relay = "up"
    /\ calls' = [calls EXCEPT ![p] = @ \cup {session[p]}]
    /\ work' = [work EXCEPT ![p] = @ \cup {"call"}]
    /\ \/ UNCHANGED runs
       \/ ~ShuttingDown(p) /\ runs' = [runs EXCEPT ![p] = "asking"]
    /\ UNCHANGED <<phase, owner, ready, warming, link, session, silent, old, backoff, shown, relay, late>>

CallAnswers(p, s) ==
    /\ Serving(p)
    /\ s \in calls[p]
    /\ calls' = [calls EXCEPT ![p] = @ \ {s}]
    /\ late' = (late \/ s # session[p])
    /\ UNCHANGED <<phase, owner, ready, warming, work, runs, link, session, silent, old, backoff, shown, relay>>

-----------------------------------------------------------------------------
(* The detached runs of sub-agent tasks.                                   *)

(* recover_after_socket_loss: transport() looks at shutting_down ...       *)
RunAsks(p) ==
    /\ runs[p] = "running"
    /\ ~ShuttingDown(p)
    /\ runs' = [runs EXCEPT ![p] = "asking"]
    /\ UNCHANGED <<phase, owner, ready, warming, work, relayVars, relay, late>>

(* ... and awaits ensure_transport, which starts a pi when it gets the     *)
(* lock; a run over stdio starts its own pi as late.  Or it finds one.     *)
RunStarts(p) ==
    /\ runs[p] = "asking"
    /\ \E others \in {"running", "asking"} : runs' = [runs EXCEPT ![p] = others]
    /\ \E more \in {{}, {"task"}} : work' = [work EXCEPT ![p] = @ \cup more]
    /\ UNCHANGED <<phase, owner, ready, warming, relayVars, relay, late>>

RunEnds(p) ==
    /\ runs[p] # "none"
    /\ \E others \in {"none", "running"} : runs' = [runs EXCEPT ![p] = others]
    /\ UNCHANGED <<phase, owner, ready, warming, work, relayVars, relay, late>>

-----------------------------------------------------------------------------
(* Ctrl+C, termination signal or a controlled restart.  In connect mode    *)
(* the select drops the session first; in standalone mode the loop stops   *)
(* accepting, connections already open go on.                              *)
StopRequested(p) ==
    /\ phase[p] = "serve"
    /\ Enters(p, "warmup down")
    /\ IF Relayed
       THEN LoopDropped(p)
       ELSE UNCHANGED <<link, session, silent, old, backoff, calls>>
    /\ UNCHANGED <<owner, ready, warming, work, runs, shown, relay, late>>

(* warmup.shutdown() aborts the tasks and waits for them. *)
WarmupForgotten(p) ==                                            \* mutant
    /\ phase[p] = "warmup down"
    /\ Enters(p, "cleanup")
    /\ UNCHANGED <<owner, ready, warming, work, runs, relayVars, relay, late>>
WarmupShutdown(p) ==
    /\ phase[p] = "warmup down"
    /\ warming' = [warming EXCEPT ![p] = FALSE]
    /\ Enters(p, "cleanup")
    /\ UNCHANGED <<owner, ready, work, runs, relayVars, relay, late>>

(* The four branches of kill_all_managed_processes end what they know of,  *)
(* each in its own time.                                                   *)
CleanupKills(p) ==
    /\ phase[p] = "cleanup"
    /\ \E w \in work[p] : work' = [work EXCEPT ![p] = @ \ {w}]
    /\ UNCHANGED <<phase, owner, ready, warming, runs, relayVars, relay, late>>

(* All branches end, or the ten seconds do. *)
CleanupDone(p) ==
    /\ phase[p] = "cleanup"
    /\ Leaves(p)
    /\ LoopDropped(p)
    /\ shown' = [shown EXCEPT ![p] = "starting"]
    /\ UNCHANGED <<ready, relay, late>>

(* Killed, or the machine goes down. *)
Crash(p) ==
    /\ phase[p] \notin {"unborn", "exited"}
    /\ Leaves(p)
    /\ LoopDropped(p)
    /\ shown' = [shown EXCEPT ![p] = "starting"]
    /\ UNCHANGED <<ready, relay, late>>

RelayTurns(to) ==
    /\ to # relay
    /\ relay' = to
    /\ UNCHANGED <<phase, owner, ready, warming, work, runs, relayVars, late>>

-----------------------------------------------------------------------------
LifeStep(p) ==
    \/ SessionUp(p) \/ DialFails(p) \/ HeartbeatGivesUp(p) \/ HeartbeatWrites(p) \/ Redial(p)

LifeNext ==
    \/ \E p \in Launches :
          \/ LaunchPortal(p) \/ AcquireInstance(p) \/ StartFails(p) \/ StartServing(p) \/ Warmup(p)
          \/ LifeStep(p) \/ SessionGrowsOld(p) \/ HeartbeatStuck(p)
          \/ \E clean \in BOOLEAN : SessionCloses(p, clean)
          \/ CallStarts(p) \/ \E s \in 0..MaxSession : CallAnswers(p, s)
          \/ RunAsks(p) \/ RunStarts(p) \/ RunEnds(p)
          \/ StopRequested(p) \/ WarmupShutdown(p) \/ CleanupKills(p) \/ CleanupDone(p) \/ Crash(p)
    \/ \E to \in {"up", "silent", "down", "rejects"} : RelayTurns(to)

LifeSpec == LifeInit /\ [][LifeNext]_lifeVars

(* The loop of connect_and_serve: every await in it has a time limit. *)
FairLife == LifeSpec /\ \A p \in Launches : WF_lifeVars(LifeStep(p))

-----------------------------------------------------------------------------
(* At most one Portal of a configuration is connected to the relay, where  *)
(* the platform has the lock: two would eject each other for ever.         *)
OnePortal ==
    Guarded => Cardinality({p \in Launches : link[p] # "off"}) <= 1

(* An answer goes out in the session its call came in, never to the being  *)
(* after a reconnect: a session owns its handler.                          *)
NoLateAnswer == ~late

(* So the being meets one Portal, and hears it only about what it asked in *)
(* the session that is up.                                                 *)
ServesAlone == LifeTypeOK /\ OnePortal /\ NoLateAnswer

(* Once the cleanup of managed processes has begun, the warm-up starts     *)
(* nothing more, it was stopped before, and in connect mode no call does.  *)
(* What may still start is a pi of a detached run, and only of one that    *)
(* had looked at shutting_down before the cleanup set it.                  *)
LateStarters == IF Relayed THEN {"task"} ELSE {"task", "call"}
CleansUp(p) ==
    phase[p] = "cleanup" =>
        /\ work'[p] \ work[p] \subseteq LateStarters
        /\ runs[p] # "asking" => runs'[p] # "asking" /\ "task" \notin work'[p] \ work[p]
CleanedStaysClean == [][\A p \in Launches : CleansUp(p)]_lifeVars

(* A link that went dead without a word is given up: the process does not  *)
(* stay "connected" to a relay that never speaks again.                    *)
SilenceNoticed ==
    \A p \in Launches :
        (link[p] = "up" /\ relay = "silent") ~> (link[p] # "up" \/ relay # "silent")

(* ... and while the relay stays reachable, a serving process is connected *)
(* to it again and again, however its sessions end.                        *)
Reconnects ==
    \A p \in Launches : (<>[](relay = "up" /\ link[p] # "off")) => []<>(link[p] = "up")

LinkRecovers == SilenceNoticed /\ Reconnects
=============================================================================

------------------------------- MODULE PiDaemon -------------------------------
(***************************************************************************)
(* The pi daemon Portal runs its sub-agent in (portal/src/subagent/        *)
(* pi_daemon.rs) and the manager's hold on it (subagent/mod.rs): finding,  *)
(* adopting, spawning and stopping daemons, the latch to the stdio         *)
(* transport, and the replacement of the PiDaemon object when credentials  *)
(* or the pi command change.                                               *)
(*                                                                         *)
(* Every call on an object takes its `state` mutex and keeps it over all   *)
(* its awaits.  A step ends at an await; between the steps processes bind, *)
(* exit and crash, the caller may be dropped, and other callers queue for  *)
(* the lock.  The Unix transport is modelled.                              *)
(***************************************************************************)
EXTENDS Naturals, FiniteSets

CONSTANTS
    Users,      \* callers of transport(): spawns, warm-up, controls
    Stoppers,   \* callers that stop or replace the daemon
    Objects,    \* PiDaemon objects, created in this order: 1, 2, ...
    Children,   \* processes Portal may spawn, in this order: 1, 2, ...
    Foreign,    \* a daemon an earlier Portal (or nobody we know) left behind
    None

ASSUME ObjectsAssumption ==
    IsFiniteSet(Objects) /\ Objects = 1..Cardinality(Objects) /\ Objects # {}
ASSUME ChildrenAssumption == Children = 1..Cardinality(Children)
ASSUME NamesAssumption ==
    /\ Foreign \notin Children /\ None \notin Children \cup {Foreign}
    /\ Users \cap Stoppers = {} /\ None \notin Users \cup Stoppers

Procs == Children \cup {Foreign}
Actors == Users \cup Stoppers

VARIABLES
    \* --- the DaemonState of each object -------------------------------------
    child,     \* [Objects -> the child handle]
    client,    \* [Objects -> the process the client is connected to]
    mode,      \* [Objects -> "daemon" or "stdio"]
    lock,      \* [Objects -> who holds `state`]
    \* --- the manager ------------------------------------------------------------
    slot,      \* the object in `daemon`
    shutting,  \* the shutting_down flag
    \* --- the callers ------------------------------------------------------------
    pc,        \* [Actors -> where the caller is]
    obj,       \* [Actors -> the object it works on]
    why,       \* [Stoppers -> what the stop is for]
    took,      \* [Stoppers -> the child shutdown() took out of the state]
    \* --- outside ----------------------------------------------------------------
    proc,      \* [Procs -> state of the process]
    told,      \* processes asked to exit: shutdown command or stdin EOF
    usable,    \* the foreign daemon speaks Portal's protocol version
    file,      \* the socket file exists
    bound      \* the process listening on it

stateVars   == <<child, client, mode>>
managerVars == <<slot, shutting>>
callVars    == <<pc, obj, why, took>>
worldVars   == <<proc, told, usable, file, bound>>
vars == <<stateVars, lock, managerVars, callVars, worldVars>>

ProcStates == {"unborn", "starting", "listening", "dead"}
UserStates == {"idle", "mode", "lock", "probe", "replace", "ready", "failed"}
StopStates == {"idle", "lock", "request", "wait", "stopped", "done", "dropped"}
Reasons    == {"idle exit", "replace", "shutdown"}

TypeOK ==
    /\ child \in [Objects -> Children \cup {None}]
    /\ client \in [Objects -> Procs \cup {None}]
    /\ mode \in [Objects -> {"daemon", "stdio"}]
    /\ lock \in [Objects -> Actors \cup {None}]
    /\ slot \in Objects
    /\ shutting \in BOOLEAN
    /\ pc \in [Actors -> UserStates \cup StopStates]
    /\ obj \in [Actors -> Objects]
    /\ why \in [Stoppers -> Reasons]
    /\ took \in [Stoppers -> Children \cup {None}]
    /\ proc \in [Procs -> ProcStates]
    /\ told \subseteq Procs
    /\ usable \in BOOLEAN
    /\ file \in BOOLEAN
    /\ bound \in Procs \cup {None}

(* A daemon may be there already, or only the file of one that was killed. *)
Init ==
    /\ child = [d \in Objects |-> None]
    /\ client = [d \in Objects |-> None]
    /\ mode = [d \in Objects |-> "daemon"]
    /\ lock = [d \in Objects |-> None]
    /\ slot = 1
    /\ shutting = FALSE
    /\ pc = [a \in Actors |-> "idle"]
    /\ obj = [a \in Actors |-> 1]
    /\ why = [s \in Stoppers |-> "idle exit"]
    /\ took = [s \in Stoppers |-> None]
    /\ \E there \in BOOLEAN :
          /\ proc = [p \in Procs |->
                IF p # Foreign THEN "unborn" ELSE IF there THEN "listening" ELSE "dead"]
          /\ bound = IF there THEN Foreign ELSE None
          /\ file \in {there, TRUE}
          /\ usable \in {~there, TRUE}
    /\ told = {}

Goes(a, to) == pc' = [pc EXCEPT ![a] = to]
Takes(a, d) == lock[d] = None /\ lock' = [lock EXCEPT ![d] = a]
Frees(d) == lock' = [lock EXCEPT ![d] = None]

Connected(d) == client[d] # None /\ proc[client[d]] = "listening"
Speaks(p) == p = Foreign => usable

(* SIGKILL: the process is gone at once, its socket file is not. *)
Killed(P) ==
    /\ proc' = [p \in Procs |-> IF p \in P \ {None} THEN "dead" ELSE proc[p]]
    /\ bound' = IF bound \in P THEN None ELSE bound
    /\ told' = told \ P

-----------------------------------------------------------------------------
(* transport(), ensure_transport() *)

(* The manager's flag is looked at once, before anything is awaited. *)
TransportBegin(u) ==
    /\ pc[u] = "idle"
    /\ ~shutting
    /\ Goes(u, "mode")
    /\ obj' = [obj EXCEPT ![u] = slot]
    /\ UNCHANGED <<stateVars, lock, managerVars, why, took, worldVars>>

(* The call is over; where its caller stood is of no more interest. *)
Returns(u) == Goes(u, "idle") /\ obj' = [obj EXCEPT ![u] = 1]

(* transport_mode(): a lock of its own. *)
ReadMode(u) ==
    /\ pc[u] = "mode"
    /\ lock[obj[u]] = None
    /\ IF mode[obj[u]] = "stdio"
       THEN Returns(u)
       ELSE Goes(u, "lock") /\ UNCHANGED obj
    /\ UNCHANGED <<stateVars, lock, managerVars, why, took, worldVars>>

(* ensure_running(): a connected client is reused, a dead one dropped. *)
EnsureRunning(u) ==
    /\ pc[u] = "lock"
    /\ lock[obj[u]] = None
    /\ LET d == obj[u] IN
       \/ /\ mode[d] = "stdio"
          /\ Goes(u, "failed")
          /\ UNCHANGED <<client, lock, obj>>
       \/ /\ mode[d] = "daemon"
          /\ Connected(d)
          /\ Returns(u)
          /\ UNCHANGED <<client, lock>>
       \/ /\ mode[d] = "daemon"
          /\ ~Connected(d)
          /\ Takes(u, d)
          /\ client' = [client EXCEPT ![d] = None]
          /\ Goes(u, "probe")
          /\ UNCHANGED obj
    /\ UNCHANGED <<child, mode, managerVars, why, took, worldVars>>

(* The probe finds a daemon whose greeting carries the right version. *)
Adopt(u) ==
    /\ pc[u] = "probe"
    /\ bound # None
    /\ Speaks(bound)
    /\ LET d == obj[u] IN
          /\ client' = [client EXCEPT ![d] = bound]
          /\ Frees(d)
    /\ Returns(u)
    /\ UNCHANGED <<child, mode, managerVars, why, took, worldVars>>

(* Another version: it is told to go, and given REPLACE_TIMEOUT. *)
ProbeOtherVersion(u) ==
    /\ pc[u] = "probe"
    /\ bound # None
    /\ ~Speaks(bound)
    /\ told' = told \cup {bound}
    /\ Goes(u, "replace")
    /\ UNCHANGED <<stateVars, lock, managerVars, obj, why, took, proc, usable, file, bound>>

(* spawn_locked(): the previous child is killed as its handle is replaced. *)
SpawnsFresh(u, p) ==
    LET d == obj[u] IN
    /\ p \in Children
    /\ proc[p] = "unborn"
    /\ \A q \in Children : proc[q] = "unborn" => p <= q
    /\ proc' = [q \in Procs |->
                 IF q = p THEN "starting" ELSE IF q = child[d] THEN "dead" ELSE proc[q]]
    /\ bound' = IF bound = child[d] THEN None ELSE bound
    /\ told' = told \ {child[d]}
    /\ child' = [child EXCEPT ![d] = p]
    /\ Goes(u, "ready")
    /\ UNCHANGED <<client, mode, lock, managerVars, obj, why, took, usable, file>>

(* Nobody answers the probe in PROBE_CONNECT_TIMEOUT and HELLO_TIMEOUT. *)
ProbeFails(u, p) == pc[u] = "probe" /\ SpawnsFresh(u, p)

(* The old daemon has gone, or the wait is over. *)
ReplaceSpawns(u, p) == pc[u] = "replace" /\ SpawnsFresh(u, p)

(* The program cannot be started. *)
SpawnFails(u) ==
    /\ pc[u] \in {"probe", "replace"}
    /\ Frees(obj[u])
    /\ Goes(u, "failed")
    /\ UNCHANGED <<stateVars, managerVars, obj, why, took, worldVars>>

(* await_socket_ready(): somebody answers on the socket. *)
ReadyConnects(u) ==
    /\ pc[u] = "ready"
    /\ proc[child[obj[u]]] # "dead"
    /\ bound # None
    /\ Speaks(bound)
    /\ client' = [client EXCEPT ![obj[u]] = bound]
    /\ Frees(obj[u])
    /\ Returns(u)
    /\ UNCHANGED <<child, mode, managerVars, why, took, worldVars>>

(* A failed start kills the child and lets its handle and stdin go. *)
StartFails(u) ==
    LET d == obj[u] IN
    /\ Killed({child[d]})
    /\ child' = [child EXCEPT ![d] = None]
    /\ Frees(d)
    /\ Goes(u, "failed")

(* The child has exited, or made no socket in STDIO_FALLBACK_PROBE: this   *)
(* pi is taken to have no daemon mode.                                     *)
ReadyLatchesAndLeaves(u) ==                                      \* mutant
    LET d == obj[u] IN
    /\ pc[u] = "ready"
    /\ proc[child[d]] = "dead" \/ ~file
    /\ mode' = [mode EXCEPT ![d] = "stdio"]
    /\ Frees(d)
    /\ Goes(u, "failed")
    /\ UNCHANGED <<child, client, managerVars, obj, why, took, worldVars>>
ReadyLatches(u) ==
    LET d == obj[u] IN
    /\ pc[u] = "ready"
    /\ proc[child[d]] = "dead" \/ ~file
    /\ mode' = [mode EXCEPT ![d] = "stdio"]
    /\ StartFails(u)
    /\ UNCHANGED <<client, managerVars, obj, why, took, usable, file>>

(* STARTUP_TIMEOUT with a socket file nobody answers on. *)
ReadyNever(u) == FALSE                                           \* mutant
ReadyTimesOut(u) ==
    /\ pc[u] = "ready"
    /\ file
    /\ StartFails(u)
    /\ UNCHANGED <<client, mode, managerVars, obj, why, took, usable, file>>

(* ensure_transport() asks once more what the failure meant. *)
TransportFailed(u) ==
    /\ pc[u] = "failed"
    /\ lock[obj[u]] = None
    /\ Returns(u)
    /\ UNCHANGED <<stateVars, lock, managerVars, why, took, worldVars>>

(* The caller's future is dropped: the lock is released as it stands. *)
TransportDropped(u) ==
    /\ pc[u] # "idle"
    /\ lock' = [d \in Objects |-> IF lock[d] = u THEN None ELSE lock[d]]
    /\ Returns(u)
    /\ UNCHANGED <<stateVars, managerVars, why, took, worldVars>>

-----------------------------------------------------------------------------
(* PiDaemon::shutdown(), called by maybe_stop_idle_daemon, replace_daemon, *)
(* adopt_command and the manager's shutdown().                             *)

(* An idle exit is for a daemon in use; only shutdown() sets the flag. *)
StopBegin(s, reason) ==
    /\ pc[s] = "idle"
    /\ reason = "idle exit" => lock[slot] = None /\ Connected(slot)
    /\ reason = "replace" => slot + 1 \in Objects
    /\ shutting' = (shutting \/ reason = "shutdown")
    /\ obj' = [obj EXCEPT ![s] = slot]
    /\ why' = [why EXCEPT ![s] = reason]
    /\ Goes(s, "lock")
    /\ UNCHANGED <<stateVars, lock, slot, took, worldVars>>

ShutdownLocks(s) ==
    /\ pc[s] = "lock"
    /\ Takes(s, obj[s])
    /\ client' = [client EXCEPT ![obj[s]] = None]
    /\ told' = IF Connected(obj[s]) THEN told \cup {client[obj[s]]} ELSE told
    /\ Goes(s, "request")
    /\ UNCHANGED <<child, mode, managerVars, obj, why, took, proc, usable, file, bound>>

(* The command was answered or given up; stdin closes, the handle is taken. *)
ShutdownTakesChild(s) ==
    LET d == obj[s] IN
    /\ pc[s] = "request"
    /\ took' = [took EXCEPT ![s] = child[d]]
    /\ child' = [child EXCEPT ![d] = None]
    /\ told' = IF child[d] # None /\ proc[child[d]] # "dead" THEN told \cup {child[d]} ELSE told
    /\ IF child[d] = None
       THEN Frees(d) /\ Goes(s, "stopped")
       ELSE Goes(s, "wait") /\ UNCHANGED lock
    /\ UNCHANGED <<client, mode, managerVars, obj, why, proc, usable, file, bound>>

(* The child leaves within the grace period, or is killed. *)
ShutdownEnds(s) ==
    /\ pc[s] = "wait"
    /\ Killed({took[s]})
    /\ took' = [took EXCEPT ![s] = None]
    /\ Frees(obj[s])
    /\ Goes(s, "stopped")
    /\ UNCHANGED <<stateVars, managerVars, obj, why, usable, file>>

(* The caller is dropped; a handle it has taken kills its process. *)
ShutdownDropped(s) ==
    /\ pc[s] \in {"lock", "request", "wait"}
    /\ lock' = [d \in Objects |-> IF lock[d] = s THEN None ELSE lock[d]]
    /\ Killed({took[s]})
    /\ took' = [took EXCEPT ![s] = None]
    /\ Goes(s, "dropped")
    /\ UNCHANGED <<stateVars, managerVars, obj, why, usable, file>>

(* replace_daemon() and adopt_command() then put a fresh object in the     *)
(* slot; the old one goes with its last user, and with it its child.       *)
Stopped(s) ==
    /\ pc[s] = "stopped"
    /\ slot' = IF why[s] = "replace" /\ slot + 1 \in Objects THEN slot + 1 ELSE slot
    /\ Goes(s, IF why[s] = "shutdown" THEN "done" ELSE "idle")
    /\ obj' = [obj EXCEPT ![s] = 1]
    /\ why' = [why EXCEPT ![s] = IF why[s] = "shutdown" THEN "shutdown" ELSE "idle exit"]
    /\ UNCHANGED <<stateVars, lock, shutting, took, worldVars>>

InUse(d) == \E a \in Actors : obj[a] = d /\ pc[a] \notin {"idle", "done", "dropped"}

ObjectDropped(d) ==
    /\ d < slot
    /\ ~InUse(d)
    /\ lock[d] = None
    /\ child[d] # None \/ client[d] # None
    /\ child' = [child EXCEPT ![d] = None]
    /\ client' = [client EXCEPT ![d] = None]
    /\ Killed({child[d]})
    /\ UNCHANGED <<mode, lock, managerVars, callVars, usable, file>>

-----------------------------------------------------------------------------
(* The processes: external.  One that finds the address taken gives up.    *)

ProcBinds(p) ==
    /\ proc[p] = "starting"
    /\ bound = None
    /\ proc' = [proc EXCEPT ![p] = "listening"]
    /\ bound' = p
    /\ file' = TRUE
    /\ UNCHANGED <<stateVars, lock, managerVars, callVars, told, usable>>

(* A crash, or an exit on demand, which also removes the socket file. *)
ProcExits(p, clean) ==
    /\ proc[p] \in {"starting", "listening"}
    /\ clean => p \in told
    /\ proc' = [proc EXCEPT ![p] = "dead"]
    /\ bound' = IF bound = p THEN None ELSE bound
    /\ file' = IF clean /\ bound = p THEN FALSE ELSE file
    /\ told' = told \ {p}
    /\ UNCHANGED <<stateVars, lock, managerVars, callVars, usable>>

-----------------------------------------------------------------------------
UserStep(u) ==
    \/ ReadMode(u) \/ EnsureRunning(u) \/ Adopt(u) \/ ProbeOtherVersion(u)
    \/ \E p \in Children : ProbeFails(u, p) \/ ReplaceSpawns(u, p)
    \/ SpawnFails(u) \/ ReadyConnects(u) \/ ReadyLatches(u) \/ ReadyTimesOut(u)
    \/ TransportFailed(u)

StopperStep(s) == ShutdownLocks(s) \/ ShutdownTakesChild(s) \/ ShutdownEnds(s) \/ Stopped(s)

Next ==
    \/ \E u \in Users : TransportBegin(u) \/ UserStep(u) \/ TransportDropped(u)
    \/ \E s \in Stoppers :
          \/ \E reason \in Reasons : StopBegin(s, reason)
          \/ StopperStep(s) \/ ShutdownDropped(s)
    \/ \E d \in Objects : ObjectDropped(d)
    \/ \E p \in Procs : ProcBinds(p) \/ \E clean \in BOOLEAN : ProcExits(p, clean)

Spec == Init /\ [][Next]_vars

(* Tasks are polled again, the lock is given out in the order of its       *)
(* waiters, and every await has a time limit.                              *)
Fairness ==
    /\ \A u \in Users : SF_vars(UserStep(u))
    /\ \A s \in Stoppers : SF_vars(StopperStep(s))

FairSpec == Spec /\ Fairness

-----------------------------------------------------------------------------
(* Portal never uses a daemon of another protocol version, though the      *)
(* probe accepts any greeting: what it connects to speaks version 7.       *)
ClientSpeaks == \A d \in Objects : client[d] # None => Speaks(client[d])

(* A pi process Portal spawned is never forgotten alive: it hangs on a     *)
(* PiDaemon object or on the shutdown that waits for it, whatever start    *)
(* failed, was dropped half way, or was overtaken by a replacement.        *)
NoStrayPi ==
    \A p \in Children :
        proc[p] \in {"starting", "listening"} =>
            \/ \E d \in Objects : child[d] = p
            \/ \E s \in Stoppers : took[s] = p

(* An object that fell back to one process per task has no daemon left:    *)
(* the failed start that latched it took its child and client along.       *)
StdioIsAlone ==
    \A d \in Objects : mode[d] = "stdio" => child[d] = None /\ client[d] = None

(* Whatever starts, adoptions, replacements, shutdowns and dropped calls   *)
(* interleave, each pi process has an owner, speaks our version where it   *)
(* is used, and is not kept where none is needed.                          *)
PiIsOwned == TypeOK /\ ClientSpeaks /\ NoStrayPi /\ StdioIsAlone

(* Every call ends although it holds the lock over a 30 s start-up: no     *)
(* daemon that neither answers nor exits keeps its caller, or the queue    *)
(* behind the caller, forever.                                             *)
CallsReturn ==
    /\ \A u \in Users : pc[u] = "mode" ~> pc[u] = "idle"
    /\ \A s \in Stoppers : pc[s] = "lock" ~> pc[s] \in {"idle", "stopped", "done", "dropped"}

(* What the code says of transport(): during shutdown it does not start a  *)
(* daemon again (mod.rs:806).                                              *)
ShutdownStaysDown ==
    [][\A s \in Stoppers :
          pc[s] = "done" /\ why[s] = "shutdown" =>
              \A p \in Children : proc[p] = "unborn" => proc'[p] = "unborn"]_vars
=============================================================================

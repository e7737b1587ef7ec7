------------------------------ MODULE KitManager ------------------------------
(***************************************************************************)
(* One Kit in the KitManager (portal/src/kits/manager.rs): its entry in    *)
(* the registry through reloads, removals and reinstallations, the MCP     *)
(* processes started for it and the calls that use them.  Kits share only  *)
(* the registry lock, which nobody keeps across an await.                  *)
(*                                                                         *)
(* A step ends at an await or where the registry lock is given back.  A    *)
(* process is named by the call that started it.  Its McpConnection lives  *)
(* as long as an Arc points to it: Held says who has one, and the last     *)
(* drop kills the process (McpConnection::drop) and returns its slot.  The *)
(* end of a process and is_alive() are one event here.                     *)
(***************************************************************************)
EXTENDS Naturals, FiniteSets

CONSTANTS
    Calls,          \* tool calls, and the processes they start
    None,           \* no call, no process
    KitGenerations, \* process slots of an entry (mcp/limits.rs)
    MaxFailures,    \* MAX_FAILURES
    MaxChanges      \* bound: reloads, removals and reinstallations

ASSUME NoneAssumption == None \notin Calls
ASSUME CallsAssumption == IsFiniteSet(Calls)
ASSUME LimitsAssumption ==
    /\ KitGenerations \in Nat
    /\ MaxFailures \in Nat \ {0}
    /\ MaxChanges \in Nat

VARIABLES
    \* --- the registry entry ---------------------------------------------
    present,    \* the Kit is in the registry
    generation, \* diagnostics.generation, fresh for each reload
    install,    \* which entry this is: a new one has its own process_slots
    blocked,    \* the command is missing or the configuration incomplete
    connection, \* the process calls are sent to
    failures,   \* failure_count
    unhealthy,  \* unhealthy after MaxFailures failures
    cancelled,  \* generations whose `cancelled` watch is set
    gate,       \* [generation -> the call that holds its start_lock]
    \* --- calls and processes --------------------------------------------
    call,       \* [Calls -> where the call is]
    gen,        \* [Calls -> generation it was resolved for]
    door,       \* [Calls -> generation whose start_lock it wants]
    using,      \* [Calls -> process it has an Arc of]
    result,     \* [Calls -> how its MCP request ended]
    proc,       \* [Calls -> the process started by the call]
    slot,       \* [Calls -> entry whose slot the process holds]
    faults,     \* history: processes that failed a call or did not start
    \* --- giving up processes --------------------------------------------
    leaving,    \* owned by a caller of retire()
    retired,    \* waiting in the `retired` JoinSet for their last call
    closing,    \* out of their Arc, in McpConnection::shutdown
    listed,     \* in the weak `connections` list
    stop        \* where shutdown() is

entryVars  == <<present, generation, install, blocked, cancelled>>
healthVars == <<failures, unhealthy>>
callVars   == <<call, gen, door, using, result>>
ownVars    == <<leaving, retired, closing>>
vars == <<entryVars, connection, healthVars, gate, callVars, proc, slot, faults, ownVars,
          listed, stop>>

Generations == 0..MaxChanges
CallStates == {"idle", "resolved", "queued", "gated", "preparing", "starting", "spawned",
               "unstarted", "calling", "answered", "failed", "returned"}
(* The call has its process, connected or not yet, to itself. *)
Starting == {"preparing", "starting", "spawned", "unstarted"}
stopping == stop # "no"

(* Somebody has an Arc of the connection, or owns it. *)
Held(x) ==
    \/ connection = x
    \/ call[x] \in Starting
    \/ \E c \in Calls : using[c] = x
    \/ x \in leaving \cup retired \cup closing

(* Processes in A are aborted, those nobody holds any more are dropped.    *)
Aborts(A) ==
    proc' = [x \in Calls |->
        IF proc[x] = "alive" /\ (x \in A \/ ~Held(x)') THEN "dead" ELSE proc[x]]
Drops == Aborts({})

Init ==
    /\ present = TRUE
    /\ generation = 0
    /\ install = 0
    /\ blocked = FALSE
    /\ connection = None
    /\ failures = 0
    /\ unhealthy = FALSE
    /\ cancelled = {}
    /\ gate = [g \in Generations |-> None]
    /\ call = [c \in Calls |-> "idle"]
    /\ gen = [c \in Calls |-> 0]
    /\ door = [c \in Calls |-> 0]
    /\ using = [c \in Calls |-> None]
    /\ result = [c \in Calls |-> "none"]
    /\ proc = [c \in Calls |-> "none"]
    /\ slot = [c \in Calls |-> 0]
    /\ faults = {}
    /\ leaving = {}
    /\ retired = {}
    /\ closing = {}
    /\ listed = {}
    /\ stop = "no"

-----------------------------------------------------------------------------
(* call_tool(): connection_for() *)

Moves(c, to) == call' = [call EXCEPT ![c] = to]
(* Leaving connection_for drops the guard of the start_lock. *)
OpenGate(c) == gate' = [g \in Generations |-> IF gate[g] = c THEN None ELSE gate[g]]
(* The call is over, or was dropped: all it owns is dropped with it. *)
Returns(c) ==
    /\ Moves(c, "returned")
    /\ OpenGate(c)
    /\ using' = [using EXCEPT ![c] = None]
    /\ door' = [door EXCEPT ![c] = 0]
    /\ result' = [result EXCEPT ![c] = "none"]

(* The tool is looked up in the manifest of this generation. *)
Resolve(c) ==
    /\ call[c] = "idle"
    /\ present
    /\ Moves(c, "resolved")
    /\ gen' = [gen EXCEPT ![c] = generation]
    /\ UNCHANGED <<entryVars, connection, healthVars, gate, door, using, result, proc, slot,
                   faults, ownVars, listed, stop>>

(* The start_lock is taken from the entry there is now. *)
AskGate(c) ==
    /\ call[c] = "resolved"
    /\ present
    /\ ~stopping
    /\ Moves(c, "queued")
    /\ door' = [door EXCEPT ![c] = generation]
    /\ UNCHANGED <<entryVars, connection, healthVars, gate, gen, using, result, proc, slot,
                   faults, ownVars, listed, stop>>

PassGate(c) ==
    /\ call[c] = "queued"
    /\ gate[door[c]] = None
    /\ gate' = [gate EXCEPT ![door[c]] = c]
    /\ Moves(c, "gated")
    /\ UNCHANGED <<entryVars, connection, healthVars, gen, door, using, result, proc, slot,
                   faults, ownVars, listed, stop>>

(* No Kit, Portal is stopping, or "Kit is already starting; retry later"   *)
(* after five seconds.                                                     *)
TurnedAway(c) ==
    /\ \/ call[c] = "resolved" /\ (~present \/ stopping)
       \/ call[c] = "queued" /\ gate[door[c]] # None
    /\ Returns(c)
    /\ UNCHANGED <<entryVars, connection, healthVars, gen, proc, slot, faults, ownVars,
                   listed, stop>>

(* A warm-up would end here, as a dropped call does. *)
HandOut(c, x) ==
    /\ Moves(c, "calling")
    /\ OpenGate(c)
    /\ using' = [using EXCEPT ![c] = x]
    /\ UNCHANGED <<door, result>>

(* The entry still has the generation the call was resolved for. *)
Current(c) == present /\ generation = gen[c]
Alive(x) == x # None /\ proc[x] = "alive"
SlotsInUse == {x \in Calls : Held(x) /\ proc[x] # "none" /\ slot[x] = install}

(* The live connection of the right generation is shared. *)
ShareAnyGeneration(c) ==                                         \* mutant
    /\ call[c] = "gated"
    /\ present
    /\ Alive(connection)
    /\ HandOut(c, connection)
    /\ UNCHANGED <<entryVars, connection, healthVars, gen, proc, slot, faults,
                   ownVars, listed, stop>>
Share(c) ==
    /\ call[c] = "gated"
    /\ Current(c)
    /\ Alive(connection)
    /\ HandOut(c, connection)
    /\ UNCHANGED <<entryVars, connection, healthVars, gen, proc, slot, faults,
                   ownVars, listed, stop>>

(* Startable, and a process slot is free. *)
MayStartUnlimited(c) == Current(c) /\ ~blocked /\ ~unhealthy     \* mutant
MayStart(c) ==
    /\ Current(c)
    /\ ~blocked
    /\ ~unhealthy
    /\ Cardinality(SlotsInUse) < KitGenerations

(* Reloaded, removed, not startable or no slot. *)
Refused(c) ==
    /\ call[c] = "gated"
    /\ ~Current(c) \/ (~Alive(connection) /\ ~MayStart(c))
    /\ Returns(c)
    /\ UNCHANGED <<entryVars, connection, healthVars, gen, slot, faults,
                   ownVars, listed, stop>>
    /\ Drops

(* A slot is taken, and the dead connection from the entry with it. *)
Prepare(c) ==
    /\ call[c] = "gated"
    /\ ~Alive(connection)
    /\ MayStart(c)
    /\ Moves(c, "preparing")
    /\ proc' = [proc EXCEPT ![c] = "wanted"]
    /\ slot' = [slot EXCEPT ![c] = install]
    /\ using' = [using EXCEPT ![c] = connection]
    /\ connection' = None
    /\ UNCHANGED <<entryVars, healthVars, gate, gen, door, result, faults, ownVars, listed,
                   stop>>

(* `cancelled` was not set before it was subscribed to: the old connection *)
(* is aborted and dropped, and McpConnection::spawn runs.                  *)
StartProcess(c) ==
    /\ call[c] = "preparing"
    /\ gen[c] \notin cancelled
    /\ Moves(c, "starting")
    /\ using' = [using EXCEPT ![c] = None]
    /\ proc' = [proc EXCEPT ![c] = "alive"]
    /\ UNCHANGED <<entryVars, connection, healthVars, gate, gen, door, result, slot, faults,
                   ownVars, listed, stop>>

(* `cancelled` was set before, or is set now and its branch of the biased  *)
(* select drops the half-made connection.                                  *)
StartCancelled(c) ==
    /\ call[c] \in {"preparing", "starting"}
    /\ gen[c] \in cancelled
    /\ Returns(c)
    /\ UNCHANGED <<entryVars, connection, healthVars, gen, slot, faults,
                   ownVars, listed, stop>>
    /\ Drops

(* The handshake succeeds, or it fails or takes too long.                  *)
StartSettles(c) ==
    /\ call[c] = "starting"
    /\ gen[c] \notin cancelled
    /\ \/ /\ proc[c] = "alive"
          /\ Moves(c, "spawned")
          /\ UNCHANGED <<proc, faults>>
       \/ /\ Moves(c, "unstarted")
          /\ proc' = [proc EXCEPT ![c] = "dead"]
          /\ faults' = faults \cup {c}
    /\ UNCHANGED <<entryVars, connection, healthVars, gate, gen, door, using, result, slot,
                   ownVars, listed, stop>>

RecordFailure ==
    /\ failures' = failures + 1
    /\ unhealthy' = (unhealthy \/ failures + 1 >= MaxFailures)

(* Reload, removal and shutdown are noticed under the registry lock. *)
Disowned(c) ==
    /\ call[c] \in {"spawned", "unstarted"}
    /\ ~Current(c) \/ stopping
    /\ Returns(c)
    /\ UNCHANGED <<entryVars, connection, healthVars, gen, slot, faults,
                   ownVars, listed, stop>>
    /\ Drops

StartFailed(c) ==
    /\ call[c] = "unstarted"
    /\ Current(c)
    /\ ~stopping
    /\ RecordFailure
    /\ Returns(c)
    /\ UNCHANGED <<entryVars, connection, gen, slot, faults, ownVars, listed,
                   stop>>
    /\ Drops

Install(c) ==
    /\ call[c] = "spawned"
    /\ Current(c)
    /\ ~stopping
    /\ connection' = c
    /\ listed' = listed \cup {c}
    /\ HandOut(c, c)
    /\ UNCHANGED <<entryVars, healthVars, gen, proc, slot, faults, ownVars,
                   stop>>

-----------------------------------------------------------------------------
(* call_tool(): the request and its bookkeeping *)

(* "other": a timeout, a remote error or a refused request, which say      *)
(* nothing about the process.                                              *)
CallEnds(c) ==
    /\ call[c] = "calling"
    /\ \E r \in {"ok", "other", "broken"} :
        /\ result' = [result EXCEPT ![c] = r]
        /\ faults' = IF r = "broken" THEN faults \cup {using[c]} ELSE faults
    /\ Moves(c, "answered")
    /\ UNCHANGED <<entryVars, connection, healthVars, gate, gen, door, using, proc, slot,
                   ownVars, listed, stop>>

(* Mutant: recognises the generation, not the connection. *)
OwnsConnectionByGeneration(c) == Current(c) /\ connection # None
(* The call used the very connection the entry has now (Arc::ptr_eq). *)
OwnsConnection(c) == present /\ connection = using[c]

(* Anything but a failure of the current connection. *)
Bookkeep(c) ==
    /\ call[c] = "answered"
    /\ result[c] # "broken" \/ ~OwnsConnection(c)
    /\ Returns(c)
    /\ IF result[c] = "ok" /\ OwnsConnection(c)
       THEN failures' = 0 /\ UNCHANGED unhealthy
       ELSE UNCHANGED healthVars
    /\ UNCHANGED <<entryVars, connection, gen, slot, faults, ownVars, listed,
                   stop>>
    /\ Drops

(* The current connection failed: the entry gives it up ... *)
GiveUp(c) ==
    /\ call[c] = "answered"
    /\ result[c] = "broken"
    /\ OwnsConnection(c)
    /\ using' = [using EXCEPT ![c] = connection]
    /\ connection' = None
    /\ RecordFailure
    /\ Moves(c, "failed")
    /\ UNCHANGED <<entryVars, gate, gen, door, result, proc, slot, faults, ownVars, listed,
                   stop>>

(* ... and after the lock is given back it is aborted and retired.         *)
AbortFailed(c) ==
    /\ call[c] = "failed"
    /\ leaving' = leaving \cup {using[c]}
    /\ Returns(c)
    /\ UNCHANGED <<entryVars, connection, healthVars, gen, slot, faults,
                   retired, closing, listed, stop>>
    /\ Aborts({using[c]})

(* The future of the tool call is dropped (cancelled, or its connection    *)
(* to the client ended).                                                   *)
CallDropped(c) ==
    /\ call[c] \in {"resolved", "queued", "gated", "preparing", "starting", "spawned",
                    "unstarted", "calling", "answered"}
    /\ Returns(c)
    /\ UNCHANGED <<entryVars, connection, healthVars, gen, slot, faults,
                   ownVars, listed, stop>>
    /\ Drops

-----------------------------------------------------------------------------
(* refresh_kits_target() *)

(* Every receiver of the old watch is told, whether the entry is replaced  *)
(* or removed; the old connection is not aborted.                          *)
Supersede ==
    /\ ~stopping
    /\ generation < MaxChanges
    /\ cancelled' = cancelled \cup {generation}
    /\ leaving' = leaving \cup ({connection} \ {None})
    /\ connection' = None
    /\ failures' = 0
    /\ unhealthy' = FALSE
    /\ UNCHANGED <<gate, callVars, proc, slot, faults, retired, closing, listed, stop>>

(* A changed manifest, environment or command, or a forced reload. *)
Reload ==
    /\ present
    /\ generation' = generation + 1
    /\ blocked' \in BOOLEAN
    /\ Supersede
    /\ UNCHANGED <<present, install>>

Remove ==
    /\ present
    /\ present' = FALSE
    /\ Supersede
    /\ UNCHANGED <<generation, install, blocked>>

(* A new directory: a new entry with slots of its own. *)
Add ==
    /\ ~present
    /\ ~stopping
    /\ generation < MaxChanges
    /\ present' = TRUE
    /\ generation' = generation + 1
    /\ install' = install + 1
    /\ blocked' \in BOOLEAN
    /\ UNCHANGED <<cancelled, connection, healthVars, gate, callVars, proc, slot, faults,
                   ownVars, listed, stop>>

(* list_healthy_tools() and check_startable(), RECOVERY_COOLDOWN_SECS      *)
(* after the last failure.                                                 *)
Recover ==
    /\ unhealthy
    /\ unhealthy' = FALSE
    /\ failures' = 0
    /\ UNCHANGED <<entryVars, connection, gate, callVars, proc, slot, faults, ownVars,
                   listed, stop>>

-----------------------------------------------------------------------------
(* retire() *)

(* Nobody but its owner in retire() has the connection. *)
Alone(x) == connection # x /\ call[x] \notin Starting /\ \A c \in Calls : using[c] # x

Retire(x) ==
    /\ x \in leaving
    /\ leaving' = leaving \ {x}
    /\ IF Alone(x)
       THEN closing' = closing \cup {x} /\ UNCHANGED retired
       ELSE retired' = retired \cup {x} /\ UNCHANGED closing
    /\ UNCHANGED <<entryVars, connection, healthVars, gate, callVars, proc, slot, faults,
                   listed, stop>>

(* The future of the reload, or of the failed call, is dropped before.     *)
RetireDropped(x) ==
    /\ x \in leaving
    /\ leaving' = leaving \ {x}
    /\ UNCHANGED <<entryVars, connection, healthVars, gate, callVars, slot, faults, retired,
                   closing, listed, stop>>
    /\ Drops

(* try_unwrap succeeds when the last call has dropped its Arc. *)
Unwrap(x) ==
    /\ x \in retired
    /\ Alone(x)
    /\ retired' = retired \ {x}
    /\ closing' = closing \cup {x}
    /\ UNCHANGED <<entryVars, connection, healthVars, gate, callVars, proc, slot, faults,
                   leaving, listed, stop>>

(* McpConnection::shutdown: end of input, a grace, then the group is       *)
(* killed; its owner may be dropped meanwhile.                             *)
Closed(x) ==
    /\ x \in closing
    /\ closing' = closing \ {x}
    /\ UNCHANGED <<entryVars, connection, healthVars, gate, callVars, slot, faults, leaving,
                   retired, listed, stop>>
    /\ Drops

-----------------------------------------------------------------------------
(* shutdown() *)

StopBegin ==
    /\ stop = "no"
    /\ stop' = "stopping"
    /\ UNCHANGED <<entryVars, connection, healthVars, gate, callVars, proc, slot, faults,
                   ownVars, listed>>

StopTake ==
    /\ stop = "stopping"
    /\ stop' = "taken"
    /\ cancelled' = IF present THEN cancelled \cup {generation} ELSE cancelled
    /\ leaving' = leaving \cup ({connection} \ {None})
    /\ connection' = None
    /\ UNCHANGED <<present, generation, install, blocked, healthVars, gate, callVars, proc,
                   slot, faults, retired, closing, listed>>

(* Mutant: aborts what waits to be retired, not what calls still use. *)
StopAbortsLeaving ==
    /\ stop = "taken"
    /\ stop' = "aborted"
    /\ UNCHANGED <<entryVars, connection, healthVars, gate, callVars, slot, faults, ownVars,
                   listed>>
    /\ Aborts(listed \cap leaving)
(* Every connection of the weak list that can be upgraded: an unwrapped    *)
(* one cannot.                                                             *)
StopAborts ==
    /\ stop = "taken"
    /\ stop' = "aborted"
    /\ UNCHANGED <<entryVars, connection, healthVars, gate, callVars, slot, faults, ownVars,
                   listed>>
    /\ Aborts(listed \ closing)

(* The JoinSet is empty, or five seconds are over and its tasks dropped.   *)
StopEnds ==
    /\ stop = "aborted"
    /\ stop' = "done"
    /\ retired' = {}
    /\ UNCHANGED <<entryVars, connection, healthVars, gate, callVars, slot, faults, leaving,
                   closing, listed>>
    /\ Drops

-----------------------------------------------------------------------------
(* The Kit's process ends by itself. *)
ProcessDies(x) ==
    /\ proc[x] = "alive"
    /\ proc' = [proc EXCEPT ![x] = "dead"]
    /\ UNCHANGED <<entryVars, connection, healthVars, gate, callVars, slot, faults, ownVars,
                   listed, stop>>

CallStep(c) ==
    \/ AskGate(c) \/ PassGate(c) \/ TurnedAway(c) \/ Share(c) \/ Refused(c) \/ Prepare(c)
    \/ StartProcess(c) \/ StartCancelled(c) \/ StartSettles(c) \/ Disowned(c)
    \/ StartFailed(c) \/ Install(c) \/ Bookkeep(c) \/ GiveUp(c) \/ AbortFailed(c)
RetireStep(x) == Retire(x) \/ Unwrap(x) \/ Closed(x)
StopStep == StopTake \/ StopAborts \/ StopEnds

Next ==
    \/ \E c \in Calls :
        \/ Resolve(c) \/ CallStep(c) \/ CallEnds(c) \/ CallDropped(c)
        \/ RetireStep(c) \/ RetireDropped(c)
        \/ ProcessDies(c)
    \/ Reload \/ Remove \/ Add \/ Recover
    \/ StopBegin \/ StopStep

Spec == Init /\ [][Next]_vars

-----------------------------------------------------------------------------
(* Properties that hold *)

(* The type invariant. *)
TypeOK ==
    /\ present \in BOOLEAN /\ blocked \in BOOLEAN /\ unhealthy \in BOOLEAN
    /\ generation \in Generations
    /\ install \in 0..generation
    /\ connection \in Calls \cup {None}
    /\ failures \in 0..MaxFailures
    /\ cancelled \subseteq Generations
    /\ gate \in [Generations -> Calls \cup {None}]
    /\ call \in [Calls -> CallStates]
    /\ gen \in [Calls -> Generations]
    /\ door \in [Calls -> Generations]
    /\ using \in [Calls -> Calls \cup {None}]
    /\ result \in [Calls -> {"none", "ok", "other", "broken"}]
    /\ proc \in [Calls -> {"none", "wanted", "alive", "dead"}]
    /\ slot \in [Calls -> Generations]
    /\ faults \cup leaving \cup retired \cup closing \cup listed \subseteq Calls
    /\ stop \in {"no", "stopping", "taken", "aborted", "done"}

(* A call runs only on a process of the manifest it was resolved against:  *)
(* a reload between the two is noticed (generation check of                *)
(* connection_for).                                                        *)
CallsMeetTheirKit ==
    \A c \in Calls : call[c] = "calling" => gen[using[c]] = gen[c]

(* However often a Kit is reloaded under running calls, at most            *)
(* KitGenerations of its processes live (process_slots).                   *)
ProcessesBounded ==
    \A i \in Generations :
        Cardinality({x \in Calls : proc[x] = "alive" /\ slot[x] = i}) <= KitGenerations

(* Many calls failing on one broken process count as one failure, and      *)
(* failures of an earlier generation do not count at all (call_tool's      *)
(* Arc::ptr_eq check): a Kit is unhealthy only after MaxFailures broken    *)
(* processes of its own.                                                   *)
FailuresCountProcesses ==
    failures <= Cardinality({x \in faults : gen[x] = generation})

(* The current process is given up only when it is dead, failed a call of  *)
(* its own, or the Kit is reloaded, removed or stopped: never for what an  *)
(* old call met on an earlier process.                                     *)
GivenUpForCause ==
    [][connection # None /\ connection' # connection =>
        \/ proc[connection] = "dead"
        \/ connection \in faults
        \/ generation \in cancelled']_vars

(* Once shutdown has made its pass, the only processes left are being      *)
(* closed or being started by a call that is told to give up: none serves  *)
(* a call, those of retired generations included.                          *)
ShutdownReachesAll ==
    stop \in {"aborted", "done"} =>
        \A x \in Calls : proc[x] = "alive" =>
            x \in closing \/ (call[x] \in Starting /\ gen[x] \in cancelled)
=============================================================================

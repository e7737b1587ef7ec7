------------------------------ MODULE Connection ------------------------------
(***************************************************************************)
(* One MCP connection of Portal: handle_connection (portal/src/main.rs).   *)
(* One loop reads requests, runs each handler as a task of one of two      *)
(* JoinSets, writes responses and forwards tool-list changes.              *)
(*                                                                         *)
(* An action is one iteration of the loop, or one step of a handler task.  *)
(* `active` maps a JSON-RPC id to its newest request, a JoinSet holds a    *)
(* handler until it is joined: the two disagree after a cancellation.      *)
(* While the loop writes a notification the handlers go on.  Tool          *)
(* arguments and results are left out.  Authentication comes before.       *)
(***************************************************************************)
EXTENDS Naturals, FiniteSets

CONSTANTS
    Requests,           \* requests, numbered in the order they are sent
    Ids,                \* JSON-RPC ids it uses
    None,               \* no request
    WorkLimit,          \* WORK_REQUESTS
    ManagementLimit,    \* MANAGEMENT_REQUESTS
    Supervised,         \* restart_supported: a supervisor relaunches Portal
    MaxChanges,         \* bound: changes of the tool list
    Kinds               \* bound: kinds of request sent besides initialize

ASSUME NoneAssumption == None \notin Requests
ASSUME FiniteAssumption == IsFiniteSet(Requests) /\ Requests \subseteq Nat
ASSUME LimitsAssumption ==
    /\ WorkLimit \in Nat
    /\ ManagementLimit \in Nat
    /\ Supervised \in BOOLEAN
    /\ MaxChanges \in Nat
ASSUME KindsAssumption ==
    Kinds \subseteq {"work", "reload", "management", "restart"}

VARIABLES
    open,           \* the loop is running
    initialized,    \* an initialize request was answered
    notifying,      \* the loop is writing a list_changed notification
    call,           \* [Requests -> where the request is]
    id,             \* [Requests -> its JSON-RPC id]
    kind,           \* [Requests -> what it asks for]
    active,         \* active_requests: [Ids -> request or None]
    aborted,        \* requests whose task was told to abort
    reply,          \* [Requests -> the response written for it]
    requested,      \* restart_requested
    restarting,     \* restart_after_response scheduled the restart
    tools,          \* how often the tool list changed
    revision,       \* revision of the tools_changed watch
    seen,           \* revision this connection's receiver has seen
    told,           \* revision at the last list_changed notification
    toldTools       \* tool list at the last list_changed notification

requestVars == <<call, id, kind, active, aborted, reply>>
restartVars == <<requested, restarting>>
changeVars  == <<tools, revision, seen, told, toldTools>>
loopVars == <<open, initialized, notifying>>
vars == <<loopVars, requestVars, restartVars, changeVars>>

CallStates == {"unsent", "sent", "running", "changed", "finished", "unwound", "panicked",
               "joined", "refused"}
Working == {"running", "changed"}
(* The task is still an element of its JoinSet. *)
Unjoined == Working \cup {"finished", "unwound", "panicked"}

(* ping, tools/list, portal_status, portal_kits_*, portal_restart have     *)
(* their own JoinSet; portal_tools_reload ("reload") is ordinary work.     *)
IsManagement(k) == k \in {"management", "restart"}
Pool(k) ==
    {r \in Requests : call[r] \in Unjoined /\ IsManagement(kind[r]) = IsManagement(k)}
Limit(k) == IF IsManagement(k) THEN ManagementLimit ELSE WorkLimit

(* The loop is at its select!, not writing a notification. *)
Selecting == open /\ ~notifying

Init ==
    /\ open = TRUE
    /\ initialized = FALSE
    /\ notifying = FALSE
    /\ call = [r \in Requests |-> "unsent"]
    /\ id = [r \in Requests |-> None]
    /\ kind = [r \in Requests |-> "none"]
    /\ active = [i \in Ids |-> None]
    /\ aborted = {}
    /\ reply = [r \in Requests |-> "none"]
    /\ requested = FALSE
    /\ restarting = FALSE
    /\ tools = 0
    /\ revision = 0
    /\ seen = 0
    /\ told = 0
    /\ toldTools = 0

-----------------------------------------------------------------------------
(* Reading a message *)

(* The client sends; a message waits in the stream until the loop reads it. *)
(* Bound: one message waits at a time.                                     *)
Send(r, i, k) ==
    /\ open
    /\ call[r] = "unsent"
    /\ \A o \in Requests : call[o] # "sent" /\ (o < r => call[o] # "unsent")
    /\ call' = [call EXCEPT ![r] = "sent"]
    /\ id' = [id EXCEPT ![r] = i]
    /\ kind' = [kind EXCEPT ![r] = k]
    /\ UNCHANGED <<loopVars, active, aborted, reply, restartVars, changeVars>>

Receive(r, c) ==
    /\ Selecting
    /\ call[r] = "sent"
    /\ call' = [call EXCEPT ![r] = c]
    /\ UNCHANGED <<id, kind>>

Refuse(r, error) ==
    /\ Receive(r, "refused")
    /\ reply' = [reply EXCEPT ![r] = error]
    /\ UNCHANGED <<loopVars, active, aborted, restartVars, changeVars>>

(* -32600: the id is in progress, whatever the request asks for. *)
ReadDuplicate(r) ==
    /\ Refuse(r, "duplicate")
    /\ active[id[r]] # None

(* Answered by the loop itself, before any list_changed notification. *)
ReadInitialize(r) ==
    /\ Receive(r, "joined")
    /\ kind[r] = "initialize"
    /\ active[id[r]] = None
    /\ reply' = [reply EXCEPT ![r] = "result"]
    /\ initialized' = TRUE
    /\ UNCHANGED <<open, notifying, active, aborted, restartVars, changeVars>>

(* Mutant: one JoinSet, one limit for all requests. *)
ReadBusyOneSet(r) ==
    /\ Refuse(r, "busy")
    /\ kind[r] # "initialize"
    /\ active[id[r]] = None
    /\ Cardinality({o \in Requests : call[o] \in Unjoined}) >= Limit(kind[r])

(* -32000: the JoinSet is full. *)
ReadBusy(r) ==
    /\ Refuse(r, "busy")
    /\ kind[r] # "initialize"
    /\ active[id[r]] = None
    /\ Cardinality(Pool(kind[r])) >= Limit(kind[r])

(* Mutant: counts the ids in progress instead of the tasks. *)
ReadAdmitCountsIds(r) ==
    /\ Receive(r, "running")
    /\ kind[r] # "initialize"
    /\ active[id[r]] = None
    /\ Cardinality({j \in Ids : active[j] \in Pool(kind[r])}) < Limit(kind[r])
    /\ active' = [active EXCEPT ![id[r]] = r]
    /\ UNCHANGED <<loopVars, aborted, reply, restartVars, changeVars>>

ReadAdmit(r) ==
    /\ Receive(r, "running")
    /\ kind[r] # "initialize"
    /\ active[id[r]] = None
    /\ Cardinality(Pool(kind[r])) < Limit(kind[r])
    /\ active' = [active EXCEPT ![id[r]] = r]
    /\ UNCHANGED <<loopVars, aborted, reply, restartVars, changeVars>>

(* notifications/cancelled for an id in progress; any other is ignored.    *)
ReadCancel(i) ==
    /\ Selecting
    /\ active[i] # None
    /\ active' = [active EXCEPT ![i] = None]
    /\ aborted' = aborted \cup {active[i]}
    /\ UNCHANGED <<loopVars, call, id, kind, reply, restartVars, changeVars>>

-----------------------------------------------------------------------------
(* Handler tasks: handle_request *)

Settles(r, c) ==
    /\ call' = [call EXCEPT ![r] = c]
    /\ UNCHANGED <<loopVars, id, kind, active, aborted, reply, restarting, seen,
                   told, toldTools>>

(* handle_restart: an error unless somebody relaunches Portal. *)
AsksRestart(r) == kind[r] = "restart" /\ Supervised

(* An abort only lands at an await, so an aborted handler may still        *)
(* finish.  Errors of a tool are results, too.                             *)
HandlerFinishes(r) ==
    /\ call[r] = "running"
    /\ kind[r] # "reload"
    /\ Settles(r, "finished")
    /\ requested' = (requested \/ AsksRestart(r))
    /\ UNCHANGED <<tools, revision>>

(* reload_custom_tools: shutdown empties the list of custom tools ...      *)
ReloadEmpties(r) ==
    /\ call[r] = "running"
    /\ kind[r] = "reload"
    /\ tools < MaxChanges
    /\ Settles(r, "changed")
    /\ tools' = tools + 1
    /\ UNCHANGED <<requested, revision>>

(* ... load fills it again and notifies the watchers, or fails before.     *)
ReloadEnds(r) ==
    /\ call[r] = "changed"
    /\ Settles(r, "finished")
    /\ \/ revision' = revision + 1
       \/ UNCHANGED revision
    /\ UNCHANGED <<requested, tools>>

HandlerPanics(r) ==
    /\ call[r] \in Working
    /\ Settles(r, "panicked")
    /\ UNCHANGED <<requested, tools, revision>>

(* The abort lands: the handler's future is dropped where it awaits.       *)
HandlerUnwinds(r) ==
    /\ r \in aborted
    /\ call[r] \in Working
    /\ Settles(r, "unwound")
    /\ UNCHANGED <<requested, tools, revision>>

(* A kit rescan or a custom-tools load elsewhere changes the list and      *)
(* notifies (refresh_kits_target, load_custom_tools).                      *)
ToolsChange ==
    /\ open
    /\ tools < MaxChanges
    /\ tools' = tools + 1
    /\ revision' = revision + 1
    /\ UNCHANGED <<loopVars, requestVars, restartVars, seen, told, toldTools>>

-----------------------------------------------------------------------------
(* The loop's other branches *)

(* Mutant: matches the id only, not the task. *)
OwnsIdByNumber(r) == active[id[r]] # None
(* The id still belongs to this very task. *)
OwnsId(r) == active[id[r]] = r

(* restart_after_response: a second later the main loop shuts down. *)
RestartsAfter(r) == kind[r] = "restart" /\ requested

(* Mutant: schedules the restart of a cancelled call as well. *)
JoinRestartsAnyway(r) ==
    /\ Selecting
    /\ call[r] = "finished"
    /\ call' = [call EXCEPT ![r] = "joined"]
    /\ restarting' = (restarting \/ RestartsAfter(r))
    /\ IF OwnsId(r)
       THEN /\ active' = [active EXCEPT ![id[r]] = None]
            /\ reply' = [reply EXCEPT ![r] = "result"]
       ELSE UNCHANGED <<active, reply>>
    /\ UNCHANGED <<loopVars, id, kind, aborted, requested, changeVars>>

(* A handler is joined.  Its response is written only if it owns its id,   *)
(* and the restart it asked for is scheduled after that.                   *)
JoinFinished(r) ==
    /\ Selecting
    /\ call[r] = "finished"
    /\ call' = [call EXCEPT ![r] = "joined"]
    /\ IF OwnsId(r)
       THEN /\ active' = [active EXCEPT ![id[r]] = None]
            /\ reply' = [reply EXCEPT ![r] = "result"]
            /\ restarting' = (restarting \/ RestartsAfter(r))
       ELSE UNCHANGED <<active, reply, restarting>>
    /\ UNCHANGED <<loopVars, id, kind, aborted, requested, changeVars>>

JoinUnwound(r) ==
    /\ Selecting
    /\ call[r] = "unwound"
    /\ call' = [call EXCEPT ![r] = "joined"]
    /\ UNCHANGED <<loopVars, id, kind, active, aborted, reply, restartVars,
                   changeVars>>

(* Leaving handle_connection drops both JoinSets and aborts their tasks;   *)
(* nobody on this connection sees what those still do.                     *)
Leave ==
    /\ open' = FALSE
    /\ active' = [i \in Ids |-> None]
    /\ call' = [r \in Requests |-> IF call[r] \in Unjoined THEN "joined" ELSE call[r]]
    /\ notifying' = FALSE
    /\ UNCHANGED <<initialized, id, kind, aborted, reply, restartVars, changeVars>>

JoinPanicked(r) ==
    /\ Selecting
    /\ call[r] = "panicked"
    /\ Leave

(* End of input, or a failed read. *)
Disconnect ==
    /\ Selecting
    /\ Leave

(* The client stopped reading, or is gone: send_response fails or times    *)
(* out, and the restart it asked for is never scheduled.                   *)
ResponseFails(r) ==
    /\ Selecting
    /\ call[r] = "finished"
    /\ OwnsId(r)
    /\ Leave

(* changes.changed(), looked at once initialized: what is there by now     *)
(* counts as seen, then the notification is written.                       *)
NotifyBegins ==
    /\ Selecting
    /\ initialized
    /\ seen # revision
    /\ seen' = revision
    /\ notifying' = TRUE
    /\ UNCHANGED <<open, initialized, requestVars, restartVars, tools, revision, told,
                   toldTools>>

(* Mutant: what came during the write counts as seen, too. *)
NotifyEndsSeesAll ==
    /\ notifying
    /\ notifying' = FALSE
    /\ told' = seen
    /\ seen' = revision
    /\ toldTools' = tools
    /\ UNCHANGED <<open, initialized, requestVars, restartVars, tools, revision>>

(* Written: a client that lists now sees the tools there are now. *)
NotifyEnds ==
    /\ notifying
    /\ notifying' = FALSE
    /\ told' = seen
    /\ toldTools' = tools
    /\ UNCHANGED <<open, initialized, requestVars, restartVars, tools, revision, seen>>

(* send_notification fails or times out. *)
NotificationFails ==
    /\ notifying
    /\ Leave

-----------------------------------------------------------------------------
Read(r) == ReadInitialize(r) \/ ReadDuplicate(r) \/ ReadBusy(r) \/ ReadAdmit(r)
Handler(r) ==
    HandlerFinishes(r) \/ ReloadEmpties(r) \/ ReloadEnds(r) \/ HandlerPanics(r)
Join(r) == JoinFinished(r) \/ JoinUnwound(r) \/ JoinPanicked(r)

Next ==
    \/ \E r \in Requests :
        \/ \E i \in Ids, k \in Kinds \cup {"initialize"} : Send(r, i, k)
        \/ Read(r)
        \/ Handler(r)
        \/ HandlerUnwinds(r)
        \/ Join(r)
        \/ ResponseFails(r)
    \/ \E i \in Ids : ReadCancel(i)
    \/ ToolsChange
    \/ NotifyBegins
    \/ NotifyEnds
    \/ NotificationFails
    \/ Disconnect

Spec == Init /\ [][Next]_vars

(* select! picks among its ready branches at random, so none starves; an   *)
(* aborted task is dropped at its next await; management handlers return.  *)
(* Work may take for ever, and no client has to send anything.             *)
Fairness ==
    /\ \A r \in Requests :
        /\ WF_vars(Read(r))
        /\ WF_vars(Join(r))
        /\ WF_vars(HandlerUnwinds(r))
        /\ WF_vars(HandlerFinishes(r) /\ IsManagement(kind[r]))
    /\ WF_vars(NotifyBegins)
    /\ WF_vars(NotifyEnds)

FairSpec == Spec /\ Fairness

-----------------------------------------------------------------------------
(* Properties that hold *)

(* The type invariant; a request that owns an id is one whose handler has  *)
(* not been joined (active_requests of handle_connection).                 *)
TypeOK ==
    /\ open \in BOOLEAN
    /\ initialized \in BOOLEAN
    /\ notifying \in BOOLEAN /\ (notifying => open)
    /\ call \in [Requests -> CallStates]
    /\ id \in [Requests -> Ids \cup {None}]
    /\ kind \in [Requests -> Kinds \cup {"initialize", "none"}]
    /\ \A r \in Requests : call[r] # "unsent" => id[r] \in Ids /\ kind[r] # "none"
    /\ active \in [Ids -> Requests \cup {None}]
    /\ aborted \subseteq Requests
    /\ reply \in [Requests -> {"none", "result", "duplicate", "busy"}]
    /\ requested \in BOOLEAN
    /\ restarting \in BOOLEAN
    /\ {tools, revision, seen, told, toldTools} \subseteq Nat
    /\ \A i \in Ids : active[i] # None =>
        /\ call[active[i]] \in Unjoined \ {"unwound"}
        /\ id[active[i]] = i

(* At most WorkLimit and ManagementLimit handlers exist at any time: a     *)
(* client cannot get more by cancelling and sending again, because a       *)
(* cancelled handler counts until it is gone.                              *)
HandlersBounded ==
    /\ Cardinality(Pool("work")) <= WorkLimit
    /\ Cardinality(Pool("management")) <= ManagementLimit

(* Portal restarts only for a portal_restart call whose answer was written *)
(* (restart_after_response), never for one that was cancelled.             *)
RestartAfterAnswer ==
    restarting => \E r \in Requests : kind[r] = "restart" /\ reply[r] = "result"

(* A management request is read and answered however many work requests    *)
(* are stuck, unless its client cancels it or the connection ends; and it  *)
(* is refused as busy only while management requests fill their own set    *)
(* (docs/kit-configuration.md: "reserves eight additional management       *)
(* requests").                                                             *)
ManagementServed ==
    /\ \A r \in Requests :
        call[r] # "unsent" /\ IsManagement(kind[r])
            ~> reply[r] # "none" \/ r \in aborted \/ ~open
    /\ [][\A r \in Requests :
            reply'[r] = "busy" /\ reply[r] # "busy" /\ IsManagement(kind[r])
                => Cardinality(Pool("management")) >= ManagementLimit]_vars

(* Every revision of the tool list that was announced to the watchers is   *)
(* followed by a list_changed notification on an initialized connection,   *)
(* those announced before it was initialized or while an earlier           *)
(* notification was written included.                                      *)
ChangeNoticed ==
    \A v \in 1..MaxChanges :
        initialized /\ revision >= v ~> told >= v \/ ~open

(* What a connection serves its client whatever else it is busy with       *)
(* (handle_connection): management requests, and changes of the tool list. *)
ConnectionServes == ManagementServed /\ ChangeNoticed

(* The ids of the connection implement RequestSlots: a result is written   *)
(* only by the request that holds its id, also when a cancelled request    *)
(* finishes after its id was used again.                                   *)
Slots == INSTANCE RequestSlots WITH
    slot <- active,
    answered <- {r \in Requests : reply[r] = "result" /\ kind[r] # "initialize"}
ImplementsSlots == Slots!Spec

-----------------------------------------------------------------------------
(* What the documentation says, and the code does not keep *)

(* docs/kit-configuration.md: Portal "sends                                *)
(* `notifications/tools/list_changed` to each initialized connection" when *)
(* its tools changed.                                                      *)
ChangesTold ==
    \A v \in 1..MaxChanges :
        initialized /\ tools >= v ~> toldTools >= v \/ ~open

=============================================================================

------------------------- MODULE SubagentTasksProof -------------------------
(***************************************************************************)
(* Theorems about SubagentTasks, for every number of tasks, keys, permits  *)
(* and restarts.                                                           *)
(***************************************************************************)
EXTENDS SubagentTasks, TLAPS, FiniteSetTheorems

-----------------------------------------------------------------------------
(* The ledger operators *)

(* Pruning drops rows but never invents, changes or loses an open one.     *)
LEMMA PruneRows ==
    ASSUME NEW l \in [Tasks -> Rows]
    PROVE  /\ Prune(l) \in [Tasks -> Rows]
           /\ \A t \in Tasks : Prune(l)[t] = l[t] \/ Prune(l)[t] = NoRow
           /\ \A t \in Tasks : IsOpen(l[t]) => Prune(l)[t] = l[t]
<1>1. NoRow \in Rows
  BY DEF NoRow, Rows, RowStates, CallbackStates
<1>2. \A t \in Tasks : IsOpen(l[t]) => t \notin FinishedRows(l)
  BY DEF IsOpen, FinishedRows, Outcomes
<1> QED
  BY <1>1, <1>2 DEF Prune

(* Closing or marking a row touches that row only.                         *)
LEMMA FinishedRow ==
    ASSUME NEW l \in [Tasks -> Rows], NEW t \in Tasks, NEW st \in Outcomes
    PROVE  /\ FinishTask(l, t, st) \in [Tasks -> Rows]
           /\ \A u \in Tasks \ {t} : FinishTask(l, t, st)[u] = l[u]
           /\ \/ FinishTask(l, t, st)[t] = NoRow /\ l[t] = NoRow
              \/ l[t] # NoRow /\ FinishTask(l, t, st)[t] = [st |-> st, cb |-> l[t].cb]
BY DEF FinishTask, Rows, RowStates

(* set_callback_state changes one row that is there, and nothing else.     *)
LEMMA MarkedRow ==
    ASSUME NEW l \in [Tasks -> Rows], NEW t \in Tasks, NEW c \in CallbackStates
    PROVE  /\ SetCallbackState(l, t, c) \in [Tasks -> Rows]
           /\ \A u \in Tasks \ {t} : SetCallbackState(l, t, c)[u] = l[u]
           /\ \/ SetCallbackState(l, t, c)[t] = NoRow /\ l[t] = NoRow
              \/ l[t] # NoRow /\ SetCallbackState(l, t, c)[t] = [st |-> l[t].st, cb |-> c]
BY DEF SetCallbackState, Rows, RowStates

(* interrupt_open_tasks closes the open rows, and nothing else.            *)
LEMMA InterruptedRows ==
    ASSUME NEW l \in [Tasks -> Rows]
    PROVE  /\ InterruptOpenTasks(l) \in [Tasks -> Rows]
           /\ \A t \in Tasks :
                /\ IsOpen(l[t]) => InterruptOpenTasks(l)[t] = [st |-> "Interrupted", cb |-> l[t].cb]
                /\ ~IsOpen(l[t]) => InterruptOpenTasks(l)[t] = l[t]
BY DEF InterruptOpenTasks, Rows, RowStates, Outcomes

-----------------------------------------------------------------------------
(* Types *)

(* The types hold when Portal first starts.                                *)
LEMMA TypedInit == Init => Typed
<1>1. NoRow \in Rows
  BY DEF NoRow, Rows, RowStates, CallbackStates
<1> QED
  <2> SUFFICES ASSUME Init PROVE Typed
    OBVIOUS
  <2> USE <1>1, BoundsAssumption DEF Init
  <2>1. /\ spawn \in [Tasks -> SpawnStates]
        /\ cb \in [Tasks -> CallbackStates]
        /\ run \in [Tasks -> RunStates]
    BY DEF SpawnStates, CallbackStates, RunStates
  <2>2. /\ key \in [Tasks -> Keys \cup {None}]
        /\ obj \in [Tasks -> Tasks \cup {None}]
        /\ sessionOf \in [Keys -> Tasks \cup {None}]
        /\ busy \in [Tasks -> Tasks \cup {None}]
        /\ active \in [Tasks -> BOOLEAN]
        /\ cancelled \in [Tasks -> BOOLEAN]
    OBVIOUS
  <2>3. /\ status \in [Tasks -> {"none", "Running"} \cup Outcomes]
        /\ outcome \in [Tasks -> Outcomes \cup {"none"}]
        /\ inbox \in [Tasks -> Reports \cup {"none"}]
        /\ asked \in [Tasks -> {"no", "checked", "flagged", "promised", "error"}]
    OBVIOUS
  <2>4. /\ ledger \in [Tasks -> Rows]
        /\ disk \in [Tasks -> Rows]
        /\ born \in [Tasks -> Nat]
        /\ posts \in [Tasks -> Nat]
        /\ forgot \in [Tasks -> Nat]
    OBVIOUS
  <2> QED
    BY <2>1, <2>2, <2>3, <2>4 DEF Typed

(* A save, whether it reaches the file or not, keeps the types of the rows. *)
LEMMA SavedTypes ==
    ASSUME Typed, NEW l \in [Tasks -> Rows], Save(l)
    PROVE  ledger' \in [Tasks -> Rows] /\ disk' \in [Tasks -> Rows] /\ saveFailed' \in BOOLEAN
BY DEF Typed, Save

(* Every step keeps the types.                                             *)
LEMMA TypedNext == Typed /\ [Next]_vars => Typed'
<1> SUFFICES ASSUME Typed, [Next]_vars PROVE Typed'
  OBVIOUS
<1> USE DEF Typed, spawnVars, sessionVars, taskVars, runVars, ledgerVars, stopVars,
            recVars, wakeVars, pastVars, rowVars
<1>1. ASSUME NEW t \in Tasks, NEW k \in Keys, SpawnBegin(t, k) PROVE Typed'
  BY <1>1 DEF SpawnBegin, SpawnStates
<1>2. ASSUME NEW t \in Tasks, SpawnLookup(t) PROVE Typed'
  <2>1. (IF sessionOf[key[t]] = None THEN t ELSE sessionOf[key[t]]) \in Tasks
    BY <1>2 DEF SpawnLookup
  <2> QED
    BY <1>2, <2>1 DEF SpawnLookup, SpawnStates
<1>3. ASSUME NEW t \in Tasks, SpawnOpened(t) PROVE Typed'
  BY <1>3 DEF SpawnOpened, SpawnStates, Opens, Save
<1>4. ASSUME NEW t \in Tasks, SpawnFails(t) PROVE Typed'
  <2>1. ledger' \in [Tasks -> Rows] /\ disk' \in [Tasks -> Rows] /\ saveFailed' \in BOOLEAN
    BY <1>4, SavedTypes DEF SpawnFails
  <2>2. active' \in [Tasks -> BOOLEAN]
    BY <1>4 DEF SpawnFails, Opens
  <2>3. /\ \E s \in {"refused", "dropped"} : spawn' = [spawn EXCEPT ![t] = s]
        /\ spawn[t] # "idle"
        /\ spawning' = spawning \ {key[t]} /\ permits' = permits + 1
        /\ UNCHANGED <<key, obj, sessionOf, busy, taskVars, runVars, born, asked,
                       stopVars, recVars, life, wakeVars, inbox, pastVars>>
    BY <1>4 DEF SpawnFails, ReleaseSpawn, InFlightStates
  <2> QED
    BY <2>1, <2>2, <2>3 DEF SpawnStates
<1>5. ASSUME NEW t \in Tasks, SpawnClaim(t) PROVE Typed'
  BY <1>5 DEF SpawnClaim, SpawnStates
<1>6. ASSUME NEW t \in Tasks, SpawnRefused(t) PROVE Typed'
  BY <1>6 DEF SpawnRefused, SpawnStates, ReleaseSpawn
<1>7. ASSUME NEW t \in Tasks, SpawnRegister(t) PROVE Typed'
  BY <1>7 DEF SpawnRegister, SpawnStates
<1>8. ASSUME NEW t \in Tasks, SpawnRecord(t) PROVE Typed'
  <2>1. 1 + Cardinality({u \in Tasks : born[u] > 0}) \in Nat
    <3>1. IsFiniteSet({u \in Tasks : born[u] > 0})
      BY FiniteAssumption, FS_Subset
    <3> QED
      BY <3>1, FS_CardinalityType
  <2>2. [ledger EXCEPT ![t] = [st |-> "Running", cb |-> "Pending"]] \in [Tasks -> Rows]
    BY DEF Rows, RowStates, CallbackStates
  <2>3. ledger' \in [Tasks -> Rows] /\ disk' \in [Tasks -> Rows] /\ saveFailed' \in BOOLEAN
    BY <1>8, <2>2, SavedTypes DEF SpawnRecord
  <2> QED
    BY <1>8, <2>1, <2>3 DEF SpawnRecord, SpawnStates
<1>9. ASSUME NEW t \in Tasks, SpawnLaunch(t) PROVE Typed'
  BY <1>9 DEF SpawnLaunch, SpawnStates, RunStates
<1>10. ASSUME NEW t \in Tasks, SpawnDropped(t) PROVE Typed'
  <2>1. ledger' \in [Tasks -> Rows] /\ disk' \in [Tasks -> Rows] /\ saveFailed' \in BOOLEAN
    BY <1>10, SavedTypes DEF SpawnDropped
  <2>2. active' \in [Tasks -> BOOLEAN]
    BY <1>10 DEF SpawnDropped, Opens
  <2>3. /\ \E s \in {"refused", "dropped"} : spawn' = [spawn EXCEPT ![t] = s]
        /\ spawn[t] # "idle"
        /\ spawning' = spawning \ {key[t]} /\ permits' = permits + 1
        /\ UNCHANGED <<key, obj, sessionOf, busy, taskVars, runVars, born, asked,
                       stopVars, recVars, life, wakeVars, inbox, pastVars>>
    BY <1>10 DEF SpawnDropped, ReleaseSpawn, InFlightStates
  <2> QED
    BY <2>1, <2>2, <2>3 DEF SpawnStates
<1>11. ASSUME NEW t \in Tasks, PromptSettles(t) PROVE Typed'
  BY <1>11 DEF PromptSettles, Settle, RunStates, Outcomes
<1>12. ASSUME NEW t \in Tasks, SocketLost(t) PROVE Typed'
  BY <1>12 DEF SocketLost, RunStates
<1>13. ASSUME NEW t \in Tasks, RecoveryEnds(t) PROVE Typed'
  BY <1>13 DEF RecoveryEnds, Settle, RunStates, Outcomes
<1>14. ASSUME NEW t \in Tasks, FinishStatus(t) PROVE Typed'
  BY <1>14 DEF FinishStatus, RunStates, CallbackStates
<1>15. ASSUME NEW t \in Tasks, FreeSession(t) PROVE Typed'
  BY <1>15 DEF FreeSession, RunStates
<1>16. ASSUME NEW t \in Tasks, FinishLedger(t) PROVE Typed'
  <2> DEFINE l == FinishTask(ledger, t, outcome[t])
             m == SetCallbackState(l, t, "Suppressed")
  <2>1. outcome[t] \in Outcomes
    BY <1>16 DEF FinishLedger
  <2>2. l \in [Tasks -> Rows]
    BY <2>1, FinishedRow, MarkedRow DEF CallbackStates
  <2>3. m \in [Tasks -> Rows]
    BY <2>1, <2>2, FinishedRow, MarkedRow DEF CallbackStates
  <2>4. Prune(l) \in [Tasks -> Rows] /\ Prune(m) \in [Tasks -> Rows]
    BY <2>2, <2>3, PruneRows
  <2>5. ledger' \in [Tasks -> Rows] /\ disk' \in [Tasks -> Rows] /\ saveFailed' \in BOOLEAN
    BY <1>16, <2>4 DEF FinishLedger, Save
  <2> QED
    <3>1. permits' \in Nat
      BY <1>16 DEF FinishLedger
    <3>2. \E r \in {"over", "unreported"} : run' = [run EXCEPT ![t] = r]
      BY <1>16 DEF FinishLedger
    <3>3. UNCHANGED <<spawnVars, sessionVars, taskVars, outcome, born, asked, stopVars,
                      recVars, life, wakeVars, inbox, pastVars>>
      BY <1>16 DEF FinishLedger
    <3> QED
      BY <2>1, <2>5, <3>1, <3>2, <3>3 DEF RunStates
<1>17. ASSUME NEW t \in Tasks, MarkSent(t) PROVE Typed'
  <2>1. SetCallbackState(ledger, t, "Sent") \in [Tasks -> Rows]
    BY FinishedRow, MarkedRow DEF CallbackStates, Outcomes
  <2> QED
    BY <1>17, <2>1 DEF MarkSent, RunStates, Save
<1>18. ASSUME NEW t \in Tasks, SendResult(t) PROVE Typed'
  BY <1>18 DEF SendResult, DeliverDetached, RunStates, CallbackStates, Reports
<1>19. ASSUME NEW t \in Tasks, ForgetTask(t) PROVE Typed'
  BY <1>19 DEF ForgetTask
<1>20. ASSUME NEW t \in Tasks, CancelCheck(t) \/ CancelFlag(t) \/ CancelAnswer(t) PROVE Typed'
  BY <1>20, ZenonT(60) DEF CancelCheck, CancelFlag, CancelAnswer
<1>21. ASSUME NEW o \in Tasks, SessionUnloaded(o) PROVE Typed'
  BY <1>21 DEF SessionUnloaded
<1>22. CASE StopBegin
  BY <1>22 DEF StopBegin
<1>23. CASE StopSnapshot
  BY <1>23 DEF StopSnapshot
<1>24. ASSUME NEW t \in Tasks, StopMark(t) PROVE Typed'
  BY <1>24 DEF StopMark
<1>25. CASE StopSave
  BY <1>25, PruneRows DEF StopSave, Save
<1>26. CASE Restart
  <2> USE <1>26 DEF Restart
  <2>1. spawn' \in [Tasks -> SpawnStates] /\ run' \in [Tasks -> RunStates]
    BY DEF SpawnStates, RunStates
  <2>2. cb' \in [Tasks -> CallbackStates]
    BY DEF CallbackStates
  <2>3. /\ obj' \in [Tasks -> Tasks \cup {None}]
        /\ sessionOf' \in [Keys -> Tasks \cup {None}]
        /\ busy' \in [Tasks -> Tasks \cup {None}]
        /\ active' \in [Tasks -> BOOLEAN]
        /\ cancelled' \in [Tasks -> BOOLEAN]
    OBVIOUS
  <2>4. /\ status' \in [Tasks -> {"none", "Running"} \cup Outcomes]
        /\ outcome' \in [Tasks -> Outcomes \cup {"none"}]
        /\ asked' \in [Tasks -> {"no", "checked", "flagged", "promised", "error"}]
    OBVIOUS
  <2>5. permits' \in Nat /\ life' \in Nat /\ forgot' \in [Tasks -> Nat]
    BY BoundsAssumption
  <2>6. \A t \in Tasks : /\ spawn'[t] # "idle" => key'[t] \in Keys
                        /\ run'[t] = "none"
    OBVIOUS
  <2> QED
    BY <2>1, <2>2, <2>3, <2>4, <2>5, <2>6
<1>27. CASE ReconcileScan \/ ReconcileDone
  BY <1>27 DEF ReconcileScan, ReconcileDone
<1>28. CASE ReconcileInterrupt
  <2>1. InterruptOpenTasks(ledger) \in [Tasks -> Rows]
    BY InterruptedRows
  <2>2. Prune(InterruptOpenTasks(ledger)) \in [Tasks -> Rows]
    BY <2>1, PruneRows
  <2>3. ledger' \in [Tasks -> Rows] /\ disk' \in [Tasks -> Rows] /\ saveFailed' \in BOOLEAN
    BY <1>28, <2>2, SavedTypes DEF ReconcileInterrupt
  <2> QED
    BY <1>28, <2>3 DEF ReconcileInterrupt, OpenRows
<1>29. ASSUME NEW t \in Tasks, ReconcileReport(t) PROVE Typed'
  <2>1. SetCallbackState(ledger, t, "Sent") \in [Tasks -> Rows]
    BY FinishedRow, MarkedRow DEF CallbackStates, Outcomes
  <2>2. ledger' \in [Tasks -> Rows] /\ disk' \in [Tasks -> Rows] /\ saveFailed' \in BOOLEAN
    BY <1>29, <2>1, SavedTypes DEF ReconcileReport
  <2>3. outbox' \subseteq Tasks \X Reports
    BY <1>29 DEF ReconcileReport, DeliverDetached, Reports
  <2>4. posts' \in [Tasks -> Nat]
    BY <1>29 DEF ReconcileReport, DeliverDetached
  <2>5. recTodo' \subseteq Tasks
    BY <1>29 DEF ReconcileReport
  <2>6. UNCHANGED <<spawnVars, permits, sessionVars, taskVars, runVars, born, asked, stopVars,
                    rec, life, inbox, pastVars>>
    BY <1>29 DEF ReconcileReport
  <2> HIDE <1>29
  <2> QED
    BY <2>2, <2>3, <2>4, <2>5, <2>6
<1>30. ASSUME NEW t \in Tasks, NEW r \in Reports, Delivered(t, r) \/ DeliveryLost(t, r) PROVE Typed'
  BY <1>30 DEF Delivered, DeliveryLost
<1>31. CASE UNCHANGED vars
  BY <1>31 DEF vars
<1>32. ASSUME NEW t \in Tasks, SpawnStep(t) PROVE Typed'
  BY <1>32, <1>2, <1>3, <1>4, <1>5, <1>6, <1>7, <1>8, <1>9 DEF SpawnStep
<1>33. ASSUME NEW t \in Tasks, RunStep(t) PROVE Typed'
  BY <1>33, <1>11, <1>13, <1>14, <1>15, <1>16, <1>17, <1>18 DEF RunStep
<1> QED
  BY <1>1, <1>10, <1>12, <1>19, <1>20, <1>21, <1>22, <1>23, <1>24, <1>25, <1>26, <1>27,
     <1>28, <1>29, <1>30, <1>31, <1>32, <1>33
     DEF Next, CancelStep, StopStep, ReconcileStep

-----------------------------------------------------------------------------
(* Sessions and permits                                                     *)
(*                                                                          *)
(* OneTaskPerSession is not inductive: it needs that spawns in flight have  *)
(* distinct keys (the guard), that a key has one session object, and that   *)
(* a call past ensure_session works with that object.                       *)

RunsAreLaunched == \A t \in Tasks : run[t] # "none" => spawn[t] = "launched"
GuardsHeld ==
    \A t \in InFlightSpawns :
        /\ key[t] \in spawning
        /\ \A u \in InFlightSpawns : key[t] = key[u] => t = u
ObjectsOwned ==
    \A k \in Keys : sessionOf[k] # None =>
        /\ key[sessionOf[k]] = k
        /\ spawn[sessionOf[k]] \notin {"idle", "begun", "opening"}
ObjectsFound ==
    \A t \in Tasks :
        /\ spawn[t] = "opening" =>
            /\ obj[t] \in Tasks
            /\ obj[t] = sessionOf[key[t]] \/ (obj[t] = t /\ sessionOf[key[t]] = None)
        /\ spawn[t] \in {"opened", "claimed", "registered", "recorded", "launched"} =>
            /\ obj[t] \in Tasks
            /\ obj[t] = sessionOf[key[t]]
ActiveObjects == \A o \in Tasks : active[o] => spawn[o] \notin {"idle", "begun"}
HoldersBusy == \A t \in Tasks : Holds(t) => busy[obj[t]] = t

ClaimInv ==
    RunsAreLaunched /\ GuardsHeld /\ ObjectsOwned /\ ObjectsFound /\ ActiveObjects /\ HoldersBusy

(* No session is claimed at first.                                         *)
LEMMA ClaimInit == Init => ClaimInv
BY DEF Init, ClaimInv, RunsAreLaunched, GuardsHeld, ObjectsOwned, ObjectsFound, ActiveObjects,
       HoldersBusy, Holds, InFlightSpawns, InFlightStates

(* The steps that touch none of the variables ClaimInv speaks about.       *)
LEMMA ClaimStutter ==
    ClaimInv /\ UNCHANGED <<spawnVars, sessionVars, run>> => ClaimInv'
BY DEF spawnVars, sessionVars, ClaimInv, RunsAreLaunched, GuardsHeld, ObjectsOwned,
       ObjectsFound, ActiveObjects, HoldersBusy, Holds, InFlightSpawns, InFlightStates

(* A run moves from one place to another that holds the session the same.  *)
LEMMA ClaimRunMoves ==
    ASSUME Typed, ClaimInv, NEW t \in Tasks, NEW r \in RunStates,
           run[t] # "none", run' = [run EXCEPT ![t] = r],
           r \in {"prompting", "recovering", "settled", "marked"} => Holds(t),
           UNCHANGED <<spawnVars, sessionVars>>
    PROVE  ClaimInv'
BY DEF Typed, spawnVars, sessionVars, ClaimInv, RunsAreLaunched, GuardsHeld, ObjectsOwned,
       ObjectsFound, ActiveObjects, HoldersBusy, Holds, InFlightSpawns, InFlightStates

(* Every step keeps who has claimed which session.                         *)
LEMMA ClaimNext == Typed /\ ClaimInv /\ [Next]_vars => ClaimInv'
<1> SUFFICES ASSUME Typed, ClaimInv, [Next]_vars PROVE ClaimInv'
  OBVIOUS
<1> USE DEF spawnVars, sessionVars, taskVars, runVars, ledgerVars, rowVars, stopVars, recVars,
            wakeVars, pastVars
<1>1. ASSUME NEW t \in Tasks, NEW k \in Keys, SpawnBegin(t, k) PROVE ClaimInv'
  BY <1>1 DEF SpawnBegin, Typed, ClaimInv, RunsAreLaunched, GuardsHeld, ObjectsOwned,
     ObjectsFound,
     ActiveObjects, HoldersBusy, Holds, InFlightSpawns, InFlightStates
<1>2. ASSUME NEW t \in Tasks, SpawnLookup(t) PROVE ClaimInv'
  BY <1>2 DEF SpawnLookup, Typed, ClaimInv, RunsAreLaunched, GuardsHeld, ObjectsOwned,
     ObjectsFound,
     ActiveObjects, HoldersBusy, Holds, InFlightSpawns, InFlightStates
<1>3. ASSUME NEW t \in Tasks, SpawnOpened(t) PROVE ClaimInv'
  <2> USE <1>3 DEF SpawnOpened, Opens, Typed, ClaimInv
  <2>1. RunsAreLaunched' /\ GuardsHeld'
    BY DEF RunsAreLaunched, GuardsHeld, InFlightSpawns, InFlightStates
  <2>2. ObjectsOwned'
    BY DEF ObjectsOwned, ObjectsFound
  <2>3. ObjectsFound'
    <3>1. obj[t] \in Tasks /\ obj'[t] = obj[t] /\ sessionOf'[key[t]] = obj[t]
      BY DEF ObjectsFound
    <3>2. ASSUME NEW u \in Tasks, u # t, spawn[u] # "idle"
          PROVE  \/ sessionOf'[key[u]] = sessionOf[key[u]]
                 \/ key[u] = key[t] /\ sessionOf[key[u]] = None
      BY <3>2 DEF ObjectsFound, ObjectsOwned
    <3>3. ASSUME NEW u \in Tasks, u # t, spawn[u] = "opening" PROVE key[u] # key[t]
      BY <3>3 DEF GuardsHeld, InFlightSpawns, InFlightStates
    <3> QED
      BY <3>1, <3>2, <3>3, NoneAssumption DEF ObjectsFound
  <2>4. ActiveObjects'
    BY NoneAssumption DEF ActiveObjects, ObjectsFound, ObjectsOwned
  <2>5. HoldersBusy'
    BY DEF HoldersBusy, Holds
  <2> QED
    BY <2>1, <2>2, <2>3, <2>4, <2>5
<1>4. ASSUME NEW t \in Tasks, SpawnFails(t) \/ SpawnDropped(t) PROVE ClaimInv'
  <2>0. \/ UNCHANGED active
        \/ spawn[t] = "opening" /\ active' = [active EXCEPT ![obj[t]] = TRUE]
    BY <1>4 DEF SpawnFails, SpawnDropped, Opens
  <2>00. /\ spawn[t] \in InFlightStates
         /\ \E s \in {"refused", "dropped"} : spawn' = [spawn EXCEPT ![t] = s]
         /\ spawning' = spawning \ {key[t]}
         /\ UNCHANGED <<key, obj, sessionOf, busy, run>>
    BY <1>4 DEF SpawnFails, SpawnDropped, ReleaseSpawn, InFlightStates
  <2> USE <2>00 DEF Typed, ClaimInv
  <2>1. RunsAreLaunched' /\ GuardsHeld'
    BY DEF RunsAreLaunched, GuardsHeld, InFlightSpawns, InFlightStates
  <2>2. ObjectsOwned' /\ ObjectsFound'
    BY DEF ObjectsOwned, ObjectsFound
  <2>4. ActiveObjects'
    <3>1. CASE UNCHANGED active
      BY <3>1 DEF ActiveObjects
    <3>2. CASE spawn[t] = "opening" /\ active' = [active EXCEPT ![obj[t]] = TRUE]
      <4>1. obj[t] \in Tasks /\ spawn'[obj[t]] \notin {"idle", "begun"}
        BY <3>2, NoneAssumption DEF ObjectsFound, ObjectsOwned
      <4>2. \A o \in Tasks \ {obj[t]} : active'[o] = active[o]
        BY <3>2, <4>1
      <4> QED
        BY <3>2, <4>1, <4>2 DEF ActiveObjects
    <3> QED
      BY <2>0, <3>1, <3>2
  <2>5. HoldersBusy'
    BY DEF HoldersBusy, Holds, InFlightStates
  <2> QED
    BY <2>1, <2>2, <2>4, <2>5
<1>5. ASSUME NEW t \in Tasks, SpawnClaim(t) PROVE ClaimInv'
  BY <1>5, NoneAssumption DEF SpawnClaim, Typed, ClaimInv, RunsAreLaunched, GuardsHeld,
     ObjectsOwned, ObjectsFound,
     ActiveObjects, HoldersBusy, Holds, InFlightSpawns, InFlightStates
<1>6. ASSUME NEW t \in Tasks, SpawnRefused(t) PROVE ClaimInv'
  BY <1>6 DEF SpawnRefused, ReleaseSpawn, Typed, ClaimInv, RunsAreLaunched, GuardsHeld,
     ObjectsOwned, ObjectsFound,
     ActiveObjects, HoldersBusy, Holds, InFlightSpawns, InFlightStates
<1>7. ASSUME NEW t \in Tasks, SpawnRegister(t) \/ SpawnRecord(t) PROVE ClaimInv'
  BY <1>7 DEF SpawnRegister, SpawnRecord, Typed, ClaimInv, RunsAreLaunched, GuardsHeld,
     ObjectsOwned, ObjectsFound,
     ActiveObjects, HoldersBusy, Holds, InFlightSpawns, InFlightStates
<1>9. ASSUME NEW t \in Tasks, SpawnLaunch(t) PROVE ClaimInv'
  BY <1>9 DEF SpawnLaunch, Typed, ClaimInv, RunsAreLaunched, GuardsHeld, ObjectsOwned,
     ObjectsFound,
     ActiveObjects, HoldersBusy, Holds, InFlightSpawns, InFlightStates
<1>11. ASSUME NEW t \in Tasks, PromptSettles(t) \/ SocketLost(t) \/ RecoveryEnds(t) \/ FinishStatus(t)
       PROVE ClaimInv'
  BY <1>11, ClaimRunMoves DEF PromptSettles, SocketLost, RecoveryEnds, FinishStatus, Settle,
     Holds, RunStates
<1>15. ASSUME NEW t \in Tasks, FreeSession(t) PROVE ClaimInv'
  BY <1>15, NoneAssumption DEF FreeSession, Typed, ClaimInv, RunsAreLaunched, GuardsHeld,
     ObjectsOwned, ObjectsFound,
     ActiveObjects, HoldersBusy, Holds, InFlightSpawns, InFlightStates
<1>16. ASSUME NEW t \in Tasks, FinishLedger(t) PROVE ClaimInv'
  <2>1. PICK r \in {"over", "unreported"} : run' = [run EXCEPT ![t] = r]
    BY <1>16 DEF FinishLedger
  <2> QED
    BY <1>16, <2>1, ClaimRunMoves DEF FinishLedger, RunStates
<1>17. ASSUME NEW t \in Tasks, MarkSent(t) \/ SendResult(t) PROVE ClaimInv'
  BY <1>17, ClaimRunMoves DEF MarkSent, SendResult, RunStates
<1>21. ASSUME NEW o \in Tasks, SessionUnloaded(o) PROVE ClaimInv'
  BY <1>21 DEF SessionUnloaded, Typed, ClaimInv, RunsAreLaunched, GuardsHeld, ObjectsOwned,
     ObjectsFound,
     ActiveObjects, HoldersBusy, Holds, InFlightSpawns, InFlightStates
<1>26. CASE Restart
  BY <1>26 DEF Restart, Typed, ClaimInv, RunsAreLaunched, GuardsHeld, ObjectsOwned, ObjectsFound,
     ActiveObjects, HoldersBusy, Holds, InFlightSpawns, InFlightStates
<1>30. ASSUME NEW t \in Tasks,
              \/ ForgetTask(t) \/ CancelCheck(t) \/ CancelFlag(t) \/ CancelAnswer(t)
              \/ StopMark(t) \/ ReconcileReport(t)
              \/ \E r \in Reports : Delivered(t, r) \/ DeliveryLost(t, r)
       PROVE ClaimInv'
  BY <1>30, ClaimStutter DEF ForgetTask, CancelCheck, CancelFlag, CancelAnswer, StopMark,
     ReconcileReport, Delivered, DeliveryLost
<1>31. CASE \/ StopBegin \/ StopSnapshot \/ StopSave \/ ReconcileScan \/ ReconcileInterrupt
            \/ ReconcileDone \/ UNCHANGED vars
  BY <1>31, ClaimStutter DEF StopBegin, StopSnapshot, StopSave, ReconcileScan, ReconcileInterrupt,
     ReconcileDone, vars
<1> QED
  BY <1>1, <1>2, <1>3, <1>4, <1>5, <1>6, <1>7, <1>9, <1>11, <1>15, <1>16, <1>17, <1>21,
     <1>26, <1>30, <1>31
     DEF Next, SpawnStep, RunStep, CancelStep, StopStep, ReconcileStep

(* Two tasks never work in one session at the same time: SubagentManager's *)
(* spawning guard and busy_task claim, for any number of tasks and keys.   *)
THEOREM SessionSafety == Spec => []OneTaskPerSession
<1>1. Typed /\ ClaimInv => OneTaskPerSession
  BY DEF Typed, ClaimInv, RunsAreLaunched, ObjectsFound, HoldersBusy, Holds, OneTaskPerSession
<1> QED
  BY <1>1, TypedInit, TypedNext, ClaimInit, ClaimNext, PTL DEF Spec

-----------------------------------------------------------------------------
(* Permits: each one is free, in a spawn call or in a run.                 *)

(* The holders of permits can be counted.                                  *)
LEMMA HoldersFinite ==
    /\ IsFiniteSet(InFlightSpawns) /\ Cardinality(InFlightSpawns) \in Nat
    /\ IsFiniteSet(LiveRuns) /\ Cardinality(LiveRuns) \in Nat
<1>1. IsFiniteSet(InFlightSpawns) /\ IsFiniteSet(LiveRuns)
  BY FiniteAssumption, FS_Subset DEF InFlightSpawns, LiveRuns
<1> QED
  BY <1>1, FS_CardinalityType

(* Adding or removing one element of a finite set.                         *)
LEMMA CountOne ==
    ASSUME NEW S, IsFiniteSet(S), NEW x
    PROVE  /\ x \notin S => Cardinality(S \cup {x}) = Cardinality(S) + 1
           /\ x \in S => Cardinality(S \ {x}) = Cardinality(S) - 1
BY FS_AddElement, FS_RemoveElement

(* All permits are free at first.                                          *)
LEMMA PermitsInit == Init => PermitsExact
<1> SUFFICES ASSUME Init PROVE PermitsExact
  OBVIOUS
<1>1. InFlightSpawns = {} /\ LiveRuns = {}
  BY DEF Init, InFlightSpawns, LiveRuns, InFlightStates, LiveRunStates
<1> QED
  BY <1>1, FS_EmptySet, BoundsAssumption DEF Init, PermitsExact

(* A step takes or gives back one permit with one holder.                  *)
LEMMA PermitsNext == Typed /\ ClaimInv /\ PermitsExact /\ [Next]_vars => PermitsExact'
<1> SUFFICES ASSUME Typed, ClaimInv, PermitsExact, [Next]_vars PROVE PermitsExact'
  OBVIOUS
<1> USE HoldersFinite DEF spawnVars, sessionVars, taskVars, runVars, ledgerVars, stopVars,
        recVars, wakeVars, pastVars, rowVars
<1>0. permits \in Nat
  BY DEF Typed
<1>1. ASSUME NEW t \in Tasks, NEW k \in Keys, SpawnBegin(t, k) PROVE PermitsExact'
  <2>1. t \notin InFlightSpawns /\ InFlightSpawns' = InFlightSpawns \cup {t}
    BY <1>1 DEF SpawnBegin, Typed, InFlightSpawns, InFlightStates
  <2>2. LiveRuns' = LiveRuns
    BY <1>1 DEF SpawnBegin, LiveRuns
  <2> QED
    BY <1>0, <1>1, <2>1, <2>2, CountOne DEF SpawnBegin, PermitsExact
<1>2. ASSUME NEW t \in Tasks, SpawnFails(t) \/ SpawnRefused(t) \/ SpawnDropped(t)
      PROVE  PermitsExact'
  <2>1. t \in InFlightSpawns /\ InFlightSpawns' = InFlightSpawns \ {t}
    BY <1>2 DEF SpawnFails, SpawnRefused, SpawnDropped, Typed, InFlightSpawns, InFlightStates
  <2>2. LiveRuns' = LiveRuns
    BY <1>2 DEF SpawnFails, SpawnRefused, SpawnDropped, LiveRuns
  <2>3. permits' = permits + 1
    BY <1>2 DEF SpawnFails, SpawnRefused, SpawnDropped, ReleaseSpawn
  <2> QED
    BY <1>0, <2>1, <2>2, <2>3, CountOne DEF PermitsExact
<1>3. ASSUME NEW t \in Tasks, SpawnLaunch(t) PROVE PermitsExact'
  <2>1. t \in InFlightSpawns /\ InFlightSpawns' = InFlightSpawns \ {t}
    BY <1>3 DEF SpawnLaunch, Typed, InFlightSpawns, InFlightStates
  <2>2. t \notin LiveRuns /\ LiveRuns' = LiveRuns \cup {t}
    BY <1>3 DEF SpawnLaunch, Typed, ClaimInv, RunsAreLaunched, LiveRuns, LiveRunStates, RunStates
  <2> QED
    BY <1>0, <1>3, <2>1, <2>2, CountOne DEF SpawnLaunch, PermitsExact
<1>4. ASSUME NEW t \in Tasks, run' = [run EXCEPT ![t] = "over"], permits' = permits + 1,
             run[t] \in LiveRunStates, UNCHANGED spawnVars
      PROVE  PermitsExact'
  <2>1. t \in LiveRuns /\ LiveRuns' = LiveRuns \ {t}
    BY <1>4 DEF Typed, LiveRuns, LiveRunStates, RunStates
  <2>2. InFlightSpawns' = InFlightSpawns
    BY <1>4 DEF InFlightSpawns
  <2> QED
    BY <1>0, <1>4, <2>1, <2>2, CountOne DEF PermitsExact
<1>5. ASSUME NEW t \in Tasks, NEW r \in LiveRunStates, run' = [run EXCEPT ![t] = r],
             run[t] \in LiveRunStates, UNCHANGED <<spawnVars, permits>>
      PROVE  PermitsExact'
  <2>1. LiveRuns' = LiveRuns
    BY <1>5 DEF Typed, LiveRuns
  <2>2. InFlightSpawns' = InFlightSpawns
    BY <1>5 DEF InFlightSpawns
  <2> QED
    BY <1>5, <2>1, <2>2 DEF PermitsExact
<1>6. ASSUME NEW t \in Tasks, FinishLedger(t) PROVE PermitsExact'
  <2>1. \/ run' = [run EXCEPT ![t] = "over"] /\ permits' = permits + 1
        \/ run' = [run EXCEPT ![t] = "unreported"] /\ permits' = permits
    BY <1>6 DEF FinishLedger
  <2>2. run[t] \in LiveRunStates /\ "unreported" \in LiveRunStates /\ UNCHANGED spawnVars
    BY <1>6 DEF FinishLedger, LiveRunStates, RunStates
  <2> QED
    BY <2>1, <2>2, <1>4, <1>5
<1>7. ASSUME NEW t \in Tasks, SendResult(t) PROVE PermitsExact'
  BY <1>7, <1>4 DEF SendResult, LiveRunStates, RunStates
<1>8. ASSUME NEW t \in Tasks,
             \/ PromptSettles(t) \/ SocketLost(t) \/ RecoveryEnds(t) \/ FinishStatus(t)
             \/ FreeSession(t) \/ MarkSent(t)
      PROVE  PermitsExact'
  BY <1>8, <1>5 DEF PromptSettles, SocketLost, RecoveryEnds, FinishStatus, FreeSession, MarkSent,
     Settle, LiveRunStates, RunStates
<1>9. ASSUME NEW t \in Tasks,
             \/ SpawnLookup(t) \/ SpawnOpened(t) \/ SpawnClaim(t) \/ SpawnRegister(t)
             \/ SpawnRecord(t)
      PROVE  PermitsExact'
  <2>1. InFlightSpawns' = InFlightSpawns
    BY <1>9 DEF SpawnLookup, SpawnOpened, SpawnClaim, SpawnRegister, SpawnRecord, Typed,
       InFlightSpawns, InFlightStates
  <2>2. LiveRuns' = LiveRuns /\ permits' = permits
    BY <1>9 DEF SpawnLookup, SpawnOpened, SpawnClaim, SpawnRegister, SpawnRecord, LiveRuns
  <2> QED
    BY <2>1, <2>2 DEF PermitsExact
<1>10. CASE Restart
  <2>1. InFlightSpawns' = {} /\ LiveRuns' = {}
    BY <1>10 DEF Restart, InFlightSpawns, LiveRuns, InFlightStates, LiveRunStates
  <2> QED
    BY <1>10, <2>1, FS_EmptySet, BoundsAssumption DEF Restart, PermitsExact
<1>11. ASSUME UNCHANGED <<spawnVars, run, permits>> PROVE PermitsExact'
  BY <1>11 DEF PermitsExact, InFlightSpawns, LiveRuns
<1>12. ASSUME NEW t \in Tasks,
              \/ ForgetTask(t) \/ CancelCheck(t) \/ CancelFlag(t) \/ CancelAnswer(t)
              \/ SessionUnloaded(t) \/ StopMark(t) \/ ReconcileReport(t)
              \/ \E r \in Reports : Delivered(t, r) \/ DeliveryLost(t, r)
       PROVE PermitsExact'
  BY <1>12, <1>11 DEF ForgetTask, CancelCheck, CancelFlag, CancelAnswer, SessionUnloaded,
     StopMark,
     ReconcileReport, Delivered, DeliveryLost
<1>13. CASE \/ StopBegin \/ StopSnapshot \/ StopSave \/ ReconcileScan \/ ReconcileInterrupt
            \/ ReconcileDone \/ UNCHANGED vars
  BY <1>13, <1>11 DEF StopBegin, StopSnapshot, StopSave, ReconcileScan, ReconcileInterrupt,
     ReconcileDone, vars
<1> QED
  BY <1>1, <1>2, <1>3, <1>6, <1>7, <1>8, <1>9, <1>10, <1>12, <1>13
     DEF Next, SpawnStep, RunStep, CancelStep, StopStep, ReconcileStep

(* No exit path of spawn() or run_task leaks a permit or returns one twice. *)
THEOREM PermitSafety == Spec => []PermitsExact
BY TypedInit, TypedNext, ClaimInit, ClaimNext, PermitsInit, PermitsNext, PTL DEF Spec

(* Type correctness.                                                        *)
THEOREM TypeCorrect == Spec => []TypeOK
<1>1. Typed /\ PermitsExact => TypeOK
  BY HoldersFinite, BoundsAssumption DEF TypeOK, Typed, PermitsExact
<1> QED
  BY <1>1, TypedInit, TypedNext, PermitSafety, PTL DEF Spec

-----------------------------------------------------------------------------
(* Rows and wakes                                                           *)
(*                                                                          *)
(* That nobody is woken twice needs the whole order of the steps on the     *)
(* ledger: a row appears only with its spawn, stays open while the run may  *)
(* still report, is closed before anything is posted, and reconcile posts   *)
(* only rows of earlier lives.  None of it is claimed of `early` tasks.     *)

RowsHaveSpawns ==
    \A t \in Tasks : ledger[t] # NoRow => spawn[t] \in {"recorded", "launched", "dropped", "gone"}
RecordedAfterReconcile ==
    \A t \in Tasks \ early :
        ledger[t] # NoRow /\ spawn[t] # "gone" => rec \in {"report", "done"}
OpenUntilFinished ==
    \A t \in Tasks \ early :
        \/ spawn[t] = "recorded"
        \/ run[t] \in {"prompting", "recovering", "settled", "marked", "freed"}
        => IsOpen(ledger[t])
OpenRowsPending == \A t \in Tasks \ early : IsOpen(ledger[t]) => ledger[t].cb = "Pending"
ClosedBeforeSending ==
    \A t \in Tasks \ early :
        run[t] \in {"unreported", "sending"} => ~IsOpen(ledger[t]) /\ ledger[t].cb # "Suppressed"
PostedAtTheEnd ==
    \A t \in Tasks \ early : posts[t] > 0 => spawn[t] = "gone" \/ run[t] = "over"
OrphansUnposted ==
    \A t \in recTodo \ early :
        /\ posts[t] <= forgot[t]
        /\ spawn[t] = "gone"
        /\ ~IsOpen(ledger[t])
        /\ ledger[t].cb = "Pending"
ReportedClosed ==
    \A t \in Tasks \ early :
        posts[t] > forgot[t] => ~IsOpen(ledger[t]) /\ ledger[t].cb # "Suppressed"

WakeInv ==
    /\ RowsHaveSpawns /\ RecordedAfterReconcile /\ OpenUntilFinished /\ OpenRowsPending
    /\ ClosedBeforeSending /\ PostedAtTheEnd /\ OrphansUnposted
    /\ WakeAtMostOnce /\ ReportedClosed

(* What a restart finds: the file differs from memory only after a failed   *)
(* save, and then it holds an earlier row of each task, which memory has    *)
(* moved forward from.                                                      *)

Forward(t, x, y) ==
    /\ x.st \in Outcomes =>
        y = NoRow \/ y.st = x.st \/ (t \in early /\ y.st \in Outcomes)
    /\ x.cb # "Pending" /\ t \notin early => y.cb = x.cb \/ y = NoRow

FileCurrent == ~saveFailed => ledger = disk
FileRowsHaveSpawns ==
    \A t \in Tasks : disk[t] # NoRow => spawn[t] \in {"recorded", "launched", "dropped", "gone"}
FileOpenRowsPending == \A t \in Tasks \ early : IsOpen(disk[t]) => disk[t].cb = "Pending"
FileBehind == \A t \in Tasks : Forward(t, disk[t], ledger[t])

FileInv == FileCurrent /\ FileRowsHaveSpawns /\ FileOpenRowsPending /\ FileBehind

(* No row, no report.                                                      *)
LEMMA WakeInit == Init => WakeInv
BY DEF Init, WakeInv, RowsHaveSpawns, RecordedAfterReconcile, OpenUntilFinished,
       OpenRowsPending, ClosedBeforeSending, PostedAtTheEnd, OrphansUnposted, WakeAtMostOnce,
       ReportedClosed, IsOpen, NoRow

(* Steps that leave rows, posts and reconcile alone, move the spawn call   *)
(* of one task without reaching or leaving a state with a row, and move    *)
(* no run.                                                                 *)
LEMMA WakeSpawnMoves ==
    ASSUME Typed, ClaimInv, WakeInv, NEW t \in Tasks, NEW s \in SpawnStates \ {"recorded", "gone"},
           spawn' = [spawn EXCEPT ![t] = s],
           spawn[t] \in {"idle", "begun", "opening", "opened", "claimed"} \/
             (s = "dropped" /\ spawn[t] \in InFlightStates),
           UNCHANGED <<run, ledger, rec, recTodo, posts, pastVars>>
    PROVE  WakeInv'
BY DEF pastVars, Typed, ClaimInv, RunsAreLaunched, InFlightStates, WakeInv, RowsHaveSpawns,
   RecordedAfterReconcile,
          OpenUntilFinished, OpenRowsPending,
     ClosedBeforeSending, PostedAtTheEnd, OrphansUnposted, WakeAtMostOnce, ReportedClosed

(* Steps of one run before its row is closed.                              *)
LEMMA WakeRunMoves ==
    ASSUME Typed, ClaimInv, WakeInv, NEW t \in Tasks,
           NEW r \in {"recovering", "settled", "marked", "freed"},
           run' = [run EXCEPT ![t] = r],
           run[t] \in {"prompting", "recovering", "settled", "marked"},
           UNCHANGED <<spawn, ledger, rec, recTodo, posts, pastVars>>
    PROVE  WakeInv'
BY DEF pastVars, Typed, ClaimInv, RunsAreLaunched, WakeInv, RowsHaveSpawns,
   RecordedAfterReconcile, OpenUntilFinished, OpenRowsPending,
     ClosedBeforeSending, PostedAtTheEnd, OrphansUnposted, WakeAtMostOnce, ReportedClosed

(* What touches neither rows nor their reports keeps the invariant.        *)
LEMMA WakeStutter ==
    WakeInv /\ UNCHANGED <<spawn, run, ledger, rec, recTodo, posts, pastVars>> => WakeInv'
BY DEF pastVars, WakeInv, RowsHaveSpawns, RecordedAfterReconcile, OpenUntilFinished,
   OpenRowsPending,
     ClosedBeforeSending, PostedAtTheEnd, OrphansUnposted, WakeAtMostOnce, ReportedClosed

(* Steps that only prune.                                                  *)
LEMMA WakePrunes ==
    ASSUME Typed, ClaimInv, WakeInv, Save(Prune(ledger)),
           UNCHANGED <<spawn, run, rec, recTodo, posts, pastVars>>
    PROVE  WakeInv'
<1>1. \A t \in Tasks : /\ ledger'[t] = ledger[t] \/ ledger'[t] = NoRow
                       /\ IsOpen(ledger[t]) => ledger'[t] = ledger[t]
  BY PruneRows DEF Save, Typed
<1>3. RowsHaveSpawns'
  BY <1>1 DEF pastVars, WakeInv, RowsHaveSpawns, IsOpen, NoRow
<1>4. RecordedAfterReconcile'
  BY <1>1 DEF pastVars, WakeInv, RecordedAfterReconcile, IsOpen, NoRow
<1>5. OpenUntilFinished'
  BY <1>1 DEF pastVars, WakeInv, OpenUntilFinished, IsOpen, NoRow
<1>6. OpenRowsPending'
  BY <1>1 DEF pastVars, WakeInv, OpenRowsPending, IsOpen, NoRow
<1>7. ClosedBeforeSending'
  BY <1>1 DEF pastVars, WakeInv, ClosedBeforeSending, IsOpen, NoRow
<1>8. PostedAtTheEnd'
  BY <1>1 DEF pastVars, WakeInv, PostedAtTheEnd, IsOpen, NoRow
<1>9. OrphansUnposted'
  BY <1>1 DEF pastVars, WakeInv, OrphansUnposted, IsOpen, NoRow, Typed
<1>10. WakeAtMostOnce'
  BY <1>1 DEF pastVars, WakeInv, WakeAtMostOnce, PostedAtTheEnd, OrphansUnposted, OpenUntilFinished,
     IsOpen, NoRow
<1>11. ReportedClosed'
  BY <1>1 DEF pastVars, WakeInv, ReportedClosed, ClosedBeforeSending, OrphansUnposted, IsOpen, NoRow
<1> QED
  BY <1>3, <1>4, <1>5, <1>6, <1>7, <1>8, <1>9, <1>10, <1>11 DEF WakeInv

(* Every step keeps what the stages say of the rows.                       *)
LEMMA WakeNext == Typed /\ ClaimInv /\ WakeInv /\ FileInv /\ [Next]_vars => WakeInv'
<1> SUFFICES ASSUME Typed, ClaimInv, WakeInv, FileInv, [Next]_vars PROVE WakeInv'
  OBVIOUS
<1> USE DEF spawnVars, sessionVars, taskVars, runVars, ledgerVars, rowVars, stopVars, recVars,
            wakeVars, pastVars
<1>1. ASSUME NEW t \in Tasks, NEW k \in Keys, SpawnBegin(t, k) PROVE WakeInv'
  BY <1>1, WakeSpawnMoves DEF SpawnBegin, SpawnStates
<1>2. ASSUME NEW t \in Tasks,
             \/ SpawnLookup(t) \/ SpawnOpened(t) \/ SpawnFails(t) \/ SpawnClaim(t)
             \/ SpawnRefused(t) \/ SpawnRegister(t) \/ SpawnDropped(t)
      PROVE  WakeInv'
  BY <1>2, WakeSpawnMoves DEF SpawnLookup, SpawnOpened, SpawnFails, SpawnClaim, SpawnRefused,
     SpawnRegister, SpawnDropped, Opens, Save, SpawnStates
<1>3. ASSUME NEW t \in Tasks, SpawnRecord(t) PROVE WakeInv'
  BY <1>3 DEF SpawnRecord, Save, IsOpen, NoRow, Typed, ClaimInv, RunsAreLaunched, WakeInv,
     RowsHaveSpawns, RecordedAfterReconcile, OpenUntilFinished, OpenRowsPending,
     ClosedBeforeSending, PostedAtTheEnd, OrphansUnposted, WakeAtMostOnce, ReportedClosed
<1>4. ASSUME NEW t \in Tasks, SpawnLaunch(t) PROVE WakeInv'
  BY <1>4 DEF SpawnLaunch, Typed, ClaimInv, RunsAreLaunched, WakeInv, RowsHaveSpawns, RecordedAfterReconcile, OpenUntilFinished, OpenRowsPending,
     ClosedBeforeSending, PostedAtTheEnd, OrphansUnposted, WakeAtMostOnce, ReportedClosed
<1>5. ASSUME NEW t \in Tasks,
             \/ PromptSettles(t) \/ SocketLost(t) \/ RecoveryEnds(t) \/ FinishStatus(t)
             \/ FreeSession(t)
      PROVE  WakeInv'
  BY <1>5, WakeRunMoves DEF PromptSettles, SocketLost, RecoveryEnds, FinishStatus, FreeSession,
     Settle
<1>6. ASSUME NEW t \in Tasks, FinishLedger(t) PROVE WakeInv'
  <2> DEFINE l == FinishTask(ledger, t, outcome[t])
             m == SetCallbackState(l, t, "Suppressed")
             n == IF outcome[t] = "Cancelled" THEN m ELSE l
  <2>1. outcome[t] \in Outcomes /\ run[t] = "freed" /\ spawn[t] = "launched"
    BY <1>6 DEF FinishLedger, Typed, ClaimInv, RunsAreLaunched
  <2>2. l \in [Tasks -> Rows] /\ m \in [Tasks -> Rows] /\ n \in [Tasks -> Rows]
    <3>1. l \in [Tasks -> Rows]
      BY <2>1, FinishedRow DEF Typed
    <3>2. m \in [Tasks -> Rows]
      BY <3>1, MarkedRow DEF CallbackStates
    <3> QED
      BY <3>1, <3>2
  <2>3. \A u \in Tasks \ {t} : n[u] = ledger[u]
    <3>1. \A u \in Tasks \ {t} : l[u] = ledger[u]
      <4>1. ledger \in [Tasks -> Rows]
        BY DEF Typed
      <4> QED
        BY <2>1, <4>1, FinishedRow
    <3>2. \A u \in Tasks \ {t} : m[u] = l[u]
      BY <2>2, MarkedRow DEF CallbackStates
    <3> HIDE DEF l, m
    <3> QED
      BY <3>1, <3>2
  <2>4. /\ ~IsOpen(n[t])
        /\ n[t] # NoRow => ledger[t] # NoRow
        /\ n[t].cb = ledger[t].cb \/ (outcome[t] = "Cancelled" /\ n[t].cb = "Suppressed")
    <3>1. \/ l[t] = NoRow /\ ledger[t] = NoRow
          \/ ledger[t] # NoRow /\ l[t] = [st |-> outcome[t], cb |-> ledger[t].cb]
      BY <2>1, FinishedRow, ledger \in [Tasks -> Rows] DEF Typed
    <3>2. \/ m[t] = NoRow /\ l[t] = NoRow
          \/ l[t] # NoRow /\ m[t] = [st |-> l[t].st, cb |-> "Suppressed"]
      BY <2>2, MarkedRow DEF CallbackStates
    <3>3. l[t] \in Rows /\ ledger[t] \in Rows
      BY <2>2 DEF Typed
    <3> HIDE DEF l, m
    <3>4. CASE outcome[t] = "Cancelled"
      BY <2>1, <3>1, <3>2, <3>4 DEF n, IsOpen, NoRow, Outcomes
    <3>5. CASE outcome[t] # "Cancelled"
      BY <2>1, <3>1, <3>5 DEF n, IsOpen, NoRow, Outcomes
    <3> QED
      BY <3>4, <3>5
  <2>5. ledger' = Prune(n)
    BY <1>6 DEF FinishLedger, Save
  <2>6. \A u \in Tasks \ {t} : /\ ledger'[u] = ledger[u] \/ ledger'[u] = NoRow
                               /\ IsOpen(ledger[u]) => ledger'[u] = ledger[u]
    BY <2>2, <2>3, <2>5, PruneRows DEF WakeInv
  <2>7. /\ ledger'[t] # NoRow => ledger[t] # NoRow
        /\ ~IsOpen(ledger'[t])
        /\ \/ ledger'[t].cb = "Pending" \/ ledger'[t].cb = ledger[t].cb
           \/ outcome[t] = "Cancelled"
    BY <2>2, <2>4, <2>5, PruneRows DEF WakeInv, IsOpen, NoRow
  <2>8. \/ run' = [run EXCEPT ![t] = "over"]
        \/ run' = [run EXCEPT ![t] = "unreported"] /\ outcome[t] # "Cancelled"
    BY <1>6 DEF FinishLedger
  <2>9. UNCHANGED <<spawn, rec, recTodo, posts, pastVars>>
    BY <1>6 DEF FinishLedger
  <2>11. RowsHaveSpawns'
    BY <2>1, <2>5, <2>6, <2>7, <2>8, <2>9 DEF WakeInv, RowsHaveSpawns, Typed, IsOpen, NoRow
  <2>12. RecordedAfterReconcile'
    BY <2>1, <2>5, <2>6, <2>7, <2>8, <2>9 DEF WakeInv, RecordedAfterReconcile, Typed, IsOpen,
       NoRow
  <2>13. OpenUntilFinished'
    BY <2>1, <2>5, <2>6, <2>7, <2>8, <2>9 DEF WakeInv, OpenUntilFinished, Typed, IsOpen, NoRow
  <2>14. OpenRowsPending'
    BY <2>1, <2>5, <2>6, <2>7, <2>8, <2>9 DEF WakeInv, OpenRowsPending, Typed, IsOpen, NoRow
  <2>15. ClosedBeforeSending'
    BY <2>1, <2>5, <2>6, <2>7, <2>8, <2>9 DEF WakeInv, ClosedBeforeSending, OpenUntilFinished,
       OpenRowsPending, Typed, IsOpen, NoRow
  <2>16. PostedAtTheEnd'
    BY <2>1, <2>5, <2>6, <2>7, <2>8, <2>9 DEF WakeInv, PostedAtTheEnd, Typed, IsOpen, NoRow
  <2>17. OrphansUnposted'
    BY <2>1, <2>5, <2>6, <2>7, <2>8, <2>9 DEF WakeInv, OrphansUnposted, OpenUntilFinished,
       Typed, IsOpen, NoRow
  <2>18. WakeAtMostOnce'
    BY <2>1, <2>5, <2>6, <2>7, <2>8, <2>9 DEF WakeInv, WakeAtMostOnce, Typed, IsOpen, NoRow
  <2>19. ReportedClosed'
    BY <2>1, <2>5, <2>6, <2>7, <2>8, <2>9 DEF WakeInv, ReportedClosed, OpenUntilFinished,
       Typed, IsOpen, NoRow
  <2> QED
    BY <2>11, <2>12, <2>13, <2>14, <2>15, <2>16, <2>17, <2>18, <2>19 DEF WakeInv
<1>7. ASSUME NEW t \in Tasks, MarkSent(t) PROVE WakeInv'
  <2>1. /\ \A u \in Tasks \ {t} : ledger'[u] = ledger[u]
        /\ \/ ledger'[t] = NoRow /\ ledger[t] = NoRow
           \/ ledger[t] # NoRow /\ ledger'[t] = [st |-> ledger[t].st, cb |-> "Sent"]
    <3>1. ledger' = SetCallbackState(ledger, t, "Sent")
      BY <1>7 DEF MarkSent, Save
    <3>2. ledger \in [Tasks -> Rows] /\ "Sent" \in CallbackStates
      BY DEF Typed, CallbackStates
    <3> QED
      BY <3>1, <3>2, MarkedRow
  <2>2. run[t] = "unreported" /\ run' = [run EXCEPT ![t] = "sending"] /\ spawn[t] = "launched"
    BY <1>7 DEF MarkSent, ClaimInv, RunsAreLaunched
  <2>3. UNCHANGED <<spawn, rec, recTodo, posts, pastVars>>
    BY <1>7 DEF MarkSent
  <2>5. RowsHaveSpawns'
    BY <2>1, <2>2, <2>3 DEF WakeInv, RowsHaveSpawns, IsOpen, NoRow, Typed
  <2>6. RecordedAfterReconcile'
    BY <2>1, <2>2, <2>3 DEF WakeInv, RecordedAfterReconcile, IsOpen, NoRow, Typed
  <2>7. OpenUntilFinished'
    BY <2>1, <2>2, <2>3 DEF WakeInv, OpenUntilFinished, IsOpen, NoRow, Typed
  <2>8. OpenRowsPending'
    BY <2>1, <2>2, <2>3 DEF WakeInv, OpenRowsPending, ClosedBeforeSending, IsOpen, NoRow, Typed
  <2>9. ClosedBeforeSending'
    BY <2>1, <2>2, <2>3 DEF WakeInv, ClosedBeforeSending, IsOpen, NoRow, Typed
  <2>10. PostedAtTheEnd'
    BY <2>1, <2>2, <2>3 DEF WakeInv, PostedAtTheEnd, IsOpen, NoRow, Typed
  <2>11. OrphansUnposted'
    BY <2>1, <2>2, <2>3 DEF WakeInv, OrphansUnposted, IsOpen, NoRow, Typed
  <2>12. WakeAtMostOnce'
    BY <2>1, <2>2, <2>3 DEF WakeInv, WakeAtMostOnce, IsOpen, NoRow, Typed
  <2>13. ReportedClosed'
    BY <2>1, <2>2, <2>3 DEF WakeInv, ReportedClosed, ClosedBeforeSending, OrphansUnposted,
       IsOpen, NoRow, Typed
  <2> QED
    BY <2>5, <2>6, <2>7, <2>8, <2>9, <2>10, <2>11, <2>12, <2>13 DEF WakeInv
<1>8. ASSUME NEW t \in Tasks, SendResult(t) PROVE WakeInv'
  BY <1>8 DEF SendResult, DeliverDetached, Typed, ClaimInv, RunsAreLaunched, WakeInv,
     RowsHaveSpawns, RecordedAfterReconcile, OpenUntilFinished, OpenRowsPending,
     ClosedBeforeSending, PostedAtTheEnd, OrphansUnposted, WakeAtMostOnce, ReportedClosed
<1>9. CASE StopSave
  BY <1>9, WakePrunes DEF StopSave
<1>10. CASE Restart
  <2>1. /\ ledger' = disk /\ posts' = posts /\ early' = early /\ recTodo' = {}
        /\ \A t \in Tasks : spawn'[t] \in {"idle", "gone"} /\ run'[t] = "none"
        /\ \A t \in Tasks : spawn[t] # "idle" => spawn'[t] = "gone"
        /\ \A t \in Tasks : forgot'[t] =
              IF saveFailed /\ ledger[t] # disk[t] THEN forgot[t] + 1 ELSE forgot[t]
    BY <1>10 DEF Restart
  <2>2. RowsHaveSpawns' /\ RecordedAfterReconcile'
    BY <2>1 DEF FileInv, FileRowsHaveSpawns, RowsHaveSpawns, RecordedAfterReconcile
  <2>3. OpenUntilFinished' /\ ClosedBeforeSending' /\ OrphansUnposted'
    BY <2>1 DEF OpenUntilFinished, ClosedBeforeSending, OrphansUnposted
  <2>4. OpenRowsPending'
    BY <2>1 DEF FileInv, FileOpenRowsPending, OpenRowsPending
  <2>5. PostedAtTheEnd'
    BY <2>1 DEF WakeInv, PostedAtTheEnd, ClaimInv, RunsAreLaunched
(* A row that the file has as memory had it is reported as before; one     *)
(* that differs has been forgotten once more.                              *)
  <2>6. ASSUME NEW t \in Tasks \ early
        PROVE  /\ posts[t] <= 1 + forgot'[t]
               /\ posts[t] > forgot'[t] => ~IsOpen(disk[t]) /\ disk[t].cb # "Suppressed"
    <3>1. posts[t] \in Nat /\ forgot[t] \in Nat /\ posts[t] <= 1 + forgot[t]
      BY <2>6 DEF Typed, WakeInv, WakeAtMostOnce
    <3>2. CASE ledger[t] = disk[t]
      BY <2>1, <2>6, <3>1, <3>2 DEF WakeInv, ReportedClosed
    <3>3. CASE ledger[t] # disk[t]
      <4>1. saveFailed
        BY <3>3 DEF FileInv, FileCurrent
      <4>2. forgot'[t] = forgot[t] + 1
        BY <2>1, <3>3, <4>1
      <4> QED
        BY <3>1, <4>2
    <3> QED
      BY <3>2, <3>3
  <2>7. WakeAtMostOnce' /\ ReportedClosed'
    BY <2>1, <2>6 DEF WakeAtMostOnce, ReportedClosed
  <2> QED
    BY <2>2, <2>3, <2>4, <2>5, <2>7 DEF WakeInv
<1>11. CASE ReconcileScan \/ ReconcileDone
  BY <1>11 DEF ReconcileScan, ReconcileDone, Typed, ClaimInv, RunsAreLaunched, WakeInv,
     RowsHaveSpawns, RecordedAfterReconcile, OpenUntilFinished, OpenRowsPending,
     ClosedBeforeSending, PostedAtTheEnd, OrphansUnposted, WakeAtMostOnce, ReportedClosed
<1>12. CASE ReconcileInterrupt
  <2> DEFINE l == InterruptOpenTasks(ledger)
  <2>1. l \in [Tasks -> Rows]
    BY InterruptedRows DEF Typed
  <2>2. ledger' = Prune(l)
    BY <1>12 DEF ReconcileInterrupt, Save
  <2>3. \A t \in Tasks :
          /\ IsOpen(ledger[t]) => l[t] = [st |-> "Interrupted", cb |-> ledger[t].cb]
          /\ ~IsOpen(ledger[t]) => l[t] = ledger[t]
    BY InterruptedRows DEF Typed
  <2>4. \A t \in Tasks :
          /\ ~IsOpen(ledger'[t])
          /\ ledger'[t] # NoRow => ledger[t] # NoRow
          /\ ledger'[t].cb = ledger[t].cb \/ ledger'[t].cb = "Pending"
    BY <2>1, <2>2, <2>3, PruneRows DEF IsOpen, NoRow
  <2>5. \A t \in Tasks \ early :
          IsOpen(ledger[t]) => spawn[t] = "gone" /\ posts[t] <= forgot[t] /\ ledger[t].cb = "Pending"
    <3>1. ASSUME NEW t \in Tasks \ early, IsOpen(ledger[t]) PROVE spawn[t] = "gone"
      BY <1>12, <3>1 DEF ReconcileInterrupt, WakeInv, RecordedAfterReconcile, IsOpen, NoRow
    <3> QED
      BY <3>1 DEF WakeInv, ReportedClosed, OpenRowsPending, Typed
  <2>6. rec' \in {"report", "done"} /\ recTodo' \subseteq OpenRows(ledger)
    BY <1>12 DEF ReconcileInterrupt
  <2>7. UNCHANGED <<spawn, run, posts, pastVars>>
    BY <1>12 DEF ReconcileInterrupt
  <2>8. OpenUntilFinished' /\ RecordedAfterReconcile'
    <3>1. ASSUME NEW t \in Tasks \ early
          PROVE  /\ spawn[t] # "recorded"
                 /\ run[t] \notin {"prompting", "recovering", "settled", "marked", "freed"}
      BY <2>5 DEF WakeInv, OpenUntilFinished, ClaimInv, RunsAreLaunched
    <3> QED
      BY <2>6, <2>7, <3>1 DEF OpenUntilFinished, RecordedAfterReconcile
  <2>9. OrphansUnposted'
    BY <2>4, <2>5, <2>6, <2>7 DEF OrphansUnposted, OpenRows, WakeInv
  <2> QED
    BY <2>2, <2>4, <2>7, <2>8, <2>9 DEF WakeInv, RowsHaveSpawns,
       RecordedAfterReconcile, OpenUntilFinished, OpenRowsPending,
     ClosedBeforeSending, PostedAtTheEnd, OrphansUnposted, WakeAtMostOnce, ReportedClosed
<1>13. ASSUME NEW t \in Tasks, ReconcileReport(t) PROVE WakeInv'
  <2>1. /\ \A u \in Tasks \ {t} : ledger'[u] = ledger[u]
        /\ \/ ledger'[t] = NoRow /\ ledger[t] = NoRow
           \/ ledger[t] # NoRow /\ ledger'[t] = [st |-> ledger[t].st, cb |-> "Sent"]
    <3>1. ledger' = SetCallbackState(ledger, t, "Sent")
      BY <1>13 DEF ReconcileReport, Save
    <3>2. ledger \in [Tasks -> Rows] /\ "Sent" \in CallbackStates
      BY DEF Typed, CallbackStates
    <3> QED
      BY <3>1, <3>2, MarkedRow
  <2>2. /\ recTodo' = recTodo \ {t} /\ t \in recTodo
        /\ posts' = [posts EXCEPT ![t] = @ + 1]
        /\ UNCHANGED <<spawn, run, rec, pastVars>>
    BY <1>13 DEF ReconcileReport, DeliverDetached
  <2>4. RowsHaveSpawns'
    BY <2>1, <2>2 DEF WakeInv, RowsHaveSpawns, IsOpen, NoRow, Typed
  <2>5. RecordedAfterReconcile'
    BY <2>1, <2>2 DEF WakeInv, RecordedAfterReconcile, IsOpen, NoRow, Typed
  <2>6. OpenUntilFinished'
    BY <2>1, <2>2 DEF WakeInv, OpenUntilFinished, OrphansUnposted, ClaimInv, RunsAreLaunched,
       IsOpen, NoRow, Typed
  <2>7. OpenRowsPending'
    BY <2>1, <2>2 DEF WakeInv, OpenRowsPending, OrphansUnposted, IsOpen, NoRow, Typed
  <2>8. ClosedBeforeSending'
    BY <2>1, <2>2 DEF WakeInv, ClosedBeforeSending, OrphansUnposted, ClaimInv, RunsAreLaunched,
       IsOpen, NoRow, Typed
  <2>9. PostedAtTheEnd'
    BY <2>1, <2>2 DEF WakeInv, PostedAtTheEnd, OrphansUnposted, IsOpen, NoRow, Typed
  <2>10. OrphansUnposted'
    BY <2>1, <2>2 DEF WakeInv, OrphansUnposted, IsOpen, NoRow, Typed
  <2>11. WakeAtMostOnce'
    BY <2>1, <2>2 DEF WakeInv, WakeAtMostOnce, OrphansUnposted, IsOpen, NoRow, Typed
  <2>12. ReportedClosed'
    BY <2>1, <2>2 DEF WakeInv, ReportedClosed, OrphansUnposted, IsOpen, NoRow, Typed
  <2> QED
    BY <2>4, <2>5, <2>6, <2>7, <2>8, <2>9, <2>10, <2>11, <2>12 DEF WakeInv
<1>14. ASSUME NEW t \in Tasks,
              \/ ForgetTask(t) \/ CancelCheck(t) \/ CancelFlag(t) \/ CancelAnswer(t)
              \/ SessionUnloaded(t) \/ StopMark(t)
              \/ \E r \in Reports : Delivered(t, r) \/ DeliveryLost(t, r)
       PROVE WakeInv'
  BY <1>14, WakeStutter DEF ForgetTask, CancelCheck, CancelFlag, CancelAnswer, SessionUnloaded,
     StopMark, Delivered, DeliveryLost
<1>15. CASE StopBegin \/ StopSnapshot \/ UNCHANGED vars
  BY <1>15, WakeStutter DEF StopBegin, StopSnapshot, vars
<1> QED
  BY <1>1, <1>2, <1>3, <1>4, <1>5, <1>6, <1>7, <1>8, <1>9, <1>10, <1>11, <1>12, <1>13, <1>14,
     <1>15
     DEF Next, SpawnStep, RunStep, CancelStep, StopStep, ReconcileStep

-----------------------------------------------------------------------------
(* Rows only move forward *)

(* The row of a task in memory moves forward, and one that is not there    *)
(* appears only if the file has none either.                               *)
Moves(t) ==
    /\ Forward(t, ledger[t], ledger'[t])
    /\ ledger[t] = NoRow => ledger'[t] = NoRow \/ spawn[t] = "registered"

(* No step moves a row backwards.                                          *)
LEMMA RowsStep ==
    Typed /\ ClaimInv /\ WakeInv /\ [Next]_vars /\ ~Restart =>
        \A t \in Tasks : Moves(t)
<1> SUFFICES ASSUME Typed, ClaimInv, WakeInv, [Next]_vars, ~Restart, NEW t \in Tasks
             PROVE  Moves(t)
  OBVIOUS
<1> USE DEF ledgerVars, rowVars
<1>1. ASSUME UNCHANGED ledger PROVE  Moves(t)
  BY <1>1 DEF Moves, Forward
<1>2. ASSUME NEW u \in Tasks, SpawnRecord(u) PROVE  Moves(t)
  <2>1. ledger[u] = NoRow
    BY <1>2 DEF SpawnRecord, WakeInv, RowsHaveSpawns
  <2>2. t # u => ledger'[t] = ledger[t]
    BY <1>2, <2>1 DEF SpawnRecord, Save, Typed
  <2> QED
    BY <1>2, <2>1, <2>2 DEF SpawnRecord, Moves, Forward, NoRow, Outcomes
<1>3. ASSUME Save(Prune(ledger)) PROVE  Moves(t)
  BY <1>3, PruneRows DEF Save, Moves, Forward, Typed, WakeInv
<1>4. ASSUME NEW u \in Tasks, NEW l \in [Tasks -> Rows], Save(Prune(l)),
             t = u \/ l[t] = ledger[t],
             run[u] = "freed", l[u] = NoRow \/ l[u].st \in Outcomes,
             ledger[u] = NoRow => l[u] = NoRow
      PROVE  Moves(t)
  <2>1. ledger'[t] = l[t] \/ ledger'[t] = NoRow
    BY <1>4, PruneRows DEF Save
  <2>2. CASE t # u
    BY <1>4, <2>1, <2>2 DEF Moves, Forward
  <2>3. CASE t = u /\ t \notin early
    BY <1>4, <2>1, <2>3 DEF Moves, Forward, WakeInv, OpenUntilFinished, OpenRowsPending, IsOpen,
       Outcomes
  <2>4. CASE t = u /\ t \in early
    BY <1>4, <2>1, <2>4 DEF Moves, Forward
  <2> QED
    BY <2>2, <2>3, <2>4
<1>5. ASSUME NEW u \in Tasks, FinishLedger(u) PROVE  Moves(t)
  <2> DEFINE l == FinishTask(ledger, u, outcome[u])
             m == SetCallbackState(l, u, "Suppressed")
  <2>1. outcome[u] \in Outcomes /\ run[u] = "freed" /\ ledger \in [Tasks -> Rows]
    BY <1>5 DEF FinishLedger, Typed, WakeInv
  <2>2. /\ l \in [Tasks -> Rows]
        /\ t = u \/ l[t] = ledger[t]
        /\ l[u] = NoRow \/ l[u].st \in Outcomes
        /\ ledger[u] = NoRow => l[u] = NoRow
    <3>1. /\ l \in [Tasks -> Rows]
          /\ \A v \in Tasks \ {u} : l[v] = ledger[v]
          /\ \/ l[u] = NoRow
             \/ ledger[u] # NoRow /\ l[u] = [st |-> outcome[u], cb |-> ledger[u].cb]
      BY <2>1, FinishedRow
    <3> HIDE DEF l
    <3> QED
      BY <2>1, <3>1
  <2> HIDE DEF l
  <2>3. /\ m \in [Tasks -> Rows]
        /\ t = u \/ m[t] = ledger[t]
        /\ m[u] = NoRow \/ m[u].st \in Outcomes
        /\ ledger[u] = NoRow => m[u] = NoRow
    <3>1. /\ m \in [Tasks -> Rows]
          /\ \A v \in Tasks \ {u} : m[v] = l[v]
          /\ \/ m[u] = NoRow
             \/ l[u] # NoRow /\ m[u] = [st |-> l[u].st, cb |-> "Suppressed"]
      BY <2>2, MarkedRow DEF CallbackStates
    <3> HIDE DEF m
    <3> QED
      BY <2>2, <3>1
  <2> HIDE DEF m
  <2>4. Save(Prune(m)) \/ Save(Prune(l))
    BY <1>5 DEF FinishLedger, l, m
  <2> QED
    BY <1>4, <2>1, <2>2, <2>3, <2>4
<1>6. ASSUME NEW u \in Tasks, Save(SetCallbackState(ledger, u, "Sent")),
             u \in early \/ ledger[u].cb # "Suppressed"
      PROVE  Moves(t)
  <2>1. ledger \in [Tasks -> Rows] /\ "Sent" \in CallbackStates
    BY DEF WakeInv, Typed, CallbackStates
  <2>2. /\ t # u => ledger'[t] = ledger[t]
        /\ \/ ledger'[u] = NoRow
           \/ ledger[u] # NoRow /\ ledger'[u] = [st |-> ledger[u].st, cb |-> "Sent"]
    BY <1>6, <2>1, MarkedRow DEF Save
  <2>3. ledger[u].cb \in CallbackStates
    BY <2>1 DEF Rows
  <2> QED
    BY <1>6, <2>2, <2>3 DEF Moves, Forward, CallbackStates
<1>7. ASSUME NEW u \in Tasks, MarkSent(u) PROVE  Moves(t)
  BY <1>6, <1>7 DEF MarkSent, WakeInv, ClosedBeforeSending
<1>8. ASSUME NEW u \in Tasks, ReconcileReport(u) PROVE  Moves(t)
  BY <1>6, <1>8 DEF ReconcileReport, WakeInv, OrphansUnposted
<1>9. CASE ReconcileInterrupt
  <2> DEFINE l == InterruptOpenTasks(ledger)
  <2>1. ledger \in [Tasks -> Rows]
    BY DEF WakeInv, Typed
  <2>2. /\ l \in [Tasks -> Rows]
        /\ l[t] = ledger[t] \/ (IsOpen(ledger[t]) /\ l[t] = [st |-> "Interrupted", cb |-> ledger[t].cb])
    BY <2>1, InterruptedRows
  <2>3. Save(Prune(l))
    BY <1>9 DEF ReconcileInterrupt
  <2> HIDE DEF l
  <2>4. ledger'[t] = l[t] \/ ledger'[t] = NoRow
    BY <2>2, <2>3, PruneRows DEF Save
  <2> QED
    BY <2>2, <2>4 DEF Moves, Forward, IsOpen, Outcomes, NoRow
<1>10. ASSUME NEW u \in Tasks,
              \/ \E k \in Keys : SpawnBegin(u, k)
              \/ SpawnLookup(u) \/ SpawnOpened(u) \/ SpawnFails(u) \/ SpawnClaim(u)
              \/ SpawnRefused(u) \/ SpawnRegister(u) \/ SpawnLaunch(u) \/ SpawnDropped(u)
              \/ PromptSettles(u) \/ SocketLost(u) \/ RecoveryEnds(u) \/ FinishStatus(u)
              \/ FreeSession(u) \/ SendResult(u) \/ ForgetTask(u)
       PROVE  Moves(t)
  BY <1>1, <1>10 DEF SpawnBegin, SpawnLookup, SpawnOpened, SpawnFails, SpawnClaim, SpawnRefused,
     SpawnRegister, SpawnLaunch, SpawnDropped, Save, PromptSettles, SocketLost, RecoveryEnds,
     FinishStatus, FreeSession, SendResult, ForgetTask
<1>11. ASSUME NEW u \in Tasks,
              \/ CancelCheck(u) \/ CancelFlag(u) \/ CancelAnswer(u) \/ SessionUnloaded(u)
              \/ StopMark(u)
              \/ \E r \in Reports : Delivered(u, r) \/ DeliveryLost(u, r)
       PROVE  Moves(t)
  BY <1>1, <1>11 DEF CancelCheck, CancelFlag, CancelAnswer, SessionUnloaded, StopMark, Delivered,
     DeliveryLost
<1>12. CASE StopBegin \/ StopSnapshot \/ ReconcileScan \/ ReconcileDone \/ UNCHANGED vars
  BY <1>1, <1>12 DEF StopBegin, StopSnapshot, ReconcileScan, ReconcileDone, vars
<1>13. CASE StopSave
  BY <1>3, <1>13 DEF StopSave
<1> QED
  BY <1>2, <1>5, <1>7, <1>8, <1>9, <1>10, <1>11, <1>12, <1>13
     DEF Next, SpawnStep, RunStep, CancelStep, StopStep, ReconcileStep

(* The file is replaced by what memory holds, or left behind.              *)
LEMMA FileFollows ==
    ASSUME Typed, Typed', FileInv, WakeInv',
           \/ disk' = ledger' /\ saveFailed' = FALSE
           \/ disk' = disk /\ saveFailed' = TRUE
           \/ UNCHANGED rowVars,
           \A t \in Tasks : Moves(t),
           \A t \in Tasks : disk[t] # NoRow =>
               spawn'[t] \in {"recorded", "launched", "dropped", "gone"},
           early \subseteq early'
    PROVE  FileInv' /\ \A t \in Tasks : RowMovesForward(t)
<1>1. ASSUME NEW t \in Tasks
      PROVE  Forward(t, disk[t], ledger'[t])
  <2>1. Forward(t, disk[t], ledger[t]) /\ Forward(t, ledger[t], ledger'[t])
    BY DEF FileInv, FileBehind, Moves
  <2>2. disk[t] = NoRow \/ ledger[t] # NoRow \/ ledger'[t] = NoRow
    BY DEF FileInv, FileRowsHaveSpawns, Moves
  <2> QED
    BY <2>1, <2>2 DEF Forward, NoRow, Outcomes
<1>2. \A t \in Tasks : Forward(t, disk[t], disk'[t])
  <2>1. \A t \in Tasks : Forward(t, disk[t], disk[t])
    BY DEF Forward
  <2> QED
    BY <1>1, <2>1 DEF rowVars
<1>3. FileCurrent'
  BY DEF FileInv, FileCurrent, rowVars
<1>4. FileRowsHaveSpawns'
  BY DEF FileInv, FileRowsHaveSpawns, WakeInv, RowsHaveSpawns, rowVars
<1>5. FileOpenRowsPending'
  BY DEF FileInv, FileOpenRowsPending, WakeInv, OpenRowsPending, rowVars
<1>6. FileBehind'
  BY <1>1 DEF FileBehind, Forward, rowVars
<1> QED
  BY <1>2, <1>3, <1>4, <1>5, <1>6 DEF FileInv, Forward, RowMovesForward

(* What the steps of one life do to the file.                              *)
LEMMA FileSteps ==
    ASSUME Typed, [Next]_vars, ~Restart
    PROVE  /\ \/ disk' = ledger' /\ saveFailed' = FALSE
              \/ disk' = disk /\ saveFailed' = TRUE
              \/ UNCHANGED rowVars
           /\ early \subseteq early'
           /\ \A t \in Tasks : spawn[t] \in {"recorded", "launched", "dropped", "gone"} =>
                spawn'[t] \in {"recorded", "launched", "dropped", "gone"}
<1> USE DEF spawnVars, sessionVars, taskVars, runVars, ledgerVars, stopVars, recVars, wakeVars,
        pastVars, rowVars
<1> DEFINE Rest == {"recorded", "launched", "dropped", "gone"}
<1>1. ASSUME NEW t \in Tasks, NEW s, spawn' = [spawn EXCEPT ![t] = s],
             spawn[t] \in Rest => s \in Rest
      PROVE  \A u \in Tasks : spawn[u] \in Rest => spawn'[u] \in Rest
  BY <1>1 DEF Typed
<1>2. CASE \E t \in Tasks :
             \/ \E k \in Keys : SpawnBegin(t, k)
             \/ SpawnLookup(t) \/ SpawnOpened(t) \/ SpawnFails(t) \/ SpawnClaim(t)
             \/ SpawnRefused(t) \/ SpawnRegister(t) \/ SpawnLaunch(t) \/ SpawnDropped(t)
  <2>1. PICK t \in Tasks :
             \/ \E k \in Keys : SpawnBegin(t, k)
             \/ SpawnLookup(t) \/ SpawnOpened(t) \/ SpawnFails(t) \/ SpawnClaim(t)
             \/ SpawnRefused(t) \/ SpawnRegister(t) \/ SpawnLaunch(t) \/ SpawnDropped(t)
    BY <1>2
  <2>2. \E s : spawn' = [spawn EXCEPT ![t] = s] /\ (spawn[t] \in Rest => s \in Rest)
    BY <2>1 DEF SpawnBegin, SpawnLookup, SpawnOpened, SpawnFails, SpawnClaim, SpawnRefused,
       SpawnRegister, SpawnLaunch, SpawnDropped
  <2>3. early' = early /\ (UNCHANGED rowVars \/ Save(ledger))
    BY <2>1 DEF SpawnBegin, SpawnLookup, SpawnOpened, SpawnFails, SpawnClaim, SpawnRefused,
       SpawnRegister, SpawnLaunch, SpawnDropped
  <2> QED
    BY <1>1, <2>2, <2>3 DEF Save
<1>3. CASE \E t \in Tasks : SpawnRecord(t)
  <2>1. PICK t \in Tasks : SpawnRecord(t)
    BY <1>3
  <2>2. spawn' = [spawn EXCEPT ![t] = "recorded"] /\ early \subseteq early'
    BY <2>1 DEF SpawnRecord
  <2> QED
    BY <1>1, <2>1, <2>2 DEF SpawnRecord, Save
<1>4. CASE \E t \in Tasks :
             \/ FinishLedger(t) \/ MarkSent(t) \/ ReconcileReport(t)
  BY <1>4 DEF FinishLedger, MarkSent, ReconcileReport, Save
<1>5. CASE StopSave \/ ReconcileInterrupt
  BY <1>5 DEF StopSave, ReconcileInterrupt, Save
<1>6. CASE \E t \in Tasks :
             \/ PromptSettles(t) \/ SocketLost(t) \/ RecoveryEnds(t) \/ FinishStatus(t)
             \/ FreeSession(t) \/ SendResult(t) \/ ForgetTask(t)
             \/ CancelCheck(t) \/ CancelFlag(t) \/ CancelAnswer(t) \/ SessionUnloaded(t)
             \/ StopMark(t)
             \/ \E r \in Reports : Delivered(t, r) \/ DeliveryLost(t, r)
  BY <1>6 DEF PromptSettles, SocketLost, RecoveryEnds, FinishStatus, FreeSession, SendResult,
     ForgetTask, CancelCheck, CancelFlag, CancelAnswer, SessionUnloaded, StopMark, Delivered,
     DeliveryLost
<1>7. CASE StopBegin \/ StopSnapshot \/ ReconcileScan \/ ReconcileDone \/ UNCHANGED vars
  BY <1>7 DEF StopBegin, StopSnapshot, ReconcileScan, ReconcileDone, vars
<1> QED
  BY <1>2, <1>3, <1>4, <1>5, <1>6, <1>7
     DEF Next, SpawnStep, RunStep, CancelStep, StopStep, ReconcileStep

(* There is no file and no row at first.                                   *)
LEMMA FileInit == Init => FileInv
BY DEF Init, FileInv, FileCurrent, FileRowsHaveSpawns, FileOpenRowsPending, FileBehind, Forward,
       NoRow, IsOpen, Outcomes

(* Every step keeps the file behind memory, and moves its rows forward.    *)
LEMMA FileNext ==
    Typed /\ Typed' /\ ClaimInv /\ WakeInv /\ WakeInv' /\ FileInv /\ [Next]_vars =>
        FileInv' /\ \A t \in Tasks : RowMovesForward(t)
<1> SUFFICES ASSUME Typed, Typed', ClaimInv, WakeInv, WakeInv', FileInv, [Next]_vars
             PROVE  FileInv' /\ \A t \in Tasks : RowMovesForward(t)
  OBVIOUS
<1>1. CASE Restart
  <2>1. /\ ledger' = disk /\ disk' = disk /\ early' = early
        /\ \A t \in Tasks : spawn[t] # "idle" => spawn'[t] = "gone"
    BY <1>1 DEF Restart
  <2>2. FileInv'
    BY <2>1 DEF FileInv, FileCurrent, FileRowsHaveSpawns, FileOpenRowsPending, FileBehind, Forward
  <2> QED
    BY <2>1, <2>2 DEF RowMovesForward
<1>2. CASE ~Restart
  <2>1. \A t \in Tasks : Moves(t)
    BY <1>2, RowsStep
  <2>2. /\ \/ disk' = ledger' /\ saveFailed' = FALSE
           \/ disk' = disk /\ saveFailed' = TRUE
           \/ UNCHANGED rowVars
        /\ early \subseteq early'
        /\ \A t \in Tasks : spawn[t] \in {"recorded", "launched", "dropped", "gone"} =>
             spawn'[t] \in {"recorded", "launched", "dropped", "gone"}
    BY <1>2, FileSteps
  <2>3. \A t \in Tasks : disk[t] # NoRow =>
            spawn'[t] \in {"recorded", "launched", "dropped", "gone"}
    BY <2>2 DEF FileInv, FileRowsHaveSpawns
  <2> QED
    BY <2>1, <2>2, <2>3, FileFollows
<1> QED
  BY <1>1, <1>2

(* What holds in every reachable state of memory and file.                 *)
LEMMA RowsInvariant == Spec => [](Typed /\ ClaimInv /\ WakeInv /\ FileInv)
BY TypedInit, TypedNext, ClaimInit, ClaimNext, WakeInit, WakeNext, FileInit, FileNext, PTL DEF Spec

(* Across any number of crashes, restarts and failed saves, a task is      *)
(* reported once, and once more only for a crash that lost a change of its *)
(* row which a failed save had kept from the file (save_lossy) - when      *)
(* reconcile ran before the task was recorded.                             *)
THEOREM WakeSafety == Spec => []WakeAtMostOnce
<1>1. WakeInv => WakeAtMostOnce
  BY DEF WakeInv
<1> QED
  BY <1>1, RowsInvariant, PTL

(* Every report is preceded by the row's close, in memory and - unless the *)
(* last save failed - in the file.                                         *)
THEOREM ReportSafety == Spec => []WakeOnlyWhenClosed
<1>1. WakeInv /\ FileInv => WakeOnlyWhenClosed
  BY DEF WakeInv, FileInv, FileCurrent, ReportedClosed, WakeOnlyWhenClosed
<1> QED
  BY <1>1, RowsInvariant, PTL

(* A prompt never runs without its open row, which a crash depends on      *)
(* (ledger.rs start_task, mod.rs reconcile): it is in memory, and in the   *)
(* file unless the last save failed.                                       *)
THEOREM EvidenceSafety == Spec => []EvidenceBeforePrompt
<1>1. WakeInv /\ FileInv => EvidenceBeforePrompt
  BY DEF WakeInv, FileInv, FileCurrent, OpenUntilFinished, EvidenceBeforePrompt
<1> QED
  BY <1>1, RowsInvariant, PTL

(* A row of the file is opened once, closed once, and its callback state   *)
(* decided once, whatever crashes, cancels, prunes and failed saves come   *)
(* between.                                                                *)
THEOREM RowSafety == Spec => RowsMoveForward
<1>1. Typed /\ Typed' /\ ClaimInv /\ WakeInv /\ WakeInv' /\ FileInv /\ [Next]_vars
          => [\A t \in Tasks : RowMovesForward(t)]_vars
  BY FileNext
<1> QED
  BY <1>1, RowsInvariant, PTL DEF Spec, RowsMoveForward

-----------------------------------------------------------------------------
(* A cancel in time silences *)

(* A result is on its way, or in the inbox, only after its run was over.   *)
ResultsComeLast ==
    \A t \in Tasks : <<t, "result">> \in outbox \/ inbox[t] = "result"
        => run[t] = "over" \/ spawn[t] = "gone"

(* What a cancel in time leads to, for good: no run of the task, or one    *)
(* that will not report, and no result on its way.                         *)
Silenced(t) ==
    /\ spawn[t] \in {"launched", "gone"}
    /\ run[t] \in {"prompting", "recovering"} => cancelled[t]
    /\ run[t] \in {"settled", "marked", "freed"} => outcome[t] = "Cancelled"
    /\ run[t] \notin {"unreported", "sending"}
    /\ <<t, "result">> \notin outbox
    /\ inbox[t] # "result"

(* No row has a result.                                                    *)
LEMMA ResultsInit == Init => ResultsComeLast
BY DEF Init, ResultsComeLast

(* A result is stored only by a finalize past its last look at the flag.   *)
LEMMA ResultsNext == Typed /\ ClaimInv /\ ResultsComeLast /\ [Next]_vars => ResultsComeLast'
<1> SUFFICES ASSUME Typed, ClaimInv, ResultsComeLast, [Next]_vars PROVE ResultsComeLast'
  OBVIOUS
<1> USE DEF spawnVars, sessionVars, taskVars, runVars, ledgerVars, rowVars, stopVars, recVars,
            wakeVars, pastVars
<1>1. ASSUME UNCHANGED <<outbox, inbox>>,
             \A t \in Tasks : run[t] = "over" => run'[t] = "over" \/ spawn'[t] = "gone",
             \A t \in Tasks : spawn[t] = "gone" => spawn'[t] = "gone"
      PROVE  ResultsComeLast'
  BY <1>1 DEF ResultsComeLast
<1>2. ASSUME NEW t \in Tasks, UNCHANGED <<outbox, inbox, run>>, spawn[t] # "gone",
             NEW s, spawn' = [spawn EXCEPT ![t] = s]
      PROVE  ResultsComeLast'
  BY <1>1, <1>2 DEF Typed
<1>3. ASSUME NEW t \in Tasks,
             \/ \E k \in Keys : SpawnBegin(t, k)
             \/ SpawnLookup(t) \/ SpawnOpened(t) \/ SpawnFails(t) \/ SpawnClaim(t)
             \/ SpawnRefused(t) \/ SpawnRegister(t) \/ SpawnRecord(t) \/ SpawnDropped(t)
      PROVE  ResultsComeLast'
  BY <1>2, <1>3 DEF SpawnBegin, SpawnLookup, SpawnOpened, SpawnFails, SpawnClaim, SpawnRefused,
     SpawnRegister, SpawnRecord, SpawnDropped, InFlightStates
<1>4. ASSUME NEW t \in Tasks, SpawnLaunch(t) PROVE ResultsComeLast'
  <2>1. run[t] = "none"
    BY <1>4 DEF SpawnLaunch, ClaimInv, RunsAreLaunched
  <2>2. \A u \in Tasks : /\ run[u] = "over" => run'[u] = "over"
                         /\ spawn[u] = "gone" => spawn'[u] = "gone"
    BY <1>4, <2>1 DEF SpawnLaunch, Typed
  <2> QED
    BY <1>1, <1>4, <2>2 DEF SpawnLaunch
<1>5. ASSUME NEW t \in Tasks, UNCHANGED <<outbox, inbox, spawn>>, run[t] # "over",
             NEW s, run' = [run EXCEPT ![t] = s]
      PROVE  ResultsComeLast'
  BY <1>1, <1>5 DEF Typed
<1>6. ASSUME NEW t \in Tasks,
             \/ PromptSettles(t) \/ SocketLost(t) \/ RecoveryEnds(t) \/ FinishStatus(t)
             \/ FreeSession(t) \/ FinishLedger(t) \/ MarkSent(t)
      PROVE  ResultsComeLast'
  BY <1>5, <1>6 DEF PromptSettles, SocketLost, RecoveryEnds, FinishStatus, FreeSession,
     FinishLedger, MarkSent, Settle
<1>7. ASSUME NEW t \in Tasks, SendResult(t) PROVE ResultsComeLast'
  BY <1>7 DEF SendResult, DeliverDetached, ResultsComeLast, Typed
<1>8. ASSUME NEW t \in Tasks, NEW r \in Reports, Delivered(t, r) \/ DeliveryLost(t, r)
      PROVE  ResultsComeLast'
  <2>1. UNCHANGED <<run, spawn>> /\ outbox' \subseteq outbox
    BY <1>8 DEF Delivered, DeliveryLost
  <2>2. \A u \in Tasks : inbox'[u] = "result" => inbox[u] = "result" \/ <<u, "result">> \in outbox
    BY <1>8 DEF Delivered, DeliveryLost, Typed
  <2> QED
    BY <2>1, <2>2 DEF ResultsComeLast
<1>9. ASSUME NEW t \in Tasks, ReconcileReport(t) PROVE ResultsComeLast'
  BY <1>9 DEF ReconcileReport, DeliverDetached, ResultsComeLast
<1>10. CASE Restart
  <2>1. \A t \in Tasks : run[t] = "over" \/ spawn[t] = "gone" => spawn'[t] = "gone"
    BY <1>10 DEF Restart, ClaimInv, RunsAreLaunched
  <2> QED
    BY <1>10, <2>1 DEF Restart, ResultsComeLast
<1>11. ASSUME UNCHANGED <<outbox, inbox, run, spawn>> PROVE ResultsComeLast'
  BY <1>11 DEF ResultsComeLast
<1>12. ASSUME NEW t \in Tasks,
              \/ ForgetTask(t) \/ CancelCheck(t) \/ CancelFlag(t) \/ CancelAnswer(t)
              \/ SessionUnloaded(t) \/ StopMark(t)
       PROVE  ResultsComeLast'
  BY <1>11, <1>12 DEF ForgetTask, CancelCheck, CancelFlag, CancelAnswer, SessionUnloaded, StopMark
<1>13. CASE \/ StopBegin \/ StopSnapshot \/ StopSave \/ ReconcileScan \/ ReconcileInterrupt
            \/ ReconcileDone \/ UNCHANGED vars
  BY <1>11, <1>13 DEF StopBegin, StopSnapshot, StopSave, ReconcileScan, ReconcileInterrupt,
     ReconcileDone, vars
<1> QED
  BY <1>3, <1>4, <1>6, <1>7, <1>8, <1>9, <1>10, <1>12, <1>13
     DEF Next, SpawnStep, RunStep, CancelStep, StopStep, ReconcileStep

(* A cancel that came in time is never undone, across restarts.            *)
LEMMA SilencedStays ==
    ASSUME NEW t \in Tasks
    PROVE  Typed /\ ClaimInv /\ Silenced(t) /\ [Next]_vars => Silenced(t)'
<1> SUFFICES ASSUME Typed, ClaimInv, Silenced(t), [Next]_vars PROVE Silenced(t)'
  OBVIOUS
<1> USE DEF spawnVars, sessionVars, taskVars, runVars, ledgerVars, rowVars, stopVars, recVars,
            wakeVars, pastVars
<1>1. ASSUME UNCHANGED <<outbox, inbox>>, spawn'[t] = spawn[t], run'[t] = run[t],
             outcome'[t] = outcome[t], cancelled[t] => cancelled'[t]
      PROVE  Silenced(t)'
  BY <1>1 DEF Silenced
<1>2. ASSUME NEW u \in Tasks, UNCHANGED <<outbox, inbox, run, outcome, cancelled>>,
             spawn[u] \notin {"launched", "gone"}, NEW s, spawn' = [spawn EXCEPT ![u] = s]
      PROVE  Silenced(t)'
  <2>1. u # t
    BY <1>2 DEF Silenced
  <2> QED
    BY <1>1, <1>2, <2>1 DEF Typed
<1>3. ASSUME NEW u \in Tasks,
             \/ \E k \in Keys : SpawnBegin(u, k)
             \/ SpawnLookup(u) \/ SpawnOpened(u) \/ SpawnFails(u) \/ SpawnClaim(u)
             \/ SpawnRefused(u) \/ SpawnRegister(u) \/ SpawnRecord(u) \/ SpawnDropped(u)
      PROVE  Silenced(t)'
  BY <1>2, <1>3 DEF SpawnBegin, SpawnLookup, SpawnOpened, SpawnFails, SpawnClaim, SpawnRefused,
     SpawnRegister, SpawnRecord, SpawnDropped, InFlightStates
<1>4. ASSUME NEW u \in Tasks, SpawnLaunch(u) PROVE Silenced(t)'
  <2>1. u # t
    BY <1>4 DEF SpawnLaunch, Silenced
  <2> QED
    BY <1>1, <1>4, <2>1 DEF SpawnLaunch, Typed
(* The run of the task itself reads the flag on entry to finalize ...      *)
<1>5. ASSUME NEW u \in Tasks,
             PromptSettles(u) \/ RecoveryEnds(u) \/ SocketLost(u)
      PROVE  Silenced(t)'
  <2>1. CASE u = t
    <3>1. cancelled[t]
      BY <1>5, <2>1 DEF PromptSettles, RecoveryEnds, SocketLost, Silenced
    <3>2. run'[t] = "settled" /\ outcome'[t] = "Cancelled"
      BY <1>5, <2>1, <3>1 DEF PromptSettles, RecoveryEnds, SocketLost, Settle, Typed
    <3>3. UNCHANGED <<spawn, outbox, inbox>>
      BY <1>5 DEF PromptSettles, RecoveryEnds, SocketLost
    <3> QED
      BY <3>2, <3>3 DEF Silenced
  <2>2. CASE u # t
    BY <1>1, <1>5, <2>2 DEF PromptSettles, RecoveryEnds, SocketLost, Settle, Typed
  <2> QED
    BY <2>1, <2>2
(* ... and then ends without a report.                                     *)
<1>6. ASSUME NEW u \in Tasks, FinishStatus(u) \/ FreeSession(u) \/ FinishLedger(u)
      PROVE  Silenced(t)'
  <2>1. CASE u = t
    <3>1. outcome[t] = "Cancelled"
      BY <1>6, <2>1 DEF FinishStatus, FreeSession, FinishLedger, Silenced
    <3>2. run'[t] \in {"marked", "freed", "over"}
      BY <1>6, <2>1, <3>1 DEF FinishStatus, FreeSession, FinishLedger, Typed
    <3>3. UNCHANGED <<spawn, outcome, outbox, inbox>>
      BY <1>6 DEF FinishStatus, FreeSession, FinishLedger
    <3> QED
      BY <3>1, <3>2, <3>3 DEF Silenced
  <2>2. CASE u # t
    BY <1>1, <1>6, <2>2 DEF FinishStatus, FreeSession, FinishLedger, Typed
  <2> QED
    BY <2>1, <2>2
<1>7. ASSUME NEW u \in Tasks, MarkSent(u) PROVE Silenced(t)'
  <2>1. u # t
    BY <1>7 DEF MarkSent, Silenced
  <2> QED
    BY <1>1, <1>7, <2>1 DEF MarkSent, Typed
<1>8. ASSUME NEW u \in Tasks, SendResult(u) PROVE Silenced(t)'
  <2>1. u # t
    BY <1>8 DEF SendResult, Silenced
  <2>2. <<t, "result">> \notin outbox' /\ run'[t] = run[t]
    BY <1>8, <2>1 DEF SendResult, DeliverDetached, Silenced, Typed
  <2> QED
    BY <1>8, <2>2 DEF SendResult, Silenced
<1>9. ASSUME NEW u \in Tasks, NEW r \in Reports, Delivered(u, r) \/ DeliveryLost(u, r)
      PROVE  Silenced(t)'
  <2>1. UNCHANGED <<run, spawn, outcome, cancelled>> /\ outbox' \subseteq outbox
    BY <1>9 DEF Delivered, DeliveryLost
  <2>2. inbox'[t] # "result"
    BY <1>9 DEF Delivered, DeliveryLost, Silenced, Typed
  <2> QED
    BY <2>1, <2>2 DEF Silenced
<1>10. ASSUME NEW u \in Tasks, ReconcileReport(u) PROVE Silenced(t)'
  <2>1. <<t, "result">> \notin outbox'
    BY <1>10 DEF ReconcileReport, DeliverDetached, Silenced
  <2> QED
    BY <1>10, <2>1 DEF ReconcileReport, Silenced
<1>11. CASE Restart
  <2>1. spawn'[t] = "gone" /\ run'[t] = "none" /\ outbox' = {} /\ inbox' = inbox
    BY <1>11 DEF Restart, Silenced
  <2> QED
    BY <2>1 DEF Silenced
<1>12. ASSUME NEW u \in Tasks, CancelFlag(u) \/ StopMark(u) PROVE Silenced(t)'
  <2>1. cancelled[t] => cancelled'[t]
    BY <1>12 DEF CancelFlag, StopMark, Typed
  <2> QED
    BY <1>1, <1>12, <2>1 DEF CancelFlag, StopMark
<1>13. ASSUME UNCHANGED <<outbox, inbox, run, spawn, outcome, cancelled>> PROVE Silenced(t)'
  BY <1>1, <1>13
<1>14. ASSUME NEW u \in Tasks,
              ForgetTask(u) \/ CancelCheck(u) \/ CancelAnswer(u) \/ SessionUnloaded(u)
       PROVE  Silenced(t)'
  BY <1>13, <1>14 DEF ForgetTask, CancelCheck, CancelAnswer, SessionUnloaded
<1>15. CASE \/ StopBegin \/ StopSnapshot \/ StopSave \/ ReconcileScan \/ ReconcileInterrupt
            \/ ReconcileDone \/ UNCHANGED vars
  BY <1>13, <1>15 DEF StopBegin, StopSnapshot, StopSave, ReconcileScan, ReconcileInterrupt,
     ReconcileDone, vars
<1> QED
  BY <1>3, <1>4, <1>5, <1>6, <1>7, <1>8, <1>9, <1>10, <1>11, <1>12, <1>14, <1>15
     DEF Next, SpawnStep, RunStep, CancelStep, StopStep, ReconcileStep

(* A cancel (or a shutdown) that sets the flag before finalize looks at it *)
(* keeps every result of the task out of the inbox for good, across any    *)
(* number of restarts and failed saves.                                    *)
LEMMA NoResultSafety == Spec => NoResultAfterCancel
<1> SUFFICES ASSUME NEW t \in Tasks
             PROVE  Spec => [](cancelled[t] /\ run[t] \in {"prompting", "recovering"}
                                  => [](inbox[t] # "result"))
  BY DEF NoResultAfterCancel
<1>1. ClaimInv /\ ResultsComeLast
          => (cancelled[t] /\ run[t] \in {"prompting", "recovering"} => Silenced(t))
  BY DEF ClaimInv, RunsAreLaunched, ResultsComeLast, Silenced
<1>2. Silenced(t) => inbox[t] # "result"
  BY DEF Silenced
<1> QED
  BY <1>1, <1>2, TypedInit, TypedNext, ClaimInit, ClaimNext, ResultsInit, ResultsNext,
     SilencedStays, PTL DEF Spec

(* A task closed as Cancelled has reported nothing, and nobody is left to. *)
NobodyReports(t) ==
    /\ posts[t] = 0
    /\ spawn[t] \in {"launched", "gone"}
    /\ run[t] \in {"over", "none"}
    /\ spawn[t] = "launched" => run[t] = "over"
    /\ t \notin recTodo
CancelledRows ==
    \A t \in Tasks \ early :
        ledger[t].st = "Cancelled" \/ disk[t].st = "Cancelled" => NobodyReports(t)
(* Nor will a later reconcile, once the file knows.                        *)
Hushed(t) == NobodyReports(t) /\ ~IsOpen(ledger[t]) /\ ~IsOpen(disk[t])

(* Nothing is cancelled at first.                                          *)
LEMMA CancelledInit == Init => CancelledRows
BY DEF Init, CancelledRows, NoRow

(* What finalize does to the rows: it closes its own, and prunes.          *)
LEMMA ClosedRows ==
    ASSUME Typed, NEW u \in Tasks, FinishLedger(u)
    PROVE  /\ \A t \in Tasks \ {u} : ledger'[t] = ledger[t] \/ ledger'[t] = NoRow
           /\ ledger'[u] = NoRow \/ ledger'[u].st = outcome[u]
<1> DEFINE l == FinishTask(ledger, u, outcome[u])
           m == SetCallbackState(l, u, "Suppressed")
<1>1. outcome[u] \in Outcomes /\ ledger \in [Tasks -> Rows]
  BY DEF FinishLedger, Typed
<1>2. /\ l \in [Tasks -> Rows]
      /\ \A t \in Tasks \ {u} : l[t] = ledger[t]
      /\ l[u] = NoRow \/ l[u] = [st |-> outcome[u], cb |-> ledger[u].cb]
  BY <1>1, FinishedRow
<1>3. ledger' = Prune(l) \/ ledger' = Prune(m)
  BY DEF FinishLedger, Save
<1> HIDE DEF l
<1>4. /\ m \in [Tasks -> Rows]
      /\ \A t \in Tasks \ {u} : m[t] = l[t]
      /\ \/ m[u] = NoRow /\ l[u] = NoRow
         \/ l[u] # NoRow /\ m[u] = [st |-> l[u].st, cb |-> "Suppressed"]
  BY <1>2, MarkedRow DEF CallbackStates
<1> HIDE DEF m
<1>5. \A t \in Tasks : \/ ledger'[t] = l[t] \/ ledger'[t] = m[t] \/ ledger'[t] = NoRow
  BY <1>2, <1>3, <1>4, PruneRows
<1>6. (l[u] = NoRow \/ l[u].st = outcome[u]) /\ (m[u] = NoRow \/ m[u].st = outcome[u])
  BY <1>2, <1>4
<1> QED
  BY <1>2, <1>4, <1>5, <1>6

(* What marking a row as Sent does to the rows.                            *)
LEMMA SentRows ==
    ASSUME Typed, NEW u \in Tasks, MarkSent(u) \/ ReconcileReport(u)
    PROVE  /\ \A t \in Tasks \ {u} : ledger'[t] = ledger[t]
           /\ ledger'[u] = NoRow \/ ledger'[u].st = ledger[u].st
<1>1. ledger' = SetCallbackState(ledger, u, "Sent")
  BY DEF MarkSent, ReconcileReport, Save
<1>2. ledger \in [Tasks -> Rows] /\ "Sent" \in CallbackStates
  BY DEF Typed, CallbackStates
<1>3. /\ \A t \in Tasks \ {u} : ledger'[t] = ledger[t]
      /\ \/ ledger'[u] = NoRow
         \/ ledger'[u] = [st |-> ledger[u].st, cb |-> "Sent"]
  BY <1>1, <1>2, MarkedRow
<1> QED
  BY <1>3

(* Who no longer reports stays so, if no step opens the row in memory.     *)
LEMMA NobodyStays ==
    ASSUME NEW t \in Tasks, Typed, NobodyReports(t), [Next]_vars, ~IsOpen(ledger[t])
    PROVE  NobodyReports(t)' /\ (~Restart => ~IsOpen(ledger'[t]))
<1> USE DEF spawnVars, sessionVars, taskVars, runVars, ledgerVars, stopVars, recVars, wakeVars,
        pastVars, rowVars
<1>1. ASSUME posts'[t] = posts[t], spawn'[t] = spawn[t], run'[t] = run[t],
             recTodo' \subseteq recTodo
      PROVE  NobodyReports(t)'
  BY <1>1 DEF NobodyReports
<1>2. ASSUME NEW u \in Tasks,
             \/ \E k \in Keys : SpawnBegin(u, k)
             \/ SpawnLookup(u) \/ SpawnOpened(u) \/ SpawnFails(u) \/ SpawnClaim(u)
             \/ SpawnRefused(u) \/ SpawnRegister(u) \/ SpawnLaunch(u) \/ SpawnDropped(u)
      PROVE  NobodyReports(t)' /\ ~IsOpen(ledger'[t])
  <2>1. u # t
    BY <1>2 DEF NobodyReports, SpawnBegin, SpawnLookup, SpawnOpened, SpawnFails, SpawnClaim,
       SpawnRefused, SpawnRegister, SpawnLaunch, SpawnDropped, InFlightStates
  <2>2. spawn'[t] = spawn[t] /\ run'[t] = run[t]
    BY <1>2, <2>1 DEF Typed, SpawnBegin, SpawnLookup, SpawnOpened, SpawnFails, SpawnClaim,
       SpawnRefused, SpawnRegister, SpawnLaunch, SpawnDropped
  <2>3. UNCHANGED <<posts, recTodo, ledger>>
    BY <1>2 DEF SpawnBegin, SpawnLookup, SpawnOpened, SpawnFails, SpawnClaim,
       SpawnRefused, SpawnRegister, SpawnLaunch, SpawnDropped, Save
  <2> QED
    BY <1>1, <2>2, <2>3
<1>3. ASSUME NEW u \in Tasks, SpawnRecord(u) PROVE NobodyReports(t)' /\ ~IsOpen(ledger'[t])
  <2>1. u # t
    BY <1>3 DEF NobodyReports, SpawnRecord
  <2>2. spawn'[t] = spawn[t] /\ UNCHANGED <<run, posts, recTodo>> /\ ledger'[t] = ledger[t]
    BY <1>3, <2>1 DEF Typed, SpawnRecord, Save
  <2> QED
    BY <1>1, <2>2
<1>4. ASSUME NEW u \in Tasks,
             \/ PromptSettles(u) \/ SocketLost(u) \/ RecoveryEnds(u) \/ FinishStatus(u)
             \/ FreeSession(u) \/ SendResult(u)
      PROVE  NobodyReports(t)' /\ ~IsOpen(ledger'[t])
  <2>1. u # t
    BY <1>4 DEF NobodyReports, PromptSettles, SocketLost, RecoveryEnds, FinishStatus, FreeSession,
       SendResult
  <2>2. run'[t] = run[t] /\ posts'[t] = posts[t] /\ UNCHANGED <<spawn, recTodo, ledger>>
    BY <1>4, <2>1 DEF Typed, PromptSettles, SocketLost, RecoveryEnds, FinishStatus, FreeSession,
       SendResult, Settle, DeliverDetached
  <2> QED
    BY <1>1, <2>2
<1>5. ASSUME NEW u \in Tasks, FinishLedger(u) PROVE NobodyReports(t)' /\ ~IsOpen(ledger'[t])
  <2>1. u # t
    BY <1>5 DEF NobodyReports, FinishLedger
  <2>5. ledger'[t] = ledger[t] \/ ledger'[t] = NoRow
    BY <1>5, <2>1, ClosedRows
  <2>6. run'[t] = run[t] /\ UNCHANGED <<spawn, posts, recTodo>>
    BY <1>5, <2>1 DEF FinishLedger, Typed
  <2> QED
    BY <1>1, <2>5, <2>6 DEF IsOpen, NoRow
<1>6. ASSUME NEW u \in Tasks, MarkSent(u) \/ ReconcileReport(u)
      PROVE  NobodyReports(t)' /\ ~IsOpen(ledger'[t])
  <2>1. u # t
    BY <1>6 DEF NobodyReports, MarkSent, ReconcileReport
  <2>2. ledger'[t] = ledger[t]
    BY <1>6, <2>1, SentRows
  <2>3. run'[t] = run[t] /\ posts'[t] = posts[t] /\ recTodo' \subseteq recTodo /\ UNCHANGED spawn
    BY <1>6, <2>1 DEF MarkSent, ReconcileReport, DeliverDetached, Typed
  <2> QED
    BY <1>1, <2>2, <2>3
<1>7. CASE StopSave
  <2>1. ledger'[t] = ledger[t] \/ ledger'[t] = NoRow
    BY <1>7, PruneRows DEF StopSave, Save, Typed
  <2> QED
    BY <1>1, <1>7, <2>1 DEF StopSave, IsOpen, NoRow
<1>8. CASE ReconcileInterrupt
  <2>1. InterruptOpenTasks(ledger) \in [Tasks -> Rows] /\ InterruptOpenTasks(ledger)[t] = ledger[t]
    BY InterruptedRows DEF Typed
  <2>2. ledger'[t] = ledger[t] \/ ledger'[t] = NoRow
    BY <1>8, <2>1, PruneRows DEF ReconcileInterrupt, Save
  <2>3. t \notin recTodo'
    BY <1>8 DEF ReconcileInterrupt, OpenRows
  <2> QED
    BY <1>8, <2>2, <2>3 DEF ReconcileInterrupt, NobodyReports, IsOpen, NoRow
<1>9. CASE Restart
  BY <1>9 DEF Restart, NobodyReports
<1>10. ASSUME UNCHANGED <<posts, spawn, run, recTodo, ledger>>
       PROVE  NobodyReports(t)' /\ ~IsOpen(ledger'[t])
  BY <1>1, <1>10
<1>11. ASSUME NEW u \in Tasks,
              \/ ForgetTask(u) \/ CancelCheck(u) \/ CancelFlag(u) \/ CancelAnswer(u)
              \/ SessionUnloaded(u) \/ StopMark(u)
              \/ \E r \in Reports : Delivered(u, r) \/ DeliveryLost(u, r)
       PROVE  NobodyReports(t)' /\ ~IsOpen(ledger'[t])
  BY <1>10, <1>11 DEF ForgetTask, CancelCheck, CancelFlag, CancelAnswer, SessionUnloaded,
     StopMark, Delivered, DeliveryLost
<1>12. CASE StopBegin \/ StopSnapshot \/ ReconcileScan \/ ReconcileDone \/ UNCHANGED vars
  BY <1>10, <1>12 DEF StopBegin, StopSnapshot, ReconcileScan, ReconcileDone, vars
<1> QED
  BY <1>2, <1>3, <1>4, <1>5, <1>6, <1>7, <1>8, <1>9, <1>11, <1>12
     DEF Next, SpawnStep, RunStep, CancelStep, StopStep, ReconcileStep

(* A row turns Cancelled only by the finalize of its own run.              *)
LEMMA CancelledOnlyThen ==
    ASSUME Typed, WakeInv, [Next]_vars, ~Restart,
           NEW t \in Tasks \ early, ledger'[t].st = "Cancelled", ledger[t].st # "Cancelled"
    PROVE  FinishLedger(t)
<1> USE DEF spawnVars, sessionVars, taskVars, runVars, ledgerVars, stopVars, recVars, wakeVars,
        pastVars, rowVars
<1>0. ledger \in [Tasks -> Rows]
  BY DEF Typed
<1>1. ledger' # ledger
  OBVIOUS
<1>2. ASSUME NEW u \in Tasks, SpawnRecord(u) PROVE FALSE
  BY <1>0, <1>2 DEF SpawnRecord, Save
<1>3. ASSUME NEW u \in Tasks, FinishLedger(u), u # t PROVE FALSE
  BY <1>3, ClosedRows DEF NoRow
<1>4. ASSUME NEW u \in Tasks, MarkSent(u) \/ ReconcileReport(u) PROVE FALSE
  BY <1>4, SentRows DEF NoRow
<1>5. CASE StopSave
  BY <1>0, <1>5, PruneRows DEF StopSave, Save, NoRow
<1>6. CASE ReconcileInterrupt
  <2>1. /\ InterruptOpenTasks(ledger) \in [Tasks -> Rows]
        /\ InterruptOpenTasks(ledger)[t].st # "Cancelled"
    <3>1. /\ InterruptOpenTasks(ledger) \in [Tasks -> Rows]
          /\ \/ InterruptOpenTasks(ledger)[t] = ledger[t]
             \/ InterruptOpenTasks(ledger)[t] = [st |-> "Interrupted", cb |-> ledger[t].cb]
      BY <1>0, InterruptedRows
    <3> QED
      BY <3>1
  <2> QED
    BY <1>6, <2>1, PruneRows DEF ReconcileInterrupt, Save, NoRow
<1>7. ASSUME NEW u \in Tasks,
             \/ \E k \in Keys : SpawnBegin(u, k)
             \/ SpawnLookup(u) \/ SpawnOpened(u) \/ SpawnFails(u) \/ SpawnClaim(u)
             \/ SpawnRefused(u) \/ SpawnRegister(u) \/ SpawnLaunch(u) \/ SpawnDropped(u)
             \/ PromptSettles(u) \/ SocketLost(u) \/ RecoveryEnds(u) \/ FinishStatus(u)
             \/ FreeSession(u) \/ SendResult(u) \/ ForgetTask(u)
      PROVE  FALSE
  BY <1>1, <1>7 DEF SpawnBegin, SpawnLookup, SpawnOpened, SpawnFails, SpawnClaim, SpawnRefused,
     SpawnRegister, SpawnLaunch, SpawnDropped, Save, PromptSettles, SocketLost, RecoveryEnds,
     FinishStatus, FreeSession, SendResult, ForgetTask
<1>8. ASSUME NEW u \in Tasks,
             \/ CancelCheck(u) \/ CancelFlag(u) \/ CancelAnswer(u) \/ SessionUnloaded(u)
             \/ StopMark(u)
             \/ \E r \in Reports : Delivered(u, r) \/ DeliveryLost(u, r)
      PROVE  FALSE
  BY <1>1, <1>8 DEF CancelCheck, CancelFlag, CancelAnswer, SessionUnloaded, StopMark, Delivered,
     DeliveryLost
<1>9. CASE StopBegin \/ StopSnapshot \/ ReconcileScan \/ ReconcileDone \/ UNCHANGED vars
  BY <1>1, <1>9 DEF StopBegin, StopSnapshot, ReconcileScan, ReconcileDone, vars
<1> QED
  BY <1>2, <1>3, <1>4, <1>5, <1>6, <1>7, <1>8, <1>9
     DEF Next, SpawnStep, RunStep, CancelStep, StopStep, ReconcileStep

(* Every step keeps it.                                                    *)
LEMMA CancelledNext ==
    Typed /\ ClaimInv /\ WakeInv /\ FileInv /\ FileInv' /\ CancelledRows /\ [Next]_vars
        => CancelledRows'
<1> SUFFICES ASSUME Typed, ClaimInv, WakeInv, FileInv, CancelledRows, [Next]_vars,
                    NEW t \in Tasks \ early',
                    ledger'[t].st = "Cancelled" \/ disk'[t].st = "Cancelled"
             PROVE  NobodyReports(t)'
  BY DEF CancelledRows
<1>1. t \in Tasks \ early
  <2>1. CASE Restart
    BY <2>1 DEF Restart
  <2>2. CASE ~Restart
    BY <2>2, FileSteps
  <2> QED
    BY <2>1, <2>2
<1>2. CASE ledger[t].st = "Cancelled" \/ disk[t].st = "Cancelled"
  <2>1. ~IsOpen(ledger[t])
    BY <1>1, <1>2 DEF IsOpen, FileInv, FileBehind, Forward, Outcomes, NoRow
  <2> QED
    BY <1>1, <1>2, <2>1, NobodyStays DEF CancelledRows
<1>3. CASE ledger[t].st # "Cancelled" /\ disk[t].st # "Cancelled"
  <2>1. ~Restart
    BY <1>3 DEF Restart
  <2>2. ledger'[t].st = "Cancelled"
    BY <1>3, <2>1, FileSteps DEF rowVars
  <2>3. FinishLedger(t)
    BY <1>1, <1>3, <2>1, <2>2, CancelledOnlyThen
  <2>4. run[t] = "freed" /\ spawn[t] = "launched" /\ posts[t] = 0 /\ t \notin recTodo
    BY <1>1, <2>3 DEF FinishLedger, ClaimInv, RunsAreLaunched, WakeInv, PostedAtTheEnd,
       OrphansUnposted, Typed
  <2>5. outcome[t] = "Cancelled"
    BY <2>2, <2>3, ClosedRows DEF NoRow
  <2> QED
    BY <2>3, <2>4, <2>5 DEF FinishLedger, NobodyReports, spawnVars, recVars, wakeVars, Typed
<1> QED
  BY <1>2, <1>3

(* Nothing ever wakes a task whose row the file holds as Cancelled.        *)
LEMMA HushedStays ==
    ASSUME NEW t \in Tasks
    PROVE  Typed /\ Hushed(t) /\ [Next]_vars => Hushed(t)'
<1> SUFFICES ASSUME Typed, Hushed(t), [Next]_vars PROVE Hushed(t)'
  OBVIOUS
<1>1. NobodyReports(t)' /\ (~Restart => ~IsOpen(ledger'[t]))
  BY NobodyStays DEF Hushed
<1>2. CASE Restart
  BY <1>1, <1>2 DEF Restart, Hushed
<1>3. CASE ~Restart
  <2>1. disk' = disk \/ disk' = ledger'
    BY <1>3, FileSteps DEF rowVars
  <2> QED
    BY <1>1, <1>3, <2>1 DEF Hushed
<1> QED
  BY <1>2, <1>3

(* From the save that closes its row as Cancelled on, nothing is handed to *)
(* delivery for a task, across any number of crashes, restarts and later   *)
(* failed saves.                                                           *)
LEMMA CancelledSafety == Spec => CancelledIsSilent
<1> SUFFICES ASSUME NEW t \in Tasks
             PROVE  Spec => [](disk[t].st = "Cancelled" /\ t \notin early => [](posts[t] = 0))
  BY DEF CancelledIsSilent
<1>1. FileInv /\ CancelledRows => (disk[t].st = "Cancelled" /\ t \notin early => Hushed(t))
  BY DEF FileInv, FileBehind, Forward, CancelledRows, Hushed, IsOpen, Outcomes, NoRow
<1>2. Hushed(t) => posts[t] = 0
  BY DEF Hushed, NobodyReports
<1> QED
  BY <1>1, <1>2, RowsInvariant, CancelledInit, CancelledNext, HushedStays, PTL DEF Spec

(* What a cancel is good for, through all lives of Portal: no result once  *)
(* finalize has to see the flag, no word at all once the file has it.      *)
THEOREM CancelSafety == Spec => CancelHolds
BY NoResultSafety, CancelledSafety DEF CancelHolds

-----------------------------------------------------------------------------
-----------------------------------------------------------------------------
(* The session map implements one lock per key *)

Holder == [k \in Keys |-> IF sessionOf[k] = None THEN None ELSE busy[sessionOf[k]]]

(* A session object that is not opened yet is not busy, and only tasks     *)
(* that have claimed are ever in busy_task.                                *)
BusyObjects ==
    \A o \in Tasks : busy[o] # None =>
        /\ spawn[o] \notin {"idle", "begun", "opening"}
        /\ spawn[busy[o]] \notin {"idle", "begun", "opening", "opened"}

(* No session is busy at first.                                            *)
LEMMA BusyInit == Init => BusyObjects
BY DEF Init, BusyObjects

(* A busy_task is set by the task it names and cleared by it.              *)
LEMMA BusyNext == Typed /\ ClaimInv /\ BusyObjects /\ [Next]_vars => BusyObjects'
<1> SUFFICES ASSUME Typed, ClaimInv, BusyObjects, [Next]_vars PROVE BusyObjects'
  OBVIOUS
<1> USE DEF spawnVars, sessionVars, taskVars, runVars, ledgerVars, rowVars, stopVars, recVars,
            wakeVars, pastVars
<1>1. ASSUME NEW t \in Tasks, NEW s \in SpawnStates, spawn' = [spawn EXCEPT ![t] = s],
             spawn[t] \in {"idle", "begun", "opening"} => s \in {"begun", "opening", "opened", "refused", "dropped"},
             spawn[t] \notin {"idle", "begun", "opening"} => s \in SpawnStates \ {"idle", "begun", "opening", "opened"},
             UNCHANGED busy
      PROVE  BusyObjects'
  BY <1>1 DEF BusyObjects, Typed
<1>2. ASSUME NEW t \in Tasks, SpawnClaim(t) PROVE BusyObjects'
  <2>1. obj[t] \in Tasks /\ spawn[obj[t]] \notin {"idle", "begun", "opening"}
    BY <1>2, NoneAssumption DEF SpawnClaim, Typed, ClaimInv, ObjectsFound, ObjectsOwned
  <2> QED
    BY <1>2, <2>1, NoneAssumption DEF SpawnClaim, BusyObjects, Typed
<1>3. ASSUME NEW t \in Tasks,
             \/ \E k \in Keys : SpawnBegin(t, k)
             \/ SpawnLookup(t) \/ SpawnOpened(t) \/ SpawnFails(t)
      PROVE  BusyObjects'
  BY <1>1, <1>3 DEF SpawnBegin, SpawnLookup, SpawnOpened, SpawnFails, SpawnStates
<1>4. ASSUME NEW t \in Tasks,
             \/ SpawnRefused(t) \/ SpawnRegister(t) \/ SpawnRecord(t) \/ SpawnLaunch(t)
             \/ SpawnDropped(t)
      PROVE  BusyObjects'
  BY <1>1, <1>4 DEF SpawnRefused, SpawnRegister, SpawnRecord, SpawnLaunch, SpawnDropped,
     SpawnStates, InFlightStates
<1>5. ASSUME NEW t \in Tasks, FreeSession(t) PROVE BusyObjects'
  BY <1>5 DEF FreeSession, BusyObjects, Typed
<1>6. CASE Restart
  BY <1>6 DEF Restart, BusyObjects
<1>7. ASSUME UNCHANGED <<spawn, busy>> PROVE BusyObjects'
  BY <1>7 DEF BusyObjects
<1>8. ASSUME NEW t \in Tasks,
             \/ PromptSettles(t) \/ SocketLost(t) \/ RecoveryEnds(t) \/ FinishStatus(t)
             \/ FinishLedger(t) \/ MarkSent(t) \/ SendResult(t) \/ ForgetTask(t)
             \/ CancelCheck(t) \/ CancelFlag(t) \/ CancelAnswer(t) \/ SessionUnloaded(t)
             \/ StopMark(t) \/ ReconcileReport(t)
             \/ \E r \in Reports : Delivered(t, r) \/ DeliveryLost(t, r)
      PROVE  BusyObjects'
  BY <1>7, <1>8 DEF PromptSettles, SocketLost, RecoveryEnds, FinishStatus, FinishLedger, MarkSent,
     SendResult, ForgetTask, CancelCheck, CancelFlag, CancelAnswer, SessionUnloaded, StopMark,
     ReconcileReport, Delivered, DeliveryLost
<1>9. CASE \/ StopBegin \/ StopSnapshot \/ StopSave \/ ReconcileScan \/ ReconcileInterrupt
           \/ ReconcileDone \/ UNCHANGED vars
  BY <1>7, <1>9 DEF StopBegin, StopSnapshot, StopSave, ReconcileScan, ReconcileInterrupt,
     ReconcileDone, vars
<1> QED
  BY <1>2, <1>3, <1>4, <1>5, <1>6, <1>8, <1>9
     DEF Next, SpawnStep, RunStep, CancelStep, StopStep, ReconcileStep

(* The initial states are initial states of the claims.                    *)
LEMMA ClaimsInit == Init => Claims!Init
BY DEF Init, Claims!Init

(* Each step takes a free key for a task that holds none, gives one key    *)
(* back, drops all of them, or leaves the holders alone.                   *)
LEMMA ClaimsStep ==
    Typed /\ ClaimInv /\ BusyObjects /\ [Next]_vars => Claims!Next \/ UNCHANGED Holder
<1> SUFFICES ASSUME Typed, ClaimInv, BusyObjects, [Next]_vars
             PROVE  Claims!Next \/ UNCHANGED Holder
  OBVIOUS
<1> USE DEF spawnVars, sessionVars, taskVars, runVars, ledgerVars, rowVars, stopVars, recVars,
            wakeVars, pastVars
<1>1. ASSUME NEW t \in Tasks, SpawnOpened(t) PROVE UNCHANGED Holder
  <2>1. busy[t] = None /\ key[t] \in Keys
    BY <1>1 DEF SpawnOpened, BusyObjects, Typed
  <2>2. obj[t] = t => sessionOf[key[t]] = None \/ sessionOf[key[t]] = t
    BY <1>1 DEF SpawnOpened, ClaimInv, ObjectsFound
  <2> QED
    BY <1>1, <2>1, <2>2, NoneAssumption DEF SpawnOpened, Holder, Typed
<1>2. ASSUME NEW t \in Tasks, SpawnClaim(t) PROVE Claims!Next
  <2>1. /\ key[t] \in Keys /\ obj[t] \in Tasks /\ sessionOf[key[t]] = obj[t]
        /\ \A k \in Keys : sessionOf[k] = obj[t] => k = key[t]
    BY <1>2, NoneAssumption DEF SpawnClaim, Typed, ClaimInv, ObjectsFound, ObjectsOwned
  <2>2. Holder[key[t]] = None
    BY <1>2, <2>1, NoneAssumption DEF SpawnClaim, Holder
  <2>3. \A k \in Keys : Holder[k] # t
    BY <1>2, NoneAssumption DEF SpawnClaim, Holder, BusyObjects, Typed
  <2>4. Holder' = [Holder EXCEPT ![key[t]] = t]
    <3>1. sessionOf' = sessionOf /\ busy' = [busy EXCEPT ![obj[t]] = t] /\ busy \in [Tasks -> Tasks \cup {None}]
      BY <1>2 DEF SpawnClaim, Typed
    <3>2. busy'[obj[t]] = t /\ \A o \in Tasks : o # obj[t] => busy'[o] = busy[o]
      BY <2>1, <3>1
    <3>3. \A k \in Keys : sessionOf[k] \in Tasks \cup {None}
      BY DEF Typed
    <3>4. ASSUME NEW k \in Keys PROVE Holder'[k] = IF k = key[t] THEN t ELSE Holder[k]
      BY <2>1, <3>1, <3>2, <3>3, NoneAssumption DEF Holder
    <3> QED
      BY <2>1, <3>4 DEF Holder
  <2> QED
    BY <2>1, <2>2, <2>3, <2>4 DEF Claims!Next, Claims!Acquire, Holder
<1>3. ASSUME NEW t \in Tasks, FreeSession(t) PROVE Claims!Next
  <2>1. /\ key[t] \in Keys /\ obj[t] \in Tasks /\ sessionOf[key[t]] = obj[t]
        /\ \A k \in Keys : sessionOf[k] = obj[t] => k = key[t]
        /\ busy[obj[t]] = t
    BY <1>3, NoneAssumption DEF FreeSession, Typed, ClaimInv, ObjectsFound, ObjectsOwned,
       RunsAreLaunched, HoldersBusy, Holds
  <2>2. Holder[key[t]] # None
    BY <2>1, NoneAssumption DEF Holder
  <2>3. Holder' = [Holder EXCEPT ![key[t]] = None]
    BY <1>3, <2>1, NoneAssumption DEF FreeSession, Holder, Typed
  <2> QED
    BY <2>1, <2>2, <2>3 DEF Claims!Next, Claims!Release, Holder
<1>4. CASE Restart
  BY <1>4 DEF Restart, Claims!Next, Claims!Forget
<1>5. ASSUME UNCHANGED <<sessionOf, busy>> PROVE UNCHANGED Holder
  BY <1>5 DEF Holder
<1>6. ASSUME NEW t \in Tasks,
             \/ \E k \in Keys : SpawnBegin(t, k)
             \/ SpawnLookup(t) \/ SpawnFails(t) \/ SpawnRefused(t) \/ SpawnRegister(t)
             \/ SpawnRecord(t) \/ SpawnLaunch(t) \/ SpawnDropped(t)
      PROVE  UNCHANGED Holder
  BY <1>5, <1>6 DEF SpawnBegin, SpawnLookup, SpawnFails, SpawnRefused, SpawnRegister, SpawnRecord,
     SpawnLaunch, SpawnDropped
<1>7. ASSUME NEW t \in Tasks,
             \/ PromptSettles(t) \/ SocketLost(t) \/ RecoveryEnds(t) \/ FinishStatus(t)
             \/ FinishLedger(t) \/ MarkSent(t) \/ SendResult(t) \/ ForgetTask(t)
             \/ CancelCheck(t) \/ CancelFlag(t) \/ CancelAnswer(t) \/ SessionUnloaded(t)
             \/ StopMark(t) \/ ReconcileReport(t)
             \/ \E r \in Reports : Delivered(t, r) \/ DeliveryLost(t, r)
      PROVE  UNCHANGED Holder
  BY <1>5, <1>7 DEF PromptSettles, SocketLost, RecoveryEnds, FinishStatus, FinishLedger, MarkSent,
     SendResult, ForgetTask, CancelCheck, CancelFlag, CancelAnswer, SessionUnloaded, StopMark,
     ReconcileReport, Delivered, DeliveryLost
<1>8. CASE \/ StopBegin \/ StopSnapshot \/ StopSave \/ ReconcileScan \/ ReconcileInterrupt
           \/ ReconcileDone \/ UNCHANGED vars
  BY <1>5, <1>8 DEF StopBegin, StopSnapshot, StopSave, ReconcileScan, ReconcileInterrupt,
     ReconcileDone, vars
<1> QED
  BY <1>1, <1>2, <1>3, <1>4, <1>6, <1>7, <1>8
     DEF Next, SpawnStep, RunStep, CancelStep, StopStep, ReconcileStep

(* The session map with its busy_task fields implements one lock per key.  *)
THEOREM ClaimsRefined == Spec => ImplementsClaims
BY TypedInit, TypedNext, ClaimInit, ClaimNext, BusyInit, BusyNext, ClaimsInit, ClaimsStep, PTL
   DEF Spec, ImplementsClaims, Claims!Spec, Holder
=============================================================================

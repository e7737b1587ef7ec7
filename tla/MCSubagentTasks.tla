-------------------------- MODULE MCSubagentTasks --------------------------
(* Model-checking instances of SubagentTasks with two spawn calls. *)
EXTENDS SubagentTasks

(* Bound: a behaviour tells one story, which leaves out some of what the   *)
(* environment may do.  In the run `sessions`:                             *)
(*   claims    two sessions; callers and pi sessions go away               *)
(*   ends      one session, one task at a time; all that ends a run, and a *)
(*             shutdown                                                    *)
(* and in the run `lives`:                                                 *)
(*   task      one task, spawned in the first life, and every event but      *)
(*             the forgetting of a finished task                           *)
(*   orphans   two tasks in the last two lives: the last one starts with   *)
(*             rows to reconcile while spawns are served                   *)
(* Tasks and keys are interchangeable, so the first task and its key are   *)
(* always the same.                                                        *)
VARIABLE story

FirstTask == CHOOSE t \in Tasks : TRUE
FirstKey  == CHOOSE k \in Keys : TRUE

FirstComesFirst ==
    /\ key'[FirstTask] \in {FirstKey, None}
    /\ \A t \in Tasks : spawn'[t] # "idle" => spawn'[FirstTask] # "idle"

Claiming ==
    /\ ~StopBegin
    /\ \A t \in Tasks : ~CancelCheck(t)

Ending ==
    /\ \A t \in Tasks : key'[t] \in {FirstKey, None}
    /\ permits' >= MaxConcurrent - 1
    /\ \A t \in Tasks : ~SpawnDropped(t) /\ ~SessionUnloaded(t)

OneTask ==
    /\ \A t \in Tasks \ {FirstTask} : spawn'[t] = "idle"
    /\ life' > 1 => spawn'[FirstTask] \in {"idle", "gone"}
    /\ \A t \in Tasks : ~ForgetTask(t)

Reconciling ==
    /\ life' < MaxLives - 1 => \A t \in Tasks : spawn'[t] = "idle"
    /\ ~saveFailed'
    /\ ~StopBegin
    /\ \A t \in Tasks : ~SpawnDropped(t) /\ ~SessionUnloaded(t) /\ ~SocketLost(t)
    /\ \A t \in Tasks : ~CancelCheck(t) /\ ~ForgetTask(t)
    /\ \A t \in Tasks, report \in Reports : ~DeliveryLost(t, report)

MCNext ==
    /\ Next
    /\ FirstComesFirst
    /\ story = "claims" => Claiming
    /\ story = "ends" => Ending
    /\ story = "task" => OneTask
    /\ story = "orphans" => Reconciling
    /\ UNCHANGED story

SessionsInit == Init /\ story \in {"claims", "ends"}
LivesInit    == Init /\ story \in {"task", "orphans"}

SessionsSpec == SessionsInit /\ [][MCNext]_<<vars, story>> /\ Fairness
LivesSpec    == LivesInit /\ [][MCNext]_<<vars, story>> /\ Fairness
=============================================================================

---------------------------- MODULE SessionClaims ----------------------------
(***************************************************************************)
(* What SubagentManager promises about session keys: a key is held by at   *)
(* most one task, a task takes it only when it is free and nobody but the  *)
(* holder's end (or the end of Portal) takes it away.                      *)
(***************************************************************************)
CONSTANTS Keys, Tasks, None

VARIABLE holder     \* [Keys -> Tasks \cup {None}]

Init == holder = [k \in Keys |-> None]

Acquire(k, t) ==
    /\ holder[k] = None
    /\ \A j \in Keys : holder[j] # t
    /\ holder' = [holder EXCEPT ![k] = t]

Release(k) ==
    /\ holder[k] # None
    /\ holder' = [holder EXCEPT ![k] = None]

(* Portal goes down: nothing is held any more. *)
Forget == holder' = [k \in Keys |-> None]

Next ==
    \/ \E k \in Keys, t \in Tasks : Acquire(k, t)
    \/ \E k \in Keys : Release(k)
    \/ Forget

Spec == Init /\ [][Next]_holder
=============================================================================

---------------------------- MODULE RequestSlots ----------------------------
(***************************************************************************)
(* What one MCP connection promises about JSON-RPC ids: an id stands for   *)
(* at most one request at a time, only the request that holds its id is    *)
(* answered, and a request whose id was withdrawn by a cancellation never  *)
(* is, also when the id has been given to a later request meanwhile.       *)
(***************************************************************************)
CONSTANTS Requests, Ids, None

VARIABLES
    slot,       \* [Ids -> the request that holds the id, or None]
    answered,   \* requests answered with their result
    open        \* the connection is up

vars == <<slot, answered, open>>

Init ==
    /\ slot = [i \in Ids |-> None]
    /\ answered = {}
    /\ open = TRUE

Admit(r, i) ==
    /\ open
    /\ slot[i] = None
    /\ r \notin answered
    /\ \A j \in Ids : slot[j] # r
    /\ slot' = [slot EXCEPT ![i] = r]
    /\ UNCHANGED <<answered, open>>

Answer(i) ==
    /\ open
    /\ slot[i] # None
    /\ answered' = answered \cup {slot[i]}
    /\ slot' = [slot EXCEPT ![i] = None]
    /\ UNCHANGED open

Cancel(i) ==
    /\ open
    /\ slot[i] # None
    /\ slot' = [slot EXCEPT ![i] = None]
    /\ UNCHANGED <<answered, open>>

Close ==
    /\ open
    /\ open' = FALSE
    /\ slot' = [i \in Ids |-> None]
    /\ UNCHANGED answered

Next ==
    \/ \E i \in Ids : Answer(i) \/ Cancel(i) \/ \E r \in Requests : Admit(r, i)
    \/ Close

Spec == Init /\ [][Next]_vars
=============================================================================

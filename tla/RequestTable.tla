----------------------------- MODULE RequestTable -----------------------------
(***************************************************************************)
(* What a client with a table of open requests promises its callers: a     *)
(* request is opened at most once, and only while the connection is up and *)
(* the table has room; a caller that has returned leaves nothing behind;   *)
(* and when the connection goes down every open request is settled at once *)
(* and none is opened any more.                                            *)
(***************************************************************************)
EXTENDS Naturals, FiniteSets

CONSTANTS
    Requests,
    MaxPending

VARIABLES
    open, \* requests that wait for an answer
    seen, \* requests that were opened, or returned without
    over, \* requests whose caller has returned
    up    \* the connection may still bring answers

vars == <<open, seen, over, up>>

Init == open = {} /\ seen = {} /\ over = {} /\ up = TRUE

Open(r) ==
    /\ up
    /\ r \notin seen
    /\ Cardinality(open) < MaxPending
    /\ open' = open \cup {r}
    /\ seen' = seen \cup {r}
    /\ UNCHANGED <<over, up>>

Answer(r) ==
    /\ r \in open
    /\ open' = open \ {r}
    /\ UNCHANGED <<seen, over, up>>

Return(r) ==
    /\ r \notin over
    /\ open' = open \ {r}
    /\ seen' = seen \cup {r}
    /\ over' = over \cup {r}
    /\ UNCHANGED up

Down ==
    /\ up' = FALSE
    /\ open' = {}
    /\ UNCHANGED <<seen, over>>

Next == Down \/ \E r \in Requests : Open(r) \/ Answer(r) \/ Return(r)

Spec == Init /\ [][Next]_vars
=============================================================================

---------------------------- MODULE MCConnection ----------------------------
(* The model-checking instance of Connection. *)
EXTENDS Connection

(* Bound: a behaviour has all the requests, or a second change of the tool *)
(* list, which may fall into the notification of the first.                *)
MCNext ==
    /\ Next
    /\ tools' < MaxChanges \/ \E r \in Requests : call'[r] = "unsent"

MCSpec == Init /\ [][MCNext]_vars /\ Fairness
=============================================================================

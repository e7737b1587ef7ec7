-------------------------- MODULE MCProcessManager --------------------------
(* A background session as its callers meet it, and the output it leaves.  *)
EXTENDS ProcessManager, OutputLog

Narrow == [raw |-> 1, wide |-> 1]
Broad  == [raw |-> 2, wide |-> 2]
TwoCharacters == {Narrow, Broad}

(* The properties of the two never meet: a behaviour is about the life of  *)
(* a session, whose output is a chunk, or about that output.               *)
VARIABLE half

MCInit ==
    /\ Init
    /\ LogInit
    /\ half \in {"session", "output"}
    /\ half = "session" => \A p \in Pipes : \A i \in 1..MaxChars : script[p][i] = Narrow

MCNext ==
    /\ \/ half = "session" /\ Next /\ UNCHANGED logVars
       \/ half = "output" /\ LogNext /\ UNCHANGED vars
    /\ UNCHANGED half

MCSpec == MCInit /\ [][MCNext]_<<vars, logVars, half>> /\ Fairness
=============================================================================

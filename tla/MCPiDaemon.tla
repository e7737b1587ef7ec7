------------------------------ MODULE MCPiDaemon ------------------------------
(* The pi daemon, and a task of a pi that has no daemon mode. *)
EXTENDS PiDaemon, TaskRun

OneObject  == 1..1
TwoObjects == 1..2
TwoChildren == 1..2

(* The latch to stdio decides which of the two a task meets: a behaviour   *)
(* is about the daemon, or about one run over stdio.                       *)
VARIABLE transport

MCInit ==
    /\ Init
    /\ RunInit
    /\ transport \in {"daemon", "stdio"}
    /\ transport = "daemon" => chatty
    /\ transport = "stdio" => bound = None /\ ~file

MCNext ==
    /\ \/ transport = "daemon" /\ Next /\ UNCHANGED runVars
       \/ transport = "stdio" /\ TaskNext /\ UNCHANGED vars
    /\ UNCHANGED transport

MCSpec == MCInit /\ [][MCNext]_<<vars, runVars, transport>> /\ Fairness /\ RunFairness
=============================================================================

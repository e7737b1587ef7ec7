---------------------------- MODULE MCToolRegistry ----------------------------
EXTENDS ToolRegistry, TLC

CONSTANTS A, B, a1, a2, b2, v, node, r1, r2, r3, s1, s2

(* Kit A with either of two routes, Kit B with the second one too. *)
KitNames == a1 :> A @@ a2 :> A @@ b2 :> B
KitRoutes == a1 :> {r1} @@ a2 :> {r2} @@ b2 :> {r2}
KitNeeds == a1 :> {} @@ a2 :> {} @@ b2 :> {v}
KitAuth == a1 :> {} @@ a2 :> {[provider |-> "env", needs |-> {v}]} @@ b2 :> {}
OneCommand == [m \in {a1, a2, b2} |-> node]
TwoServers == s1 :> {r1} @@ s2 :> {r1, r3}

(* The Kits and the custom tools share the change notification and the     *)
(* calls, so each behaviour edits the files of one of them: the custom     *)
(* tools with calls beside them, or with reloads of at most one Kit, which *)
(* stays well.                                                             *)
VARIABLE half

MCInit ==
    /\ Init
    /\ half \in {"kits", "custom"}
    /\ supplied \in {[d \in Dirs |-> vs] : vs \in SUBSET Vars}
    /\ half = "kits" => toml = {} /\ (absent = {} \/ supplied = [d \in Dirs |-> Vars])
    /\ half = "custom" => /\ absent = {}
                          /\ supplied = [d \in Dirs |-> {}]
                          /\ disk \in {[d \in Dirs |-> Gone], [d \in Dirs |-> IF d = 1 THEN a1 ELSE Gone]}

MCNext ==
    /\ \/ half = "kits" /\ KitStep
       \/ half = "custom" /\ CustomStep
       \/ half = "custom" /\ refresh = "idle" /\ CallStep
       \/ half = "custom" /\ call = [c \in Calls |-> Idle] /\ kits # {} /\ RefreshStep
    /\ UNCHANGED half

MCSpec == MCInit /\ [][MCNext]_<<vars, half>>
=============================================================================

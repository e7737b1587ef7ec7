---------------------------- MODULE MCKitManager ----------------------------
(* Model-checking instances of KitManager. *)
EXTENDS KitManager, TLC

(* Calls are interchangeable; only for runs without liveness. *)
Symmetry == Permutations(Calls)
=============================================================================

------------------------------ MODULE MCUpgrade ------------------------------
EXTENDS Upgrade
FairSpec == Spec /\ Fair
=============================================================================

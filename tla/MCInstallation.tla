---------------------------- MODULE MCInstallation ----------------------------
EXTENDS Installation, TLC
Interchangeable == Permutations(Downloads)
=============================================================================

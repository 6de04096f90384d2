----------------------------- MODULE MCUliLock -----------------------------
(***************************************************************************)
(* Instances of UliLock for TLC.  The cpus are interchangeable in it.      *)
(***************************************************************************)
EXTENDS UliLock, TLC

Symmetry == Permutations(Cpus)
=============================================================================

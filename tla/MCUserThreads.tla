--------------------------- MODULE MCUserThreads ----------------------------
(***************************************************************************)
(* UserThreads for TLC, with the table of results.                         *)
(***************************************************************************)
EXTENDS UserThreads, MCFibTable
=============================================================================

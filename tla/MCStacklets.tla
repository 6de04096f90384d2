---------------------------- MODULE MCStacklets ----------------------------
(***************************************************************************)
(* Stacklets for TLC, with the table of myfib.c.                           *)
(***************************************************************************)
EXTENDS Stacklets, MCFibTable
=============================================================================

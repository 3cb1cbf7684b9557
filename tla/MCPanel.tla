------------------------------- MODULE MCPanel -------------------------------
(***************************************************************************)
(* A small instance of Panel, with one range, b.                           *)
(***************************************************************************)
EXTENDS Panel

CONSTANTS b
===============================================================================

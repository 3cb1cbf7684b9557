------------------------------- MODULE MCHistory -------------------------------
(***************************************************************************)
(* The scenarios of MCReconciler, run with the history variables.          *)
(***************************************************************************)
EXTENDS MCReconciler, ReconcilerHistory
===============================================================================

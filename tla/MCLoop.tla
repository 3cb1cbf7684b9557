-------------------------------- MODULE MCLoop --------------------------------
(***************************************************************************)
(* Small instances of ReconcileLoop; w1 and w2 are its handlers.           *)
(***************************************************************************)
EXTENDS ReconcileLoop

CONSTANTS w1, w2
===============================================================================

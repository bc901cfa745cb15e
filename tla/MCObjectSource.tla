--------------------------- MODULE MCObjectSource ---------------------------
(* A small instance of ObjectSource.                                       *)
EXTENDS ObjectSource
=============================================================================

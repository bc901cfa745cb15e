------------------------------- MODULE MCChan -------------------------------
(* Small instances of Chan.                                                *)
EXTENDS Chan
=============================================================================

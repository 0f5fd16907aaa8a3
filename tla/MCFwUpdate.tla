---------------------------- MODULE MCFwUpdate ------------------------------
(* Instances of FwUpdate for TLC.                                          *)
EXTENDS FwUpdate
=============================================================================

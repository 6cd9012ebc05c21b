---------------------------- MODULE MCConfigSync ----------------------------
(* ConfigSync for TLC.                                                      *)
EXTENDS ConfigSync
=============================================================================

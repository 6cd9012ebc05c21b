------------------------------ MODULE MCUpkeep -------------------------------
(* Upkeep needs no definitions besides its bounds.                          *)
EXTENDS Upkeep
=============================================================================

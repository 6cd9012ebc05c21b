---------------------------- MODULE MCMonitoring -----------------------------
(* Monitoring needs no definitions besides its bounds.                      *)
EXTENDS Monitoring
=============================================================================

--------------------------- MODULE MCReleaseSwitch ---------------------------
(* Instances of ReleaseSwitch for TLC.                                      *)
EXTENDS ReleaseSwitch, TLC

\* Revisions that behave alike are interchangeable in safety runs.
Symmetry == Permutations(Good)
=============================================================================

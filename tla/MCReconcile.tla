----------------------------- MODULE MCReconcile -----------------------------
(* Instances of Reconcile for TLC.                                          *)
EXTENDS Reconcile, TLC

\* Agents and invocations are interchangeable unless an agent is Broken.
Symmetry == Permutations(Agents) \cup Permutations(Invocations)
=============================================================================

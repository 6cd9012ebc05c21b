---------------------------- MODULE MCMinimalVps -----------------------------
(* MinimalVps with two ports, one of them privileged, and two targets.      *)
EXTENDS MinimalVps, TLC

Runtime(listen, target) == [listen |-> listen, target |-> target]
MCRuntimes == {Runtime(443, "a"), Runtime(2008, "a"), Runtime(2008, "b")}
Symmetry == Permutations(Handlers) \cup Permutations(Scripts)
=============================================================================

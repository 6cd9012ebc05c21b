----------------------------- MODULE MCEnrollment -----------------------------
(* Enrollment for TLC: interchangeable machines, tickets and claims.         *)
EXTENDS Enrollment, TLC

Symmetry == Permutations(Hosts) \cup Permutations(Tickets) \cup Permutations(Claims)
              \cup Permutations(Handlers)
=============================================================================

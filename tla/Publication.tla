----------------------------- MODULE Publication -----------------------------
(***************************************************************************)
(* What the control plane promises about publishing, without invocations,  *)
(* operation ids or a queue order: a change of what an agent should run    *)
(* stays pending until a revision built from it exists.                    *)
(***************************************************************************)
CONSTANTS
  Agents,      \* managed VPS nodes
  Configs      \* what can be compiled for one of them

VARIABLES
  registered,  \* nodes that have an agent
  wanted,      \* wanted[a]: what the tables say agent a should run
  pending,     \* agents that still have to be published
  built        \* built[a]: configurations of the stored revisions of a

vars == <<registered, wanted, pending, built>>

Init ==
  /\ registered \subseteq Agents
  /\ wanted \in [Agents -> Configs]
  /\ pending = registered
  /\ built = [a \in Agents |-> {}]

\* One commit changes what some agents should run; whoever is registered and
\* affected becomes pending in the same step.
Change ==
  /\ wanted' \in [Agents -> Configs]
  /\ \E S \in SUBSET registered :
       /\ \A a \in registered \ S : wanted'[a] = wanted[a]
       /\ pending' = pending \cup S
  /\ UNCHANGED <<registered, built>>

Enroll(a) ==
  /\ registered' = registered \cup {a}
  /\ pending' = pending \cup {a}
  /\ UNCHANGED <<wanted, built>>

\* Several publishers may be at work: what one of them stores may be outdated.
Build(a) ==
  /\ a \in registered
  /\ \E c \in built'[a] : built' = [built EXCEPT ![a] = @ \cup {c}]
  /\ UNCHANGED <<registered, wanted, pending>>

\* An agent is settled only by a revision of what it should run now.
Settle(a) ==
  /\ wanted[a] \in built[a]
  /\ pending' = pending \ {a}
  /\ UNCHANGED <<registered, wanted, built>>

Forget(a) ==
  /\ registered' = registered \ {a}
  /\ pending' = pending \ {a}
  /\ built' = [built EXCEPT ![a] = {}]
  /\ wanted' = [wanted EXCEPT ![a] = wanted'[a]]

Next == Change \/ \E a \in Agents : Enroll(a) \/ Build(a) \/ Settle(a) \/ Forget(a)

Spec == Init /\ [][Next]_vars
=============================================================================

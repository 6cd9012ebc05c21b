-------------------------- MODULE ConfigSyncProofs --------------------------
(***************************************************************************)
(* Proofs about ConfigSync: publishing composed with polling agents is     *)
(* still the publishing of Reconcile, so that its theorems carry over, and *)
(* what subscriptions offer has been applied.                              *)
(*                                                                         *)
(* OfferedIsApplied is about three parties: the target, what the control   *)
(* plane believes, and the VPS.  It holds because a revision becomes the   *)
(* target only once: a publisher about to point an agent holds an id that  *)
(* nothing else has seen (Unseen), so a new target makes every claim under *)
(* way void; and as long as the target stays, a claim that it is applied   *)
(* is true and the agent, which has one call under way at a time           *)
(* (OneCall), is not sent anything else (Truthful).                        *)
(*                                                                         *)
(* OfferedHasEdit and CarefulRetirement compare what was compiled with the *)
(* node, so an id must stand for one revision for ever, on the VPS and on  *)
(* the way too (Genuine), and a target must be set from the node as it is  *)
(* (FreshPoints).  CarefulRetirement also needs invocations to take turns: *)
(* a second DELETE may pass the check while the first one still publishes. *)
(***************************************************************************)
EXTENDS ConfigSync, ReconcileProofs

\* An agent waits for at most one call, and answers go to who waits for them.
OneCall ==
  /\ \A m, n \in net : m.live /\ n.live /\ m.agent = n.agent => m = n
  /\ \A m \in net : m.live =>
       doing[m.agent].pc = (IF m.kind = "result" THEN "reported" ELSE "asked")
  /\ \A m \in net : m.kind = "answer" => m.live

\* The revisions that the agent's side of the system has met.
Seen(a) == {0, marked[a].id, doing[a].got.id, current[a], desired[a]}
             \cup {m.rev.id : m \in {n \in net : n.agent = a}}

SeenBelow == \A a \in Agents : \A i \in Seen(a) : i <= lastRev

Points(w, a) == work[w].pc = "point" /\ work[w].cur = a

PointsBelow == \A w \in Invocations, a \in Agents :
                 Points(w, a) => work[w].rev <= lastRev

Unseen ==
  \A w \in Invocations, a \in Agents : Points(w, a) =>
    /\ work[w].rev \notin Seen(a)
    /\ \A v \in Invocations \ {w} : Points(v, a) => work[v].rev # work[w].rev

\* m claims that its revision is applied.
Claim(m) == m.kind = "sync" \/ (m.kind = "result" /\ m.ok)

Truthful ==
  \A a \in Agents : desired[a] # 0 =>
    /\ current[a] = desired[a] => marked[a].id = desired[a]
    /\ \A m \in net : m.agent = a /\ Claim(m) /\ m.rev.id = desired[a]
                        => marked[a].id = desired[a]
    /\ marked[a].id = desired[a] =>
         /\ doing[a].pc = "apply" => doing[a].got.id = desired[a]
         /\ \A m \in net : m.agent = a /\ m.kind = "answer" /\ m.rev # NoRevision
                             => m.rev.id = desired[a]

SInv ==
  /\ OneCall
  /\ SeenBelow /\ PointsBelow
  /\ rollbacks = 0 => Unseen /\ Truthful

-----------------------------------------------------------------------------
(* Composition                                                              *)

\* A step of the whole system is a step of publishing or leaves it alone.
LEMMA SyncStepIsStep == [SyncNext]_syncVars => [Next]_vars
  <1> SUFFICES ASSUME [SyncNext]_syncVars PROVE [Next]_vars
    OBVIOUS
  <1>1. ASSUME NEW w \in Invocations, Publish(w) \/ Administer(w) \/ Cron(w) PROVE Next
    BY <1>1 DEF Publish, Administer, Cron, Next
  <1>2. ASSUME NEW a \in Agents, RollBack(a) \/ Delete(a) PROVE Next
    BY <1>2 DEF RollBack, Delete, Next
  <1>3. ASSUME NEW w \in Invocations, NEW a \in Agents, CheckDeletion(w, a) PROVE UNCHANGED vars
    BY <1>3 DEF CheckDeletion
  <1>4. ASSUME NEW a \in Agents, AgentStep(a) \/ GiveUp(a) \/ Stumble(a) PROVE UNCHANGED vars
    BY <1>4 DEF AgentStep, Poll, Receive, Apply, Applied, GiveUp, Stumble
  <1>5. ASSUME NEW m \in net, Serve(m) \/ Lose(m) PROVE UNCHANGED vars
    BY <1>5 DEF Serve, StoreReport, AnswerState, StoreResult, Reject, Lose
  <1>6. QED
    BY <1>1, <1>2, <1>3, <1>4, <1>5 DEF SyncNext, syncVars

\* Publishing together with polling agents is still the publishing of Reconcile, so
\* every theorem about Reconcile holds of the whole: the agents only read what the
\* publishers write.
THEOREM DeliveryIsPublishing == SyncSpec => Spec
  <1>1. SyncInit => Init
    BY DEF SyncInit
  <1>2. QED
    BY <1>1, SyncStepIsStep, PTL DEF SyncSpec, Spec

-----------------------------------------------------------------------------
(* Types                                                                    *)

LEMMA CallTypes ==
  ASSUME NEW a \in Agents, NEW rev \in Revised, NEW ok \in BOOLEAN,
         NEW kind \in {"sync", "state", "answer", "result"}
  PROVE  Sent(kind, a, rev, ok) \in Calls
  BY DEF Sent, Calls

\* The fields of a call and what a handler leaves of it.
LEMMA CallFields ==
  ASSUME NEW m \in Calls, NEW b \in BOOLEAN
  PROVE  /\ m.agent \in Agents /\ m.rev \in Revised /\ m.ok \in BOOLEAN /\ m.live \in BOOLEAN
         /\ [m EXCEPT !.live = b] \in Calls
         /\ [m EXCEPT !.kind = "state"] \in Calls
  BY DEF Calls

LEMMA RevisedFields ==
  ASSUME NEW r \in Revised
  PROVE  r.id \in Nat /\ NoRevision \in Revised
  BY DEF Revised, Revisions, NoRevision

LEMMA TurnType ==
  ASSUME doing \in [Agents -> Doings], NEW a \in Agents,
         NEW pc \in {"idle", "asked", "apply", "reported"}, NEW got \in Revised,
         Turn(a, pc, got)
  PROVE  doing' \in [Agents -> Doings]
  BY DEF Turn, Doings

LEMMA EndsType ==
  ASSUME doing \in [Agents -> Doings], NEW m \in Calls, Ends(m)
  PROVE  doing' \in [Agents -> Doings]
  BY TurnType, CallFields DEF Ends, Revised

\* The row of the target is a revision of the agent.
LEMMA RowIsTarget ==
  ASSUME TypeOK, TargetIsOwn, NEW a \in Agents, desired[a] # 0
  PROVE  Row(a, desired[a]) \in Revisions /\ Row(a, desired[a]).id = desired[a]
  <1>1. PICK r \in Built(a) : r.id = desired[a]
    BY DEF TargetIsOwn
  <1>2. Row(a, desired[a]) \in Built(a) /\ Row(a, desired[a]).id = desired[a]
    BY <1>1 DEF Row
  <1>3. QED
    BY <1>2 DEF Built, TypeOK

LEMMA SyncTypeStep == SyncTypeOK /\ TargetIsOwn /\ [SyncNext]_syncVars => SyncTypeOK'
  <1> SUFFICES ASSUME SyncTypeOK, TargetIsOwn, [SyncNext]_syncVars PROVE SyncTypeOK'
    OBVIOUS
  <1> USE DEF SyncTypeOK
  <1>0. TypeOK'
    BY SyncStepIsStep, TypeStep
  <1>n. NoRevision \in Revised
    BY DEF Revised
  <1>1. ASSUME NEW w \in Invocations, Publish(w) PROVE SyncTypeOK'
    <2>1. nodeVer' \in [Agents -> Nat]
      BY <1>0 DEF TypeOK
    <2>2. edited' \in [Agents -> Nat] /\ retired' \in [Agents -> Nat]
      BY <1>1, <2>1 DEF Publish, Flagged, Stamped
    <2>3. failed' \in [Agents -> BOOLEAN]
      BY <1>1 DEF Publish
    <2>4. QED
      BY <1>0, <1>1, <2>2, <2>3 DEF Publish, remote
  <1>2. ASSUME NEW w \in Invocations, Administer(w) \/ Cron(w) PROVE SyncTypeOK'
    BY <1>0, <1>2 DEF Administer, Cron, control, remote
  <1>3. ASSUME NEW w \in Invocations, NEW a \in Agents, CheckDeletion(w, a) PROVE SyncTypeOK'
    BY <1>0, <1>3 DEF CheckDeletion, remote
  <1>4. ASSUME NEW a \in Agents, RollBack(a) PROVE SyncTypeOK'
    BY <1>0, <1>4 DEF RollBack, control, remote
  <1>14. ASSUME NEW a \in Agents, Delete(a) PROVE SyncTypeOK'
    <2>1. current' \in [Agents -> Nat] /\ failed' \in [Agents -> BOOLEAN]
      BY <1>14 DEF Delete
    <2>2. QED
      BY <1>0, <1>14, <2>1 DEF Delete, remote
  <1>5. ASSUME NEW a \in Agents, Poll(a) PROVE SyncTypeOK'
    <2>1. doing' \in [Agents -> Doings]
      BY <1>5, <1>n, TurnType DEF Poll
    <2>2. Sent("sync", a, marked[a], TRUE) \in Calls
      BY CallTypes
    <2>3. QED
      BY <1>0, <1>5, <2>1, <2>2 DEF Poll, control
  <1>6. ASSUME NEW a \in Agents, Receive(a) PROVE SyncTypeOK'
    <2>1. PICK m \in net : /\ net' = net \ {m}
                           /\ \/ Turn(a, "idle", NoRevision)
                              \/ Turn(a, "apply", m.rev)
      BY <1>6 DEF Receive
    <2>2. doing' \in [Agents -> Doings]
      BY <1>n, <2>1, TurnType, CallFields
    <2>3. QED
      BY <1>0, <1>6, <2>1, <2>2 DEF Receive, control
  <1>7. ASSUME NEW a \in Agents, NEW ok \in BOOLEAN, Applied(a, ok), troubles' \in Nat
        PROVE  SyncTypeOK'
    <2>1. doing[a].got \in Revised
      BY DEF Doings
    <2>2. doing' \in [Agents -> Doings]
      BY <1>7, <1>n, TurnType DEF Applied
    <2>3. Sent("result", a, doing[a].got, ok) \in Calls
      BY <2>1, CallTypes
    <2>4. marked' \in [Agents -> Revised]
      BY <1>7, <2>1 DEF Applied
    <2>5. QED
      BY <1>0, <1>7, <2>2, <2>3, <2>4 DEF Applied, control
  <1>8. ASSUME NEW a \in Agents, GiveUp(a) PROVE SyncTypeOK'
    <2>1. doing[a].got \in Revised
      BY DEF Doings
    <2>2. doing' \in [Agents -> Doings]
      BY <1>8, <1>n, TurnType DEF GiveUp
    <2>3. ASSUME NEW m \in net PROVE [m EXCEPT !.live = m.live /\ m.agent # a] \in Calls
      BY CallFields
    <2>4. net' \subseteq Calls
      BY <1>8, <2>3 DEF GiveUp
    <2>5. marked' \in [Agents -> Revised]
      BY <1>8, <2>1 DEF GiveUp
    <2>6. troubles' \in Nat
      BY <1>8 DEF GiveUp, Trouble
    <2>7. QED
      BY <1>0, <1>8, <2>2, <2>4, <2>5, <2>6 DEF GiveUp, control
  <1>9. ASSUME NEW m \in net, Serve(m) \/ Lose(m) PROVE SyncTypeOK'
    <2>m. m \in Calls /\ m.agent \in Agents /\ m.rev \in Revised /\ m.rev.id \in Nat
      BY CallFields, RevisedFields
    <2>1. CASE StoreReport(m)
      <3>1. [m EXCEPT !.kind = "state"] \in Calls
        BY <2>m, CallFields
      <3>2. QED
        BY <1>0, <2>1, <2>m, <3>1 DEF StoreReport
    <2>2. CASE AnswerState(m)
      <3>1. Row(m.agent, desired[m.agent]) \in Revised \/ desired[m.agent] = 0
        BY <2>m, RowIsTarget DEF Revised
      <3>2. PICK told \in Revised :
              net' = (net \ {m}) \cup (IF m.live THEN {Sent("answer", m.agent, told, TRUE)} ELSE {})
        BY <1>n, <2>2, <3>1 DEF AnswerState
      <3>3. Sent("answer", m.agent, told, TRUE) \in Calls
        BY <2>m, CallTypes
      <3>4. net' \subseteq Calls
        BY <3>2, <3>3
      <3>5. QED
        BY <1>0, <2>2, <3>4 DEF AnswerState, control
    <2>3. CASE StoreResult(m)
      <3>1. doing' \in [Agents -> Doings]
        BY <2>3, <2>m, EndsType DEF StoreResult
      <3>2. QED
        BY <1>0, <2>3, <2>m, <3>1 DEF StoreResult
    <2>4. CASE Reject(m)
      <3>1. doing' \in [Agents -> Doings]
        BY <2>4, <2>m, EndsType DEF Reject
      <3>2. QED
        BY <1>0, <2>4, <3>1 DEF Reject, control
    <2>5. CASE Lose(m)
      <3>1. doing' \in [Agents -> Doings]
        BY <2>5, <2>m, EndsType DEF Lose
      <3>2. QED
        BY <1>0, <2>5, <3>1 DEF Lose, Trouble, control
    <2>6. QED
      BY <1>9, <2>1, <2>2, <2>3, <2>4, <2>5 DEF Serve
  <1>10. CASE UNCHANGED syncVars
    BY <1>0, <1>10 DEF syncVars, control, remote
  <1>11. ASSUME NEW a \in Agents, Apply(a) PROVE SyncTypeOK'
    BY <1>11, <1>7 DEF Apply
  <1>12. ASSUME NEW a \in Agents, Stumble(a) PROVE SyncTypeOK'
    <2>1. Trouble /\ Applied(a, FALSE)
      BY <1>12, Zenon DEF Stumble
    <2>2. troubles' \in Nat
      BY <2>1 DEF Trouble
    <2>3. QED
      BY <2>1, <2>2, <1>7, Zenon
  <1>13. QED
    BY <1>1, <1>2, <1>3, <1>4, <1>5, <1>6, <1>8, <1>9, <1>10, <1>11, <1>12, <1>14
       DEF SyncNext, AgentStep

LEMMA SyncTypeInit == SyncInit => SyncTypeOK
  BY TypeCorrectInit DEF SyncInit, SyncTypeOK, Waiting, Doings, Revised

\* The tables, the agents and the calls between them stay well typed, for any
\* number of agents and invocations and without the bounds of the model checker.
THEOREM DeliveryTypes == SyncSpec => []SyncTypeOK
  <1>1. SyncSpec => []TargetIsOwn
    BY DeliveryIsPublishing, TargetsExist
  <1>2. QED
    BY <1>1, SyncTypeInit, SyncTypeStep, PTL DEF SyncSpec

-----------------------------------------------------------------------------
(* One call at a time                                                       *)

\* What a changed call keeps; one that stays live is the same call.
LEMMA ChangedCall ==
  ASSUME NEW m \in Calls, NEW b \in BOOLEAN
  PROVE  /\ [m EXCEPT !.live = b].live = b
         /\ [m EXCEPT !.live = b].kind = m.kind /\ [m EXCEPT !.live = b].agent = m.agent
         /\ [m EXCEPT !.live = b].rev = m.rev /\ [m EXCEPT !.live = b].ok = m.ok
         /\ b = m.live => [m EXCEPT !.live = b] = m
         /\ [m EXCEPT !.kind = "state"].kind = "state"
         /\ [m EXCEPT !.kind = "state"].agent = m.agent
         /\ [m EXCEPT !.kind = "state"].rev = m.rev
         /\ [m EXCEPT !.kind = "state"].live = m.live
  BY DEF Calls

LEMMA TurnFields ==
  ASSUME doing \in [Agents -> Doings], NEW a \in Agents, NEW pc, NEW got, Turn(a, pc, got)
  PROVE  /\ doing'[a].pc = pc /\ doing'[a].got = got
         /\ \A b \in Agents \ {a} : doing'[b] = doing[b]
  BY DEF Turn

\* An agent that waits for no call has none that is live.
LEMMA IdleHasNoCall ==
  ASSUME OneCall, NEW a, doing[a].pc \notin {"asked", "reported"}
  PROVE  \A m \in net : m.agent = a => ~m.live
  BY DEF OneCall

\* Ending a call leaves the other agents and their calls alone.
LEMMA CallEnds ==
  ASSUME SyncTypeOK, OneCall, NEW m \in net, net' = net \ {m}, Ends(m)
  PROVE  OneCall'
  <1>m. m \in Calls /\ m.agent \in Agents /\ m.live \in BOOLEAN
    BY CallFields DEF SyncTypeOK
  <1>1. ASSUME NEW n \in net', n.live
        PROVE  doing'[n.agent].pc = (IF n.kind = "result" THEN "reported" ELSE "asked")
    <2>0. n \in net /\ n # m /\ n \in Calls /\ n.agent \in Agents
      BY <1>1, CallFields DEF SyncTypeOK
    <2>1. CASE m.live
      <3>1. n.agent # m.agent
        BY <1>1, <2>0, <2>1 DEF OneCall
      <3>2. doing'[n.agent] = doing[n.agent]
        BY <1>m, <2>0, <2>1, <3>1, TurnFields DEF Ends, SyncTypeOK
      <3>3. QED
        BY <1>1, <2>0, <3>2 DEF OneCall
    <2>2. CASE ~m.live
      <3>1. doing' = doing
        BY <2>2 DEF Ends
      <3>2. QED
        BY <1>1, <2>0, <3>1 DEF OneCall
    <2>3. QED
      BY <2>1, <2>2
  <1>2. QED
    BY <1>1 DEF OneCall

LEMMA OneCallStep == SyncTypeOK /\ OneCall /\ [SyncNext]_syncVars => OneCall'
  <1> SUFFICES ASSUME SyncTypeOK, OneCall, [SyncNext]_syncVars PROVE OneCall'
    OBVIOUS
  <1>t. doing \in [Agents -> Doings] /\ net \subseteq Calls
    BY DEF SyncTypeOK
  <1>c. \A m \in net : m \in Calls /\ m.agent \in Agents /\ m.live \in BOOLEAN
    BY <1>t, CallFields
  <1>0. ASSUME UNCHANGED remote PROVE OneCall'
    BY <1>0 DEF remote, OneCall
  <1>1. ASSUME NEW a \in Agents, Poll(a) PROVE OneCall'
    <2> DEFINE new == Sent("sync", a, marked[a], TRUE)
    <2>1. doing'[a].pc = "asked" /\ \A b \in Agents \ {a} : doing'[b] = doing[b]
      BY <1>1, <1>t, TurnFields DEF Poll
    <2>2. \A m \in net : m.agent = a => ~m.live
      BY <1>1, IdleHasNoCall DEF Poll
    <2>3. new.kind = "sync" /\ new.agent = a /\ new.live
      BY DEF Sent
    <2>4. net' = net \cup {new}
      BY <1>1 DEF Poll
    <2> HIDE DEF new
    <2>5. QED
      BY <1>c, <2>1, <2>2, <2>3, <2>4 DEF OneCall
  <1>2. ASSUME NEW a \in Agents, Receive(a) PROVE OneCall'
    <2>1. PICK m \in net : m.kind = "answer" /\ m.agent = a /\ net' = net \ {m}
      BY <1>2 DEF Receive
    <2>2. \A b \in Agents \ {a} : doing'[b] = doing[b]
      BY <1>2, <1>t, TurnFields DEF Receive
    <2>3. \A n \in net' : n.live => n.agent # a
      BY <2>1 DEF OneCall
    <2>4. QED
      BY <1>c, <2>1, <2>2, <2>3 DEF OneCall
  <1>3. ASSUME NEW a \in Agents, NEW ok \in BOOLEAN, Applied(a, ok) PROVE OneCall'
    <2> DEFINE new == Sent("result", a, doing[a].got, ok)
    <2>1. doing'[a].pc = "reported" /\ \A b \in Agents \ {a} : doing'[b] = doing[b]
      BY <1>3, <1>t, TurnFields DEF Applied
    <2>2. \A m \in net : m.agent = a => ~m.live
      BY <1>3, IdleHasNoCall DEF Applied
    <2>3. new.kind = "result" /\ new.agent = a /\ new.live
      BY DEF Sent
    <2>4. net' = net \cup {new}
      BY <1>3 DEF Applied
    <2> HIDE DEF new
    <2>5. QED
      BY <1>c, <2>1, <2>2, <2>3, <2>4 DEF OneCall
  <1>4. ASSUME NEW a \in Agents, GiveUp(a) PROVE OneCall'
    <2>1. \A b \in Agents \ {a} : doing'[b] = doing[b]
      BY <1>4, <1>t, TurnFields DEF GiveUp
    <2>2. ASSUME NEW e \in net'
          PROVE  /\ e.live => e \in net /\ e.agent \in Agents \ {a}
                 /\ e.kind = "answer" => e.live
      <3>1. PICK m \in net, b \in BOOLEAN :
              /\ m.agent # a \/ m.kind # "answer"
              /\ b <=> m.live /\ m.agent # a
              /\ e = [m EXCEPT !.live = b]
        BY <1>4, <2>2 DEF GiveUp
      <3>2. m \in Calls /\ m.agent \in Agents
        BY <1>c
      <3>3. e.live = b /\ e.kind = m.kind /\ e.agent = m.agent /\ (b = m.live => e = m)
        BY <3>1, <3>2, ChangedCall
      <3>4. m.kind = "answer" => m.live
        BY DEF OneCall
      <3>5. QED
        BY <1>c, <3>1, <3>2, <3>3, <3>4
    <2>3. QED
      BY <2>1, <2>2 DEF OneCall
  <1>5. ASSUME NEW m \in net, StoreReport(m) PROVE OneCall'
    <2> DEFINE new == [m EXCEPT !.kind = "state"]
    <2>1. new.kind = "state" /\ new.agent = m.agent /\ new.live = m.live
      BY <1>c, ChangedCall
    <2>2. net' = (net \ {m}) \cup {new} /\ doing' = doing /\ m.kind = "sync"
      BY <1>5 DEF StoreReport
    <2> HIDE DEF new
    <2>3. QED
      BY <1>c, <2>1, <2>2 DEF OneCall
  <1>6. ASSUME NEW m \in net, AnswerState(m) PROVE OneCall'
    <2>1. PICK told : net' = (net \ {m}) \cup
                        (IF m.live THEN {Sent("answer", m.agent, told, TRUE)} ELSE {})
      BY <1>6 DEF AnswerState
    <2> DEFINE new == Sent("answer", m.agent, told, TRUE)
    <2>2. new.kind = "answer" /\ new.agent = m.agent /\ new.live
      BY DEF Sent
    <2>3. net' = (net \ {m}) \cup (IF m.live THEN {new} ELSE {})
      BY <2>1
    <2>4. doing' = doing /\ m.kind = "state"
      BY <1>6 DEF AnswerState
    <2> HIDE DEF new
    <2>5. QED
      BY <1>c, <2>2, <2>3, <2>4 DEF OneCall
  <1>7. ASSUME NEW m \in net, StoreResult(m) \/ Reject(m) \/ Lose(m) PROVE OneCall'
    BY <1>7, CallEnds DEF StoreResult, Reject, Lose
  <1>8. ASSUME NEW w \in Invocations,
               Publish(w) \/ Administer(w) \/ Cron(w) \/ \E a \in Agents : CheckDeletion(w, a)
        PROVE  OneCall'
    BY <1>8, <1>0 DEF Publish, Administer, Cron, CheckDeletion
  <1>9. ASSUME NEW a \in Agents, RollBack(a) \/ Delete(a) PROVE OneCall'
    BY <1>9, <1>0 DEF RollBack, Delete
  <1>10. ASSUME NEW a \in Agents, Apply(a) PROVE OneCall'
    BY <1>10, <1>3 DEF Apply
  <1>11. ASSUME NEW a \in Agents, Stumble(a) PROVE OneCall'
    <2>1. Applied(a, FALSE)
      BY <1>11, Zenon DEF Stumble
    <2>2. QED
      BY <2>1, <1>3, Zenon
  <1>12. CASE UNCHANGED syncVars
    BY <1>12, <1>0 DEF syncVars
  <1>13. QED
    BY <1>1, <1>2, <1>4, <1>5, <1>6, <1>7, <1>8, <1>9, <1>10, <1>11, <1>12
       DEF SyncNext, AgentStep, Serve

-----------------------------------------------------------------------------
(* Steps of publishing                                                      *)

\* What the steps of publishing may do to the target and to those about to move it.
Quiet ==
  /\ desired' = desired /\ lastRev' = lastRev /\ rollbacks' = rollbacks
  /\ \A w \in Invocations : work'[w].pc = "point" => work'[w] = work[w]

Inserts(w) ==
  /\ desired' = desired /\ lastRev' = lastRev + 1 /\ rollbacks' = rollbacks
  /\ work'[w].pc = "point" /\ work'[w].rev = lastRev + 1
  /\ \A v \in Invocations \ {w} : work'[v] = work[v]

Retargets(w) ==
  /\ work[w].pc = "point" /\ work[w].cur \in Agents
  /\ desired' = [desired EXCEPT ![work[w].cur] = work[w].rev]
  /\ lastRev' = lastRev /\ rollbacks' = rollbacks
  /\ work'[w].pc # "point" /\ \A v \in Invocations \ {w} : work'[v] = work[v]

\* An invocation that moves on to anything but pointing is quiet.
LEMMA QuietGoto ==
  ASSUME TypeOK, NEW w \in Invocations, NEW new, Goto(w, new), new.pc # "point",
         desired' = desired, lastRev' = lastRev, rollbacks' = rollbacks
  PROVE  Quiet
  BY DEF TypeOK, Goto, Quiet

\* The places where an invocation ends up without pointing an agent.
LEMMA QuietPlaces ==
  ASSUME TypeOK, NEW w \in Invocations, NEW a,
         Stop(w) \/ Throw(w, a) \/ NextAgent(w, a),
         desired' = desired, lastRev' = lastRev, rollbacks' = rollbacks
  PROVE  Quiet
  <1>w. work[w] \in Works
    BY DEF TypeOK
  <1>1. Idle.pc = "idle"
    BY DEF Idle
  <1>2. [work[w] EXCEPT !.pc = "failed", !.cur = a].pc = "failed"
    BY <1>w DEF Works
  <1>3. [work[w] EXCEPT !.pc = "loop", !.todo = @ \ {a}, !.cur = None,
                        !.snap = NoConfig, !.rev = 0].pc = "loop"
    BY <1>w DEF Works
  <1>4. CASE Stop(w)
    BY <1>1, <1>4, QuietGoto DEF Stop
  <1>5. CASE Throw(w, a)
    BY <1>1, <1>2, <1>5, QuietGoto DEF Throw, Stop
  <1>6. CASE NextAgent(w, a)
    BY <1>1, <1>3, <1>6, QuietGoto DEF NextAgent, Stop
  <1>7. QED
    BY <1>4, <1>5, <1>6

LEMMA StepKinds ==
  ASSUME TypeOK, NEW w \in Invocations, Step(w)
  PROVE  Quiet \/ Inserts(w) \/ Retargets(w)
  <1>w. work[w] \in Works
    BY DEF TypeOK
  <1>1. CASE FindNodes(w)
    <2>1. [work[w] EXCEPT !.pc = "commit", !.todo = @ \cup (work[w].plan.nodes \cap Installed)].pc
            = "commit"
      BY <1>w DEF Works
    <2>2. QED
      BY <1>1, <2>1, QuietGoto, QuietPlaces DEF FindNodes, counters
  <1>2. CASE Refuse(w)
    BY <1>2, QuietPlaces DEF Refuse, counters
  <1>3. CASE Commit(w)
    <2>1. [work[w] EXCEPT !.pc = "enqueue", !.plan = NoPlan].pc = "enqueue"
      BY <1>w DEF Works
    <2>2. QED
      BY <1>3, <2>1, QuietGoto, QuietPlaces DEF Commit, counters
  <1>4. CASE EnqueueOwn(w)
    <2>1. [work[w] EXCEPT !.pc = "loop", !.op = [a \in Agents |-> lastOp + 1]].pc = "loop"
      BY <1>w DEF Works
    <2>2. QED
      BY <1>4, <2>1, QuietGoto, QuietPlaces DEF EnqueueOwn, counters
  <1>5. ASSUME NEW a \in Agents, ReadConfig(w, a) PROVE Quiet
    <2>1. [work[w] EXCEPT !.pc = "insert", !.cur = a, !.snap = Config(a)].pc = "insert"
      BY <1>w DEF Works
    <2>2. QED
      BY <1>5, <2>1, QuietGoto, QuietPlaces DEF ReadConfig, counters
  <1>6. CASE InsertRevision(w)
    <2> DEFINE new == [work[w] EXCEPT !.pc = "point", !.rev = lastRev + 1]
    <2>1. CASE work[w].cur \in Installed
      <3>1. new.pc = "point" /\ new.rev = lastRev + 1
        BY <1>w DEF Works
      <3>2. work' = [work EXCEPT ![w] = new] /\ lastRev' = lastRev + 1
        BY <1>6, <2>1 DEF InsertRevision, Goto
      <3>3. desired' = desired /\ rollbacks' = rollbacks
        BY <1>6 DEF InsertRevision, counters
      <3> HIDE DEF new
      <3>4. QED
        BY <3>1, <3>2, <3>3 DEF Inserts, TypeOK
    <2>2. CASE work[w].cur \notin Installed
      BY <1>6, <2>2, QuietPlaces DEF InsertRevision, counters
    <2>3. QED
      BY <2>1, <2>2
  <1>7. CASE PointAgent(w)
    <2> DEFINE new == [work[w] EXCEPT !.pc = "finish"]
    <2>1. new.pc = "finish"
      BY <1>w DEF Works
    <2>2. Goto(w, new) /\ lastRev' = lastRev /\ rollbacks' = rollbacks
      BY <1>7 DEF PointAgent, counters
    <2> HIDE DEF new
    <2>3. CASE work[w].cur \in Installed
      <3>1. desired' = [desired EXCEPT ![work[w].cur] = work[w].rev] /\ work[w].pc = "point"
        BY <1>7, <2>3 DEF PointAgent
      <3>2. QED
        BY <2>1, <2>2, <2>3, <3>1 DEF Retargets, Goto, TypeOK, Installed
    <2>4. CASE work[w].cur \notin Installed
      <3>1. desired' = desired
        BY <1>7, <2>4 DEF PointAgent
      <3>2. QED
        BY <2>1, <2>2, <3>1, QuietGoto
    <2>5. QED
      BY <2>3, <2>4
  <1>8. CASE FinishReconcile(w)
    BY <1>8, QuietPlaces DEF FinishReconcile, counters
  <1>9. CASE RecordFailure(w)
    BY <1>9, QuietPlaces DEF RecordFailure, counters
  <1>10. QED
    BY <1>1, <1>2, <1>3, <1>4, <1>5, <1>6, <1>7, <1>8, <1>9 DEF Step

LEMMA OthersQuiet ==
  ASSUME TypeOK, NEW w \in Invocations, Request(w) \/ Crash(w) \/ D1Error(w) \/ CronTick(w)
  PROVE  Quiet
  <1>i. Idle.pc = "idle"
    BY DEF Idle
  <1>b. ASSUME NEW affected, NEW place \in {"found", "commit", "enqueue"}, NEW plan,
               Begin(w, affected, place, plan)
        PROVE  Quiet
    <2>1. [Idle EXCEPT !.pc = place, !.todo = affected, !.plan = plan].pc = place
      BY DEF Idle
    <2>2. QED
      BY <1>b, <2>1, QuietGoto DEF Begin, counters
  <1>1. ASSUME NEW a \in Agents, NEW redraft \in BOOLEAN, BeginNode(w, a, redraft) PROVE Quiet
    BY <1>1, <1>b DEF BeginNode
  <1>2. ASSUME NEW g \in Groups, BeginGroup(w, g) PROVE Quiet
    BY <1>2, <1>b DEF BeginGroup
  <1>3. ASSUME NEW g \in Groups, NEW nodes \in SUBSET Agents, BeginRegroup(w, g, nodes) PROVE Quiet
    BY <1>3, <1>b DEF BeginRegroup
  <1>4. ASSUME NEW a \in Agents, BeginPublish(w, a) PROVE Quiet
    BY <1>4, <1>b DEF BeginPublish
  <1>5. ASSUME NEW a \in Agents, Register(w, a) PROVE Quiet
    <2>1. [Idle EXCEPT !.pc = "enqueue", !.todo = {a}].pc = "enqueue"
      BY DEF Idle
    <2>2. QED
      BY <1>5, <2>1, QuietGoto DEF Register, counters
  <1>6. CASE CronTick(w)
    <2>1. PICK P \in SUBSET Queued :
            Goto(w, [Idle EXCEPT !.pc = "loop", !.cron = TRUE, !.todo = P,
                       !.op = [a \in Agents |-> IF a \in P THEN row[a].op ELSE 0]])
      BY <1>6 DEF CronTick
    <2>2. [Idle EXCEPT !.pc = "loop", !.cron = TRUE, !.todo = P,
             !.op = [a \in Agents |-> IF a \in P THEN row[a].op ELSE 0]].pc = "loop"
      BY DEF Idle
    <2>3. desired' = desired /\ lastRev' = lastRev /\ rollbacks' = rollbacks
      BY <1>6 DEF CronTick, counters
    <2>4. QED
      BY <2>1, <2>2, <2>3, QuietGoto
  <1>7. CASE Crash(w)
    BY <1>7, QuietPlaces DEF Crash
  <1>8. CASE D1Error(w)
    BY <1>8, QuietPlaces DEF D1Error
  <1>9. QED
    BY <1>1, <1>2, <1>3, <1>4, <1>5, <1>6, <1>7, <1>8 DEF Request

-----------------------------------------------------------------------------
(* A target is new when it is set                                           *)

\* Nothing on the agent's side moves while the control plane publishes.
AgentsRest == current' = current /\ remote' = remote

LEMMA SeenTypes ==
  ASSUME SyncTypeOK, NEW a \in Agents
  PROVE  Seen(a) \subseteq Nat
  <1>1. marked[a].id \in Nat /\ doing[a].got.id \in Nat
    BY RevisedFields DEF SyncTypeOK, Doings
  <1>2. \A m \in net : m.rev.id \in Nat
    BY CallFields, RevisedFields DEF SyncTypeOK
  <1>3. QED
    BY <1>1, <1>2 DEF Seen, SyncTypeOK, TypeOK

LEMMA QuietKeeps ==
  ASSUME SyncTypeOK, SInv, OneCall', Quiet, AgentsRest
  PROVE  SInv'
  <1>1. \A a \in Agents : Seen(a)' = Seen(a)
    BY DEF Quiet, AgentsRest, remote, Seen
  <1>2. \A w \in Invocations, a \in Agents : Points(w, a)' => Points(w, a) /\ work'[w] = work[w]
    BY DEF Quiet, Points
  <1>3. SeenBelow' /\ PointsBelow'
    BY <1>1, <1>2 DEF SInv, SeenBelow, PointsBelow, Quiet
  <1>4. rollbacks = 0 => Unseen'
    BY <1>1, <1>2 DEF SInv, Unseen
  <1>5. rollbacks = 0 => Truthful'
    BY DEF SInv, Truthful, Quiet, AgentsRest, remote, Claim
  <1>6. QED
    BY <1>3, <1>4, <1>5 DEF SInv, Quiet

LEMMA InsertKeeps ==
  ASSUME SyncTypeOK, SInv, OneCall', NEW w \in Invocations, Inserts(w), AgentsRest
  PROVE  SInv'
  <1>0. lastRev \in Nat
    BY DEF SyncTypeOK, TypeOK
  <1>1. \A a \in Agents : Seen(a)' = Seen(a)
    BY DEF Inserts, AgentsRest, remote, Seen
  <1>2. \A v \in Invocations, a \in Agents :
          Points(v, a)' => v = w \/ (Points(v, a) /\ work'[v] = work[v])
    BY DEF Inserts, Points
  <1>r. \A v \in Invocations : work[v].rev \in Nat
    BY DEF SyncTypeOK, TypeOK, Works
  <1>3. SeenBelow'
    <2> SUFFICES ASSUME NEW a \in Agents, NEW i \in Seen(a) PROVE i <= lastRev'
      BY <1>1 DEF SeenBelow
    <2>1. i \in Nat /\ i <= lastRev
      BY SeenTypes DEF SInv, SeenBelow
    <2>2. QED
      BY <1>0, <2>1 DEF Inserts
  <1>4. PointsBelow'
    BY <1>0, <1>2, <1>r DEF SInv, PointsBelow, Inserts
  <1>5. ASSUME rollbacks = 0 PROVE Unseen'
    <2> SUFFICES ASSUME NEW v \in Invocations, NEW a \in Agents, Points(v, a)'
                 PROVE  /\ work'[v].rev \notin Seen(a)
                        /\ \A u \in Invocations \ {v} :
                             Points(u, a)' => work'[u].rev # work'[v].rev
      BY <1>1 DEF Unseen
    <2>1. lastRev + 1 \notin Seen(a)
      BY <1>0, SeenTypes DEF SInv, SeenBelow
    <2>2. \A u \in Invocations : Points(u, a) => work[u].rev # lastRev + 1
      BY <1>0, <1>r DEF SInv, PointsBelow
    <2>3. QED
      BY <1>2, <1>5, <2>1, <2>2 DEF SInv, Unseen, Inserts
  <1>6. rollbacks = 0 => Truthful'
    BY DEF SInv, Truthful, Inserts, AgentsRest, remote, Claim
  <1>7. QED
    BY <1>3, <1>4, <1>5, <1>6 DEF SInv, Inserts

\* The new target has never been seen: all claims under way are about others.
LEMMA RetargetKeeps ==
  ASSUME SyncTypeOK, SInv, OneCall', NEW w \in Invocations, Retargets(w), AgentsRest
  PROVE  SInv'
  <1>c. PICK c \in Agents : c = work[w].cur
    BY DEF Retargets
  <1>0. /\ Points(w, c) /\ desired \in [Agents -> Nat]
        /\ desired'[c] = work[w].rev /\ \A a \in Agents \ {c} : desired'[a] = desired[a]
    BY <1>c DEF Retargets, Points, SyncTypeOK, TypeOK
  <1>1. /\ Seen(c)' \subseteq Seen(c) \cup {work[w].rev}
        /\ \A a \in Agents \ {c} : Seen(a)' = Seen(a)
    BY <1>0 DEF AgentsRest, remote, Seen
  <1>2. \A v \in Invocations, a \in Agents :
          Points(v, a)' => v # w /\ Points(v, a) /\ work'[v] = work[v]
    BY DEF Retargets, Points
  <1>3. PointsBelow'
    BY <1>2 DEF SInv, PointsBelow, Retargets
  <1>4. SeenBelow'
    BY <1>0, <1>1 DEF SInv, SeenBelow, PointsBelow, Retargets
  <1>5. rollbacks = 0 => Unseen'
    BY <1>0, <1>1, <1>2 DEF SInv, Unseen
  <1>6. ASSUME rollbacks = 0 PROVE Truthful'
    <2> SUFFICES ASSUME NEW a \in Agents, desired'[a] # 0
        PROVE /\ current'[a] = desired'[a] => marked'[a].id = desired'[a]
              /\ \A m \in net' : m.agent = a /\ Claim(m) /\ m.rev.id = desired'[a]
                                  => marked'[a].id = desired'[a]
              /\ marked'[a].id = desired'[a] =>
                   /\ doing'[a].pc = "apply" => doing'[a].got.id = desired'[a]
                   /\ \A m \in net' : m.agent = a /\ m.kind = "answer" /\ m.rev # NoRevision
                                       => m.rev.id = desired'[a]
      BY DEF Truthful, Claim
    <2>1. CASE a = c
      <3>1. work[w].rev \notin Seen(c)
        BY <1>0, <1>6 DEF SInv, Unseen
      <3>2. current[a] # desired'[a] /\ marked[a].id # desired'[a]
            /\ \A m \in net : m.agent = a => m.rev.id # desired'[a]
        BY <1>0, <2>1, <3>1 DEF Seen
      <3>3. QED
        BY <3>2 DEF AgentsRest, remote
    <2>2. CASE a # c
      <3>1. desired'[a] = desired[a]
        BY <1>0, <2>2
      <3>2. QED
        BY <1>6, <3>1 DEF SInv, Truthful, AgentsRest, remote
    <2>3. QED
      BY <2>1, <2>2
  <1>7. QED
    BY <1>3, <1>4, <1>5, <1>6 DEF SInv, Retargets

\* A rollback sets a target that is already stored.
LEMMA RollBackKeeps ==
  ASSUME SyncTypeOK, IInv, SInv, OneCall', NEW a \in Agents, RollBack(a)
  PROVE  SInv'
  <1>1. PICK r \in Built(a) : desired' = [desired EXCEPT ![a] = r.id]
    BY DEF RollBack, RollbackAgent
  <1>2. lastRev' = lastRev /\ work' = work /\ rollbacks' = rollbacks + 1
    BY DEF RollBack, RollbackAgent
  <1>3. r.id <= lastRev
    BY DEF IInv, RevisionsBelow, Built
  <1>4. \A b \in Agents : Seen(b)' \subseteq Seen(b) \cup (IF b = a THEN {r.id} ELSE {})
    BY <1>1 DEF RollBack, control, remote, Seen, SyncTypeOK, TypeOK
  <1>5. SeenBelow'
    BY <1>2, <1>3, <1>4 DEF SInv, SeenBelow
  <1>6. PointsBelow'
    BY <1>2 DEF SInv, PointsBelow, Points
  <1>7. rollbacks' # 0
    BY <1>2 DEF SyncTypeOK, TypeOK
  <1>8. QED
    BY <1>5, <1>6, <1>7 DEF SInv

LEMMA DeleteKeeps ==
  ASSUME SyncTypeOK, SInv, OneCall', NEW a \in Agents, Delete(a)
  PROVE  SInv'
  <1>1. /\ lastRev' = lastRev /\ work' = work /\ rollbacks' = rollbacks
        /\ desired' = [desired EXCEPT ![a] = 0] /\ current' = [current EXCEPT ![a] = 0]
        /\ marked' = marked /\ doing' = doing /\ net' = net
    BY DEF Delete, DeleteVps, counters, remote
  <1>2. \A b \in Agents : Seen(b)' \subseteq Seen(b)
    BY <1>1 DEF Seen, SyncTypeOK, TypeOK
  <1>3. SeenBelow' /\ PointsBelow'
    BY <1>1, <1>2 DEF SInv, SeenBelow, PointsBelow, Points
  <1>4. rollbacks = 0 => Unseen'
    BY <1>1, <1>2 DEF SInv, Unseen, Points
  <1>5. rollbacks = 0 => Truthful'
    BY <1>1 DEF SInv, Truthful, Claim, SyncTypeOK, TypeOK
  <1>6. QED
    BY <1>1, <1>3, <1>4, <1>5 DEF SInv

-----------------------------------------------------------------------------
(* Steps of agents and of their handlers                                    *)

\* A step that shows no new revision to an agent and keeps claims true.
LEMMA RemoteKeeps ==
  ASSUME SyncTypeOK, SInv, OneCall', UNCHANGED vars,
         \A a \in Agents :
           /\ marked'[a].id \in Seen(a) /\ doing'[a].got.id \in Seen(a) /\ current'[a] \in Seen(a)
           /\ \A m \in net' : m.agent = a => m.rev.id \in Seen(a),
         rollbacks = 0 => Truthful'
  PROVE  SInv'
  <1>1. \A a \in Agents : Seen(a)' \subseteq Seen(a)
    BY DEF vars, Seen
  <1>2. SeenBelow' /\ PointsBelow'
    BY <1>1 DEF SInv, SeenBelow, PointsBelow, Points, vars
  <1>3. rollbacks = 0 => Unseen'
    BY <1>1 DEF SInv, Unseen, Points, vars
  <1>4. QED
    BY <1>2, <1>3 DEF SInv, vars

LEMMA SeenNow ==
  ASSUME NEW a \in Agents
  PROVE  /\ {0, marked[a].id, doing[a].got.id, current[a], desired[a]} \subseteq Seen(a)
         /\ \A m \in net : m.agent = a => m.rev.id \in Seen(a)
  BY DEF Seen

LEMMA PollKeeps ==
  ASSUME SyncTypeOK, SInv, OneCall', NEW a \in Agents, Poll(a)
  PROVE  SInv'
  <1> DEFINE new == Sent("sync", a, marked[a], TRUE)
  <1>1. /\ doing'[a].pc = "asked" /\ doing'[a].got = NoRevision
        /\ \A b \in Agents \ {a} : doing'[b] = doing[b]
    BY TurnFields DEF Poll, SyncTypeOK
  <1>2. new.kind = "sync" /\ new.agent = a /\ new.rev = marked[a]
    BY DEF Sent
  <1>3. net' = net \cup {new} /\ UNCHANGED vars /\ current' = current /\ marked' = marked
    BY DEF Poll, control
  <1>4. desired' = desired
    BY <1>3 DEF vars
  <1> HIDE DEF new
  <1>5. \A b \in Agents :
          /\ marked'[b].id \in Seen(b) /\ doing'[b].got.id \in Seen(b) /\ current'[b] \in Seen(b)
          /\ \A m \in net' : m.agent = b => m.rev.id \in Seen(b)
    BY <1>1, <1>2, <1>3, SeenNow DEF NoRevision
  <1>6. rollbacks = 0 => Truthful'
    BY <1>1, <1>2, <1>3, <1>4 DEF SInv, Truthful, Claim
  <1>7. QED
    BY <1>3, <1>5, <1>6, RemoteKeeps

LEMMA ReceiveKeeps ==
  ASSUME SyncTypeOK, SInv, OneCall', NEW a \in Agents, Receive(a)
  PROVE  SInv'
  <1>1. PICK m \in net :
          /\ m.kind = "answer" /\ m.agent = a /\ net' = net \ {m}
          /\ IF m.rev \in {NoRevision, marked[a]} THEN Turn(a, "idle", NoRevision)
                                                  ELSE Turn(a, "apply", m.rev)
          /\ UNCHANGED vars /\ current' = current /\ marked' = marked
    BY DEF Receive, control
  <1>2. /\ \/ doing'[a].pc = "idle" /\ doing'[a].got = NoRevision
           \/ doing'[a].pc = "apply" /\ doing'[a].got = m.rev /\ m.rev # NoRevision
        /\ \A b \in Agents \ {a} : doing'[b] = doing[b]
    BY <1>1, TurnFields DEF SyncTypeOK
  <1>3. desired' = desired
    BY <1>1 DEF vars
  <1>4. \A b \in Agents :
          /\ marked'[b].id \in Seen(b) /\ doing'[b].got.id \in Seen(b) /\ current'[b] \in Seen(b)
          /\ \A n \in net' : n.agent = b => n.rev.id \in Seen(b)
    BY <1>1, <1>2, SeenNow DEF NoRevision
  <1>5. rollbacks = 0 => Truthful'
    BY <1>1, <1>2, <1>3 DEF SInv, Truthful, Claim
  <1>6. QED
    BY <1>1, <1>4, <1>5, RemoteKeeps

\* The agent applies what it was sent, or fails to, and says so.
LEMMA AppliedKeeps ==
  ASSUME SyncTypeOK, SInv, OneCall', NEW a \in Agents, NEW ok \in BOOLEAN, Applied(a, ok)
  PROVE  SInv'
  <1> DEFINE new == Sent("result", a, doing[a].got, ok)
  <1>1. /\ doing[a].pc = "apply" /\ doing'[a].pc = "reported" /\ doing'[a].got = NoRevision
        /\ \A b \in Agents \ {a} : doing'[b] = doing[b]
    BY TurnFields DEF Applied, SyncTypeOK
  <1>2. new.kind = "result" /\ new.agent = a /\ new.rev = doing[a].got /\ new.ok = ok
    BY DEF Sent
  <1>3. /\ net' = net \cup {new} /\ UNCHANGED vars /\ current' = current
        /\ marked'[a] = (IF ok THEN doing[a].got ELSE marked[a])
        /\ \A b \in Agents \ {a} : marked'[b] = marked[b]
    BY DEF Applied, control, SyncTypeOK
  <1>4. desired' = desired
    BY <1>3 DEF vars
  <1>5. \A m \in net : m.kind = "answer" => m.agent # a
    BY <1>1 DEF SInv, OneCall
  <1> HIDE DEF new
  <1>6. \A b \in Agents :
          /\ marked'[b].id \in Seen(b) /\ doing'[b].got.id \in Seen(b) /\ current'[b] \in Seen(b)
          /\ \A m \in net' : m.agent = b => m.rev.id \in Seen(b)
    BY <1>1, <1>2, <1>3, SeenNow DEF NoRevision
  <1>7. rollbacks = 0 => Truthful'
    BY <1>1, <1>2, <1>3, <1>4, <1>5 DEF SInv, Truthful, Claim
  <1>8. QED
    BY <1>3, <1>6, <1>7, RemoteKeeps

\* An agent that gave up may still have applied what it was sent.
LEMMA GiveUpKeeps ==
  ASSUME SyncTypeOK, SInv, OneCall', NEW a \in Agents, GiveUp(a)
  PROVE  SInv'
  <1>1. /\ doing'[a].pc = "idle" /\ doing'[a].got = NoRevision
        /\ \A b \in Agents \ {a} : doing'[b] = doing[b]
    BY TurnFields DEF GiveUp, SyncTypeOK
  <1>2. \A e \in net' : \E m \in net :
          e.kind = m.kind /\ e.agent = m.agent /\ e.rev = m.rev /\ e.ok = m.ok
          /\ (m.agent = a => m.kind # "answer")
    <2> SUFFICES ASSUME NEW e \in net'
                 PROVE  \E m \in net :
                          e.kind = m.kind /\ e.agent = m.agent /\ e.rev = m.rev /\ e.ok = m.ok
                          /\ (m.agent = a => m.kind # "answer")
      OBVIOUS
    <2>1. PICK m \in net, b \in BOOLEAN :
            (m.agent # a \/ m.kind # "answer") /\ e = [m EXCEPT !.live = b]
      BY DEF GiveUp
    <2>2. m \in Calls
      BY DEF SyncTypeOK
    <2>3. e.kind = m.kind /\ e.agent = m.agent /\ e.rev = m.rev /\ e.ok = m.ok
      BY <2>1, <2>2, ChangedCall
    <2>4. QED
      BY <2>1, <2>3
  <1>3. /\ UNCHANGED vars /\ current' = current
        /\ \/ marked' = marked
           \/ /\ doing[a].pc = "apply" /\ marked'[a] = doing[a].got
              /\ \A b \in Agents \ {a} : marked'[b] = marked[b]
    BY DEF GiveUp, control, SyncTypeOK
  <1>4. desired' = desired
    BY <1>3 DEF vars
  <1>5. \A b \in Agents :
          /\ marked'[b].id \in Seen(b) /\ doing'[b].got.id \in Seen(b) /\ current'[b] \in Seen(b)
          /\ \A m \in net' : m.agent = b => m.rev.id \in Seen(b)
    BY <1>1, <1>2, <1>3, SeenNow DEF NoRevision
  <1>6. rollbacks = 0 => Truthful'
    BY <1>1, <1>2, <1>3, <1>4 DEF SInv, Truthful, Claim
  <1>7. QED
    BY <1>3, <1>5, <1>6, RemoteKeeps

LEMMA StoreReportKeeps ==
  ASSUME SyncTypeOK, SInv, OneCall', NEW m \in net, StoreReport(m)
  PROVE  SInv'
  <1> DEFINE new == [m EXCEPT !.kind = "state"]
  <1>0. m \in Calls /\ m.agent \in Agents
    BY CallFields DEF SyncTypeOK
  <1>1. new.kind = "state" /\ new.agent = m.agent /\ new.rev = m.rev
    BY <1>0, ChangedCall
  <1>2. /\ m.kind = "sync" /\ net' = (net \ {m}) \cup {new} /\ UNCHANGED vars
        /\ marked' = marked /\ doing' = doing
        /\ current'[m.agent] \in {current[m.agent], m.rev.id}
        /\ \A b \in Agents \ {m.agent} : current'[b] = current[b]
    BY <1>0 DEF StoreReport, SyncTypeOK
  <1>3. desired' = desired
    BY <1>2 DEF vars
  <1> HIDE DEF new
  <1>4. \A b \in Agents :
          /\ marked'[b].id \in Seen(b) /\ doing'[b].got.id \in Seen(b) /\ current'[b] \in Seen(b)
          /\ \A n \in net' : n.agent = b => n.rev.id \in Seen(b)
    BY <1>0, <1>1, <1>2, SeenNow
  <1>5. rollbacks = 0 => Truthful'
    BY <1>0, <1>1, <1>2, <1>3 DEF SInv, Truthful, Claim
  <1>6. QED
    BY <1>2, <1>4, <1>5, RemoteKeeps

\* The answer names the target of now; it stays true until the target changes.
LEMMA AnswerKeeps ==
  ASSUME SyncTypeOK, TargetIsOwn, SInv, OneCall', NEW m \in net, AnswerState(m)
  PROVE  SInv'
  <1>0. m \in Calls /\ m.agent \in Agents
    BY CallFields DEF SyncTypeOK
  <1>1. PICK told :
          /\ told = NoRevision \/ (desired[m.agent] # 0 /\ told = Row(m.agent, desired[m.agent]))
          /\ net' = (net \ {m}) \cup (IF m.live THEN {Sent("answer", m.agent, told, TRUE)} ELSE {})
          /\ UNCHANGED vars /\ current' = current /\ marked' = marked /\ doing' = doing
    BY DEF AnswerState, control
  <1>2. told = NoRevision \/ told.id = desired[m.agent]
    BY <1>0, <1>1, RowIsTarget DEF SyncTypeOK
  <1>3. \A n \in net' : n \in net \/ (n.kind = "answer" /\ n.agent = m.agent /\ n.rev = told)
    BY <1>1 DEF Sent
  <1>4. desired' = desired
    BY <1>1 DEF vars
  <1>5. told.id \in Seen(m.agent)
    <2>1. CASE told = NoRevision
      BY <2>1, <1>0, SeenNow DEF NoRevision
    <2>2. CASE told.id = desired[m.agent]
      BY <2>2, <1>0, SeenNow
    <2>3. QED
      BY <2>1, <2>2, <1>2
  <1>6. ASSUME NEW b \in Agents
        PROVE  /\ marked'[b].id \in Seen(b) /\ doing'[b].got.id \in Seen(b) /\ current'[b] \in Seen(b)
               /\ \A n \in net' : n.agent = b => n.rev.id \in Seen(b)
    <2>1. marked'[b].id \in Seen(b) /\ doing'[b].got.id \in Seen(b) /\ current'[b] \in Seen(b)
      BY <1>1, SeenNow
    <2>2. ASSUME NEW n \in net', n.agent = b  PROVE n.rev.id \in Seen(b)
      <3>1. CASE n \in net
        BY <3>1, <2>2, SeenNow
      <3>2. CASE n.agent = m.agent /\ n.rev = told
        BY <3>2, <2>2, <1>5
      <3>3. QED
        BY <3>1, <3>2, <1>3
    <2>3. QED
      BY <2>1, <2>2
  <1>7. rollbacks = 0 => Truthful'
    BY <1>1, <1>2, <1>3, <1>4 DEF SInv, Truthful, Claim
  <1>8. QED
    BY <1>1, <1>6, <1>7, RemoteKeeps

\* A result that counts is a true claim, and one call less is under way.
LEMMA EndKeeps ==
  ASSUME SyncTypeOK, SInv, OneCall', NEW m \in net, StoreResult(m) \/ Reject(m) \/ Lose(m)
  PROVE  SInv'
  <1>0. m \in Calls /\ m.agent \in Agents
    BY CallFields DEF SyncTypeOK
  <1>1. /\ net' = net \ {m} /\ UNCHANGED vars /\ marked' = marked /\ Ends(m)
        /\ \/ current' = current
           \/ /\ m.kind = "result" /\ m.ok /\ current' = [current EXCEPT ![m.agent] = m.rev.id]
    BY DEF StoreResult, Reject, Lose, control
  <1>2. \A b \in Agents : \/ doing'[b] = doing[b]
                          \/ doing'[b].pc = "idle" /\ doing'[b].got = NoRevision
    BY <1>0, <1>1, TurnFields DEF Ends, SyncTypeOK
  <1>3. desired' = desired
    BY <1>1 DEF vars
  <1>4. \A b \in Agents : \/ current'[b] = current[b]
                          \/ b = m.agent /\ Claim(m) /\ current'[b] = m.rev.id
    BY <1>0, <1>1 DEF Claim, SyncTypeOK
  <1>5. \A b \in Agents :
          /\ marked'[b].id \in Seen(b) /\ doing'[b].got.id \in Seen(b) /\ current'[b] \in Seen(b)
          /\ \A n \in net' : n.agent = b => n.rev.id \in Seen(b)
    BY <1>1, <1>2, <1>4, SeenNow DEF NoRevision
  <1>6. rollbacks = 0 => Truthful'
    BY <1>1, <1>2, <1>3, <1>4 DEF SInv, Truthful, Claim
  <1>7. QED
    BY <1>1, <1>5, <1>6, RemoteKeeps

-----------------------------------------------------------------------------
LEMMA SInvStep == SyncTypeOK /\ IInv /\ SInv /\ [SyncNext]_syncVars => SInv'
  <1> SUFFICES ASSUME SyncTypeOK, IInv, SInv, [SyncNext]_syncVars PROVE SInv'
    OBVIOUS
  <1>c. OneCall'
    BY OneCallStep DEF SInv
  <1>t. TypeOK /\ TargetIsOwn
    BY DEF SyncTypeOK, IInv
  <1>1. ASSUME NEW w \in Invocations, Publish(w) PROVE SInv'
    <2>1. Step(w) /\ AgentsRest
      BY <1>1 DEF Publish, AgentsRest
    <2>2. QED
      BY <1>c, <1>t, <2>1, StepKinds, QuietKeeps, InsertKeeps, RetargetKeeps
  <1>2. ASSUME NEW w \in Invocations, Administer(w) \/ Cron(w) PROVE SInv'
    <2>1. AgentsRest /\ (Request(w) \/ Crash(w) \/ D1Error(w) \/ CronTick(w))
      BY <1>2 DEF Administer, Cron, AgentsRest, control
    <2>2. QED
      BY <1>c, <1>t, <2>1, OthersQuiet, QuietKeeps
  <1>3. ASSUME NEW w \in Invocations, NEW a \in Agents, CheckDeletion(w, a) PROVE SInv'
    <2>1. Quiet /\ AgentsRest
      BY <1>3 DEF CheckDeletion, Quiet, AgentsRest, vars, remote
    <2>2. QED
      BY <1>c, <2>1, QuietKeeps
  <1>4. ASSUME NEW a \in Agents, Stumble(a) PROVE SInv'
    <2>1. Applied(a, FALSE)
      BY <1>4, Zenon DEF Stumble
    <2>2. QED
      BY <1>c, <2>1, AppliedKeeps, Zenon
  <1>5. ASSUME NEW a \in Agents, AgentStep(a) \/ GiveUp(a) PROVE SInv'
    BY <1>5, <1>c, PollKeeps, ReceiveKeeps, AppliedKeeps, GiveUpKeeps DEF AgentStep, Apply
  <1>6. ASSUME NEW a \in Agents, RollBack(a) \/ Delete(a) PROVE SInv'
    BY <1>6, <1>c, RollBackKeeps, DeleteKeeps
  <1>7. ASSUME NEW m \in net, Serve(m) \/ Lose(m) PROVE SInv'
    BY <1>7, <1>c, <1>t, StoreReportKeeps, AnswerKeeps, EndKeeps DEF Serve
  <1>8. CASE UNCHANGED syncVars
    <2>1. Quiet /\ AgentsRest
      BY <1>8 DEF syncVars, Quiet, AgentsRest, vars, control, remote
    <2>2. QED
      BY <1>c, <2>1, QuietKeeps
  <1>9. QED
    BY <1>1, <1>2, <1>3, <1>4, <1>5, <1>6, <1>7, <1>8 DEF SyncNext

LEMMA SInvInit == SyncInit => SInv
  <1> SUFFICES ASSUME SyncInit PROVE SInv
    OBVIOUS
  <1>1. /\ net = {} /\ lastRev = 0
        /\ \A w \in Invocations : work[w].pc = "idle"
        /\ \A a \in Agents : /\ marked[a].id = 0 /\ doing[a].got.id = 0
                             /\ current[a] = 0 /\ desired[a] = 0
    BY DEF SyncInit, Init, Idle, Waiting, NoRevision
  <1>2. \A a \in Agents : Seen(a) = {0}
    BY <1>1 DEF Seen
  <1>3. QED
    BY <1>1, <1>2 DEF SInv, OneCall, SeenBelow, PointsBelow, Points, Unseen, Truthful

LEMMA SInvCorrect == SyncSpec => [](SyncTypeOK /\ IInv /\ SInv)
  <1>1. SyncSpec => []IInv
    BY DeliveryIsPublishing, IInvCorrect
  <1>2. QED
    BY <1>1, DeliveryTypes, SInvInit, SInvStep, PTL DEF SyncSpec

\* A VPS that subscriptions offer has applied its target (OfferedIsApplied), however
\* many publishers overlap and whatever calls are lost, late or repeated, as long
\* as no administrator has rolled back by hand.
THEOREM OfferedHasApplied == SyncSpec => []OfferedIsApplied
  <1>1. SInv => OfferedIsApplied
    BY DEF SInv, Truthful, OfferedIsApplied, Offered
  <1>2. QED
    BY <1>1, SInvCorrect, PTL

-----------------------------------------------------------------------------
(* What a step does to the tables the target is read off                    *)

LEMMA NextKinds ==
  ASSUME TypeOK, [Next]_vars
  PROVE  \/ UNCHANGED <<nodeVer, draft, desired, revisions>>
         \/ \E w \in Invocations : \/ Commit(w)
                                   \/ InsertRevision(w) /\ work[w].cur \in Installed
                                   \/ PointAgent(w) /\ work[w].cur \in Installed
         \/ \E a \in Agents : RollbackAgent(a) \/ DeleteVps(a)
  <1> DEFINE Rest == UNCHANGED <<nodeVer, draft, desired, revisions>>
  <1>1. ASSUME NEW w \in Invocations, Step(w)
        PROVE  \/ Rest \/ Commit(w)
               \/ InsertRevision(w) /\ work[w].cur \in Installed
               \/ PointAgent(w) /\ work[w].cur \in Installed
    BY <1>1 DEF Step, FindNodes, Refuse, EnqueueOwn, ReadConfig, InsertRevision, PointAgent,
                FinishReconcile, RecordFailure, tables
  <1>2. ASSUME NEW w \in Invocations, Request(w) PROVE Rest
    BY <1>2 DEF Request, BeginNode, BeginGroup, BeginRegroup, BeginPublish, Begin, Register, tables
  <1>3. ASSUME NEW w \in Invocations, CronTick(w) \/ Crash(w) \/ D1Error(w) PROVE Rest
    BY <1>3 DEF CronTick, Crash, D1Error, tables
  <1>4. CASE UNCHANGED vars
    BY <1>4 DEF vars
  <1> HIDE DEF Rest
  <1>5. QED
    BY <1>1, <1>2, <1>3, <1>4 DEF Next, Rest

-----------------------------------------------------------------------------
(***************************************************************************)
(* The revisions an agent meets are rows of the table, or were before they *)
(* were deleted: an id stands for one revision for ever.                   *)
(***************************************************************************)
Compiles ==
  \A w \in Invocations : work[w].pc \in {"insert", "point"} => work[w].cur \notin Broken

Compiled == \A r \in revisions : r.id # 0 /\ r.agent \notin Broken

Genuine(a, rev) ==
  rev = NoRevision \/ (rev.agent = a /\ a \notin Broken /\ \A r \in revisions : r.id = rev.id => r = rev)

Met ==
  /\ \A a \in Agents : Genuine(a, marked[a]) /\ Genuine(a, doing[a].got)
  /\ \A m \in net : Genuine(m.agent, m.rev)

RecInv == Compiles /\ Compiled /\ Met

LEMMA CompilesStep ==
  ASSUME TypeOK, Compiles, [Next]_vars
  PROVE  Compiles'
  <1>1. CASE work' = work
    BY <1>1 DEF Compiles
  <1>2. ASSUME NEW w \in Invocations, Moves(w) PROVE Compiles'
    <2>1. work'[w].pc \in {"insert", "point"} => work'[w].cur \notin Broken
      <3>1. CASE Starts(w) \/ Leaves(w)
        BY <3>1 DEF Starts, Leaves
      <3>2. CASE Finds(w)
        BY <3>2 DEF Finds
      <3>3. CASE Reads(w)
        BY <3>3 DEF Reads
      <3>4. CASE Stores(w)
        BY <3>4 DEF Stores, Compiles
      <3>5. QED
        BY <1>2, <3>1, <3>2, <3>3, <3>4 DEF Moves
    <2>2. QED
      BY <1>2, <2>1 DEF Moves, Compiles
  <1>3. QED
    BY <1>1, <1>2, NextMoves

LEMMA RevisionsMove ==
  ASSUME TypeOK, IInv, Compiles, [Next]_vars
  PROVE  \A r \in revisions' : r \in revisions \/ (r.id = lastRev + 1 /\ r.agent \notin Broken)
  <1>1. ASSUME NEW w \in Invocations, InsertRevision(w), work[w].cur \in Installed,
               NEW r \in revisions'
        PROVE  r \in revisions \/ (r.id = lastRev + 1 /\ r.agent \notin Broken)
    <2> DEFINE new == [id |-> lastRev + 1, agent |-> work[w].cur, built |-> work[w].snap]
    <2>1. new.id = lastRev + 1 /\ new.agent = work[w].cur
      OBVIOUS
    <2>2. revisions' = revisions \cup {new} /\ work[w].cur \notin Broken
      BY <1>1 DEF InsertRevision, Compiles
    <2> HIDE DEF new
    <2>3. QED
      BY <2>1, <2>2
  <1>2. ASSUME NEW w \in Invocations, Commit(w) \/ PointAgent(w) PROVE revisions' = revisions
    BY <1>2 DEF Commit, PointAgent
  <1>3. ASSUME NEW a \in Agents, RollbackAgent(a) \/ DeleteVps(a) PROVE revisions' \subseteq revisions
    BY <1>3 DEF RollbackAgent, DeleteVps
  <1>4. QED
    BY <1>1, <1>2, <1>3, NextKinds

LEMMA CompiledStep ==
  ASSUME TypeOK, IInv, Compiles, Compiled, [Next]_vars
  PROVE  Compiled'
  <1>1. lastRev + 1 # 0
    BY DEF TypeOK
  <1>2. QED
    BY <1>1, RevisionsMove DEF Compiled

\* A stored revision shares its id with no older one.
LEMMA GenuineStays ==
  ASSUME SyncTypeOK, IInv, SInv, Compiles, [Next]_vars,
         NEW a \in Agents, NEW rev \in Revised, rev.id \in Seen(a), Genuine(a, rev)
  PROVE  Genuine(a, rev)'
  <1>1. rev.id \in Nat /\ lastRev \in Nat /\ rev.id <= lastRev
    BY RevisedFields DEF SInv, SeenBelow, SyncTypeOK, TypeOK
  <1>2. \A r \in revisions' : r \in revisions \/ r.id # rev.id
    BY <1>1, RevisionsMove DEF SyncTypeOK
  <1>3. QED
    BY <1>2 DEF Genuine

LEMMA MetStays ==
  ASSUME SyncTypeOK, IInv, SInv, RecInv, [Next]_vars, remote' = remote
  PROVE  Met'
  <1>1. ASSUME NEW a \in Agents PROVE Genuine(a, marked[a])' /\ Genuine(a, doing[a].got)'
    <2>1. marked[a] \in Revised /\ doing[a].got \in Revised
      BY DEF SyncTypeOK, Doings
    <2>2. Genuine(a, marked[a]) /\ Genuine(a, doing[a].got)
      BY DEF RecInv, Met
    <2>3. marked' = marked /\ doing' = doing
      BY DEF remote
    <2>4. QED
      BY <2>1, <2>2, <2>3, SeenNow, GenuineStays DEF RecInv, Genuine
  <1>2. ASSUME NEW m \in net PROVE Genuine(m.agent, m.rev)'
    <2>1. m.agent \in Agents /\ m.rev \in Revised
      BY CallFields DEF SyncTypeOK
    <2>2. QED
      BY <2>1, SeenNow, GenuineStays DEF RecInv, Met
  <1>3. QED
    BY <1>1, <1>2 DEF Met, remote

\* The row of a target is genuine.
LEMMA RowGenuine ==
  ASSUME TypeOK, TargetIsOwn, Compiled, NEW a \in Agents, desired[a] # 0
  PROVE  Genuine(a, Row(a, desired[a])) /\ Row(a, desired[a]) \in Built(a)
  <1>1. PICK r \in Built(a) : r.id = desired[a]
    BY DEF TargetIsOwn
  <1>2. Row(a, desired[a]) \in Built(a) /\ Row(a, desired[a]).id = desired[a]
    BY <1>1 DEF Row
  <1>3. QED
    BY <1>2 DEF Genuine, Built, Compiled, TargetIsOwn

\* What an agent or a handler passes on it has met, or has read from the table.
LEMMA MetMoves ==
  ASSUME SyncTypeOK, IInv, RecInv, UNCHANGED vars,
         \/ \E a \in Agents : Poll(a) \/ Receive(a) \/ GiveUp(a) \/ \E ok \in BOOLEAN : Applied(a, ok)
         \/ \E m \in net : Serve(m) \/ Lose(m)
  PROVE  Met'
  <1>t. doing \in [Agents -> Doings] /\ marked \in [Agents -> Revised]
    BY DEF SyncTypeOK
  <1>g. \A a, rev : Genuine(a, rev)' = Genuine(a, rev)
    BY DEF Genuine, vars
  <1>n. \A a : Genuine(a, NoRevision)
    BY DEF Genuine
  <1>m. \A m \in net : m \in Calls /\ m.agent \in Agents /\ Genuine(m.agent, m.rev)
    BY CallFields DEF SyncTypeOK, RecInv, Met
  <1>a. \A a \in Agents : Genuine(a, marked[a]) /\ Genuine(a, doing[a].got)
    BY DEF RecInv, Met
  <1> SUFFICES /\ \A a \in Agents : Genuine(a, marked'[a]) /\ Genuine(a, doing'[a].got)
               /\ \A m \in net' : Genuine(m.agent, m.rev)
    BY <1>g DEF Met
  <1>1. ASSUME NEW a \in Agents, Poll(a)
        PROVE  /\ \A b \in Agents : Genuine(b, marked'[b]) /\ Genuine(b, doing'[b].got)
               /\ \A m \in net' : Genuine(m.agent, m.rev)
    <2> DEFINE new == Sent("sync", a, marked[a], TRUE)
    <2>1. new.agent = a /\ new.rev = marked[a]
      BY DEF Sent
    <2>2. net' = net \cup {new} /\ marked' = marked
      BY <1>1 DEF Poll
    <2>3. doing'[a].got = NoRevision /\ \A b \in Agents \ {a} : doing'[b] = doing[b]
      BY <1>1, <1>t, TurnFields DEF Poll
    <2> HIDE DEF new
    <2>4. QED
      BY <2>1, <2>2, <2>3, <1>n, <1>m, <1>a
  <1>2. ASSUME NEW a \in Agents, Receive(a)
        PROVE  /\ \A b \in Agents : Genuine(b, marked'[b]) /\ Genuine(b, doing'[b].got)
               /\ \A m \in net' : Genuine(m.agent, m.rev)
    <2>1. PICK m \in net :
            /\ m.agent = a /\ net' = net \ {m} /\ marked' = marked
            /\ Turn(a, "idle", NoRevision) \/ Turn(a, "apply", m.rev)
      BY <1>2 DEF Receive
    <2>2. doing'[a].got \in {NoRevision, m.rev} /\ \A b \in Agents \ {a} : doing'[b] = doing[b]
      BY <2>1, <1>t, TurnFields
    <2>3. QED
      BY <2>1, <2>2, <1>n, <1>m, <1>a
  <1>3. ASSUME NEW a \in Agents, NEW ok \in BOOLEAN, Applied(a, ok)
        PROVE  /\ \A b \in Agents : Genuine(b, marked'[b]) /\ Genuine(b, doing'[b].got)
               /\ \A m \in net' : Genuine(m.agent, m.rev)
    <2> DEFINE new == Sent("result", a, doing[a].got, ok)
    <2>1. new.agent = a /\ new.rev = doing[a].got
      BY DEF Sent
    <2>2. /\ net' = net \cup {new}
          /\ \A b \in Agents : marked'[b] = marked[b] \/ (b = a /\ marked'[b] = doing[a].got)
      BY <1>3, <1>t DEF Applied
    <2>3. doing'[a].got = NoRevision /\ \A b \in Agents \ {a} : doing'[b] = doing[b]
      BY <1>3, <1>t, TurnFields DEF Applied
    <2> HIDE DEF new
    <2>4. QED
      BY <2>1, <2>2, <2>3, <1>n, <1>m, <1>a
  <1>4. ASSUME NEW a \in Agents, GiveUp(a)
        PROVE  /\ \A b \in Agents : Genuine(b, marked'[b]) /\ Genuine(b, doing'[b].got)
               /\ \A m \in net' : Genuine(m.agent, m.rev)
    <2>1. ASSUME NEW e \in net' PROVE Genuine(e.agent, e.rev)
      <3>1. PICK m \in net, b \in BOOLEAN : e = [m EXCEPT !.live = b]
        BY <1>4 DEF GiveUp
      <3>2. e.agent = m.agent /\ e.rev = m.rev
        BY <3>1, <1>m, ChangedCall
      <3>3. QED
        BY <3>2, <1>m
    <2>2. \A b \in Agents : marked'[b] = marked[b] \/ (b = a /\ marked'[b] = doing[a].got)
      BY <1>4, <1>t DEF GiveUp
    <2>3. doing'[a].got = NoRevision /\ \A b \in Agents \ {a} : doing'[b] = doing[b]
      BY <1>4, <1>t, TurnFields DEF GiveUp
    <2>4. QED
      BY <2>1, <2>2, <2>3, <1>n, <1>a
  <1>5. ASSUME NEW m \in net, StoreReport(m)
        PROVE  /\ \A b \in Agents : Genuine(b, marked'[b]) /\ Genuine(b, doing'[b].got)
               /\ \A e \in net' : Genuine(e.agent, e.rev)
    <2> DEFINE new == [m EXCEPT !.kind = "state"]
    <2>1. new.agent = m.agent /\ new.rev = m.rev
      BY <1>m, ChangedCall
    <2>2. net' = (net \ {m}) \cup {new} /\ marked' = marked /\ doing' = doing
      BY <1>5 DEF StoreReport
    <2> HIDE DEF new
    <2>3. QED
      BY <2>1, <2>2, <1>m, <1>a
  <1>6. ASSUME NEW m \in net, AnswerState(m)
        PROVE  /\ \A b \in Agents : Genuine(b, marked'[b]) /\ Genuine(b, doing'[b].got)
               /\ \A e \in net' : Genuine(e.agent, e.rev)
    <2>1. PICK told :
            /\ told = NoRevision \/ (desired[m.agent] # 0 /\ told = Row(m.agent, desired[m.agent]))
            /\ net' = (net \ {m}) \cup (IF m.live THEN {Sent("answer", m.agent, told, TRUE)} ELSE {})
            /\ marked' = marked /\ doing' = doing
      BY <1>6 DEF AnswerState
    <2>2. Genuine(m.agent, told)
      BY <1>m, <1>n, <2>1, RowGenuine DEF IInv, RecInv
    <2>3. \A e \in net' : e \in net \/ (e.agent = m.agent /\ e.rev = told)
      BY <2>1 DEF Sent
    <2>4. QED
      BY <2>1, <2>2, <2>3, <1>m, <1>a
  <1>7. ASSUME NEW m \in net, StoreResult(m) \/ Reject(m) \/ Lose(m)
        PROVE  /\ \A b \in Agents : Genuine(b, marked'[b]) /\ Genuine(b, doing'[b].got)
               /\ \A e \in net' : Genuine(e.agent, e.rev)
    <2>1. net' = net \ {m} /\ marked' = marked /\ Ends(m)
      BY <1>7 DEF StoreResult, Reject, Lose
    <2>2. \A b \in Agents : doing'[b] = doing[b] \/ doing'[b].got = NoRevision
      BY <2>1, <1>m, <1>t, TurnFields DEF Ends
    <2>3. QED
      BY <2>1, <2>2, <1>m, <1>n, <1>a
  <1>8. QED
    BY <1>1, <1>2, <1>3, <1>4, <1>5, <1>6, <1>7 DEF Serve

LEMMA RecInvStep ==
  ASSUME SyncTypeOK, IInv, SInv, RecInv, [SyncNext]_syncVars
  PROVE  RecInv'
  <1>1. [Next]_vars /\ TypeOK
    BY SyncStepIsStep DEF SyncTypeOK
  <1>2. Compiles' /\ Compiled'
    BY <1>1, CompilesStep, CompiledStep DEF RecInv
  <1>3. ASSUME remote' = remote PROVE Met'
    BY <1>1, <1>3, MetStays
  <1>4. ASSUME NEW w \in Invocations,
               Publish(w) \/ Administer(w) \/ Cron(w) \/ \E a \in Agents : CheckDeletion(w, a)
        PROVE  Met'
    <2>1. remote' = remote
      BY <1>4 DEF Publish, Administer, Cron, CheckDeletion
    <2>2. QED
      BY <1>3, <2>1
  <1>5. ASSUME NEW a \in Agents, RollBack(a) \/ Delete(a) PROVE Met'
    <2>1. remote' = remote
      BY <1>5 DEF RollBack, Delete
    <2>2. QED
      BY <1>3, <2>1
  <1>6. ASSUME NEW a \in Agents, NEW ok \in BOOLEAN, Applied(a, ok) PROVE Met'
    <2>1. UNCHANGED vars
      BY <1>6 DEF Applied
    <2>2. QED
      BY <1>6, <2>1, MetMoves
  <1>7. ASSUME NEW a \in Agents, Stumble(a) PROVE Met'
    <2>1. Applied(a, FALSE)
      BY <1>7, Zenon DEF Stumble
    <2>2. QED
      BY <2>1, <1>6
  <1>8. ASSUME NEW a \in Agents, Apply(a) PROVE Met'
    BY <1>8, <1>6 DEF Apply
  <1>9. ASSUME NEW a \in Agents, Poll(a) \/ Receive(a) \/ GiveUp(a) PROVE Met'
    <2>1. UNCHANGED vars
      BY <1>9 DEF Poll, Receive, GiveUp
    <2>2. QED
      BY <1>9, <2>1, MetMoves
  <1>10. ASSUME NEW m \in net, Serve(m) \/ Lose(m) PROVE Met'
    <2>1. UNCHANGED vars
      BY <1>10 DEF Serve, StoreReport, AnswerState, StoreResult, Reject, Lose
    <2>2. QED
      BY <1>10, <2>1, MetMoves
  <1>11. ASSUME UNCHANGED syncVars PROVE Met'
    BY <1>3, <1>11 DEF syncVars
  <1>12. Met'
    BY <1>4, <1>5, <1>7, <1>8, <1>9, <1>10, <1>11 DEF SyncNext, AgentStep
  <1>13. QED
    BY <1>2, <1>12 DEF RecInv

LEMMA RecInvInit == SyncInit => RecInv
  BY DEF SyncInit, Init, Idle, RecInv, Compiles, Compiled, Met, Genuine, Waiting

\* All that is known of the whole system, however the publishers overlap.
WInv == SyncTypeOK /\ IInv /\ SInv /\ RecInv

LEMMA WInvCorrect == SyncSpec => []WInv
  <1>1. SyncTypeOK /\ IInv /\ SInv /\ RecInv /\ [SyncNext]_syncVars => RecInv'
    BY RecInvStep
  <1>2. QED
    BY <1>1, SInvCorrect, RecInvInit, PTL DEF SyncSpec, WInv

-----------------------------------------------------------------------------
(***************************************************************************)
(* One invocation at a time: what a publisher has read is what is stored.  *)
(* With two, a publisher that read before an edit can point the agent      *)
(* after it and take the draft flag away.                                  *)
(***************************************************************************)

\* Only commits change a node, and only they stamp it.
LEMMA NodeVerMoves ==
  ASSUME TypeOK, [Next]_vars
  PROVE  nodeVer' = nodeVer \/ \E w \in Invocations : Commit(w)
  <1>1. ASSUME NEW w \in Invocations, InsertRevision(w) \/ PointAgent(w) PROVE nodeVer' = nodeVer
    BY <1>1 DEF InsertRevision, PointAgent, tables
  <1>2. ASSUME NEW a \in Agents, RollbackAgent(a) \/ DeleteVps(a) PROVE nodeVer' = nodeVer
    BY <1>2 DEF RollbackAgent, DeleteVps, tables
  <1>3. QED
    BY <1>1, <1>2, NextKinds

LEMMA CommitLands ==
  ASSUME TypeOK, NEW w \in Invocations, Commit(w)
  PROVE  /\ work[w].pc = "commit" /\ work[w].todo \subseteq Installed
         /\ IF work[w].todo = {} THEN work'[w].pc = "idle"
            ELSE work'[w].pc = "enqueue" /\ work'[w].todo = work[w].todo
         /\ UNCHANGED <<stage, desired, revisions, counters>>
         /\ \A a \in Agents : /\ nodeVer'[a] \in Nat /\ nodeVer[a] <= nodeVer'[a]
                              /\ draft'[a] = (draft[a] \/ (work[w].plan.redraft /\ a \in work[w].plan.nodes))
  <1>1. work[w] \in Works /\ nodeVer \in [Agents -> Nat]
    BY DEF TypeOK
  <1>2. [work[w] EXCEPT !.pc = "enqueue", !.plan = NoPlan].pc = "enqueue"
        /\ [work[w] EXCEPT !.pc = "enqueue", !.plan = NoPlan].todo = work[w].todo
    BY <1>1 DEF Works
  <1>3. Idle.pc = "idle"
    BY DEF Idle
  <1>4. /\ IF work[w].todo = {} THEN Goto(w, Idle)
           ELSE Goto(w, [work[w] EXCEPT !.pc = "enqueue", !.plan = NoPlan])
        /\ work[w].pc = "commit" /\ work[w].todo \subseteq Installed
        /\ UNCHANGED <<stage, desired, revisions, counters>>
    BY DEF Commit, Committable, Stop
  <1>5. IF work[w].todo = {} THEN work'[w].pc = "idle"
        ELSE work'[w].pc = "enqueue" /\ work'[w].todo = work[w].todo
    BY <1>2, <1>3, <1>4, GotoLands
  <1>6. \A a \in Agents : nodeVer'[a] \in Nat /\ nodeVer[a] <= nodeVer'[a]
    BY <1>1 DEF Commit, ApplyPlan
  <1>7. \A a \in Agents : draft'[a] = (draft[a] \/ (work[w].plan.redraft /\ a \in work[w].plan.nodes))
    BY DEF Commit, ApplyPlan
  <1>8. QED
    BY <1>4, <1>5, <1>6, <1>7

\* A step of an invocation is no commit of another one.
LEMMA OneCommits ==
  ASSUME TypeOK, NEW v \in Invocations, Commit(v), NEW w \in Invocations, Step(w)
  PROVE  v = w
  BY StepMoves, CommitLands DEF Moves

\* A commit that stamps its nodes as edited, and maybe as retired.
Stamps(w) ==
  /\ Commit(w) /\ work[w].plan.redraft
  /\ edited' = Stamped(edited, w)
  /\ \/ UNCHANGED retired
     \/ /\ \A a \in work[w].plan.nodes : retired[a] = 0 /\ a \in work[w].todo
        /\ retired' = Stamped(retired, w)

\* Every commit that makes a draft is stamped, and nothing else is.
LEMMA FlagsMove ==
  ASSUME TypeOK, [SyncNext]_syncVars
  PROVE  \/ \E w \in Invocations : Stamps(w)
         \/ /\ UNCHANGED <<edited, retired>>
            /\ \A w \in Invocations : Commit(w) => ~work[w].plan.redraft
  <1> DEFINE Unstamped == /\ UNCHANGED <<edited, retired>>
                          /\ \A w \in Invocations : Commit(w) => ~work[w].plan.redraft
  <1>1. ASSUME NEW w \in Invocations, Commit(w) PROVE work[w].pc = "commit" /\ lastOp' # lastOp
    BY <1>1 DEF Commit, TypeOK
  <1>2. ASSUME UNCHANGED <<edited, retired, lastOp>> PROVE Unstamped
    BY <1>1, <1>2
  <1>3. ASSUME NEW w \in Invocations, Publish(w) PROVE Stamps(w) \/ Unstamped
    <2>1. CASE work[w].pc = "commit" /\ lastOp' # lastOp /\ work[w].plan.redraft
      <3>1. Commit(w)
        BY <1>3, <2>1 DEF Publish, Step, FindNodes, Refuse, EnqueueOwn, ReadConfig, InsertRevision,
                          PointAgent, FinishReconcile, RecordFailure
      <3>2. QED
        BY <1>3, <2>1, <3>1 DEF Publish, Flagged, Stamps
    <2>2. CASE ~(work[w].pc = "commit" /\ lastOp' # lastOp /\ work[w].plan.redraft)
      <3>1. UNCHANGED <<edited, retired>>
        BY <1>3, <2>2 DEF Publish, Flagged
      <3>2. Step(w)
        BY <1>3 DEF Publish
      <3>3. QED
        BY <1>1, <2>2, <3>1, <3>2, OneCommits
    <2>3. QED
      BY <2>1, <2>2
  <1>4. ASSUME NEW w \in Invocations,
               Administer(w) \/ Cron(w) \/ \E a \in Agents : CheckDeletion(w, a)
        PROVE  Unstamped
    <2>1. ASSUME Request(w) PROVE lastOp' = lastOp
      BY <2>1 DEF Request, BeginNode, BeginGroup, BeginRegroup, BeginPublish, Begin, Register
    <2>2. UNCHANGED <<edited, retired, lastOp>>
      BY <1>4, <2>1 DEF Administer, Cron, CheckDeletion, CronTick, Crash, D1Error, control, vars
    <2>3. QED
      BY <1>2, <2>2
  <1>5. ASSUME NEW a \in Agents, RollBack(a) \/ Delete(a) PROVE Unstamped
    BY <1>2, <1>5 DEF RollBack, Delete, RollbackAgent, DeleteVps, control
  <1>6. ASSUME NEW a \in Agents, AgentStep(a) \/ GiveUp(a) \/ Stumble(a)
        PROVE  UNCHANGED <<vars, edited, retired>>
    BY <1>6 DEF AgentStep, Poll, Receive, Apply, Applied, GiveUp, Stumble, control
  <1>7. ASSUME NEW m \in net, Serve(m) \/ Lose(m) PROVE UNCHANGED <<vars, edited, retired>>
    BY <1>7 DEF Serve, StoreReport, AnswerState, StoreResult, Reject, Lose, control
  <1>8. ASSUME UNCHANGED <<vars, edited, retired>> PROVE Unstamped
    BY <1>2, <1>8 DEF vars
  <1>9. ASSUME UNCHANGED syncVars PROVE Unstamped
    BY <1>8, <1>9 DEF syncVars, control
  <1> HIDE DEF Unstamped
  <1>10. (\E w \in Invocations : Stamps(w)) \/ Unstamped
    BY <1>3, <1>4, <1>5, <1>6, <1>7, <1>8, <1>9 DEF SyncNext
  <1>11. QED
    BY <1>10 DEF Unstamped

LEMMA CountersGrow ==
  ASSUME TypeOK, [Next]_vars
  PROVE  /\ rollbacks' = 0 => rollbacks = 0
         /\ faults' = 0 => faults = 0
  <1>1. ASSUME NEW w \in Invocations, Step(w) PROVE UNCHANGED counters
    BY <1>1 DEF Step, FindNodes, Refuse, Commit, EnqueueOwn, ReadConfig, InsertRevision,
                PointAgent, FinishReconcile, RecordFailure
  <1>2. ASSUME NEW w \in Invocations, Request(w) \/ CronTick(w) PROVE UNCHANGED counters
    BY <1>2 DEF Request, BeginNode, BeginGroup, BeginRegroup, BeginPublish, Begin, Register, CronTick
  <1>3. ASSUME NEW w \in Invocations, Crash(w) \/ D1Error(w)
        PROVE  faults' = faults + 1 /\ rollbacks' = rollbacks
    BY <1>3 DEF Crash, D1Error
  <1>4. ASSUME NEW a \in Agents, RollbackAgent(a) PROVE rollbacks' = rollbacks + 1 /\ faults' = faults
    BY <1>4 DEF RollbackAgent
  <1>5. ASSUME NEW a \in Agents, DeleteVps(a) PROVE UNCHANGED counters
    BY <1>5 DEF DeleteVps
  <1>6. \/ UNCHANGED counters
        \/ faults' = faults + 1 /\ rollbacks' = rollbacks
        \/ rollbacks' = rollbacks + 1 /\ faults' = faults
    BY <1>1, <1>2, <1>3, <1>4, <1>5 DEF Next, vars, counters
  <1>7. QED
    BY <1>6 DEF counters, TypeOK

-----------------------------------------------------------------------------
(* The last edit is in what is offered                                      *)

EditedBelow == \A a \in Agents : edited[a] <= nodeVer[a]

\* The target was built from version v of its node or from a later one.
TargetHas(a, v) == \E r \in Built(a) : r.id = desired[a] /\ r.built.node >= v

DraftsLast == rollbacks = 0 => \A a \in Agents : ~draft[a] /\ desired[a] # 0 => TargetHas(a, edited[a])

EditInv == EditedBelow /\ DraftsLast

LEMMA EditedBelowStep ==
  ASSUME SyncTypeOK, EditedBelow, [SyncNext]_syncVars
  PROVE  EditedBelow'
  <1>t. TypeOK /\ [Next]_vars
    BY SyncStepIsStep DEF SyncTypeOK
  <1>v. nodeVer \in [Agents -> Nat] /\ edited \in [Agents -> Nat]
    BY DEF SyncTypeOK, TypeOK
  <1>1. \A a \in Agents : nodeVer'[a] \in Nat /\ nodeVer[a] <= nodeVer'[a]
    BY <1>t, <1>v, NodeVerMoves, CommitLands
  <1>2. \A a \in Agents : edited'[a] \in {edited[a], nodeVer'[a]}
    BY <1>t, FlagsMove DEF Stamps, Stamped
  <1>3. QED
    BY <1>v, <1>1, <1>2 DEF EditedBelow

\* A target that has just been set was built from the node as it is.
LEMMA PointedHas ==
  ASSUME TypeOK, IInv, FreshPoints, NEW w \in Invocations, PointAgent(w),
         NEW a \in Agents, work[w].cur = a, a \in Installed, NEW v \in Nat, v <= nodeVer[a]
  PROVE  TargetHas(a, v)'
  <1>1. /\ work[w].pc = "point" /\ revisions' = revisions
        /\ desired' = [desired EXCEPT ![a] = work[w].rev]
    BY DEF PointAgent
  <1>2. PICK r \in Built(a) : r.id = work[w].rev /\ r.built = work[w].snap
    BY <1>1 DEF IInv, Recorded
  <1>3. r.built.node >= v
    <2>1. work[w].snap = Config(a)
      BY DEF FreshPoints
    <2>2. Config(a).node = nodeVer[a]
      BY DEF Config
    <2>3. nodeVer[a] \in Nat
      BY DEF TypeOK
    <2>4. QED
      BY <1>2, <2>1, <2>2, <2>3
  <1>4. desired'[a] = r.id /\ r \in Built(a)'
    BY <1>1, <1>2 DEF Built, TypeOK
  <1>5. QED
    BY <1>3, <1>4 DEF TargetHas

\* Setting a target is no stuttering step.
LEMMA PointsMove ==
  ASSUME TypeOK, NEW w \in Invocations, PointAgent(w), [FreshPoints]_vars
  PROVE  FreshPoints
  <1>1. [work[w] EXCEPT !.pc = "finish"].pc = "finish" /\ work[w].pc = "point"
    BY DEF PointAgent, TypeOK, Works
  <1>2. work' # work
    BY <1>1, GotoLands DEF PointAgent
  <1>3. QED
    BY <1>2 DEF vars

LEMMA DraftsLastStep ==
  ASSUME SyncTypeOK, IInv, EditInv, [SyncNext]_syncVars, [FreshPoints]_vars
  PROVE  DraftsLast'
  <1>t. TypeOK /\ [Next]_vars
    BY SyncStepIsStep DEF SyncTypeOK
  <1>v. /\ edited \in [Agents -> Nat] /\ nodeVer \in [Agents -> Nat] /\ desired \in [Agents -> Nat]
        /\ draft \in [Agents -> BOOLEAN]
    BY DEF SyncTypeOK, TypeOK
  <1> SUFFICES ASSUME rollbacks' = 0, NEW a \in Agents, ~draft'[a], desired'[a] # 0
               PROVE  TargetHas(a, edited[a])'
    BY DEF DraftsLast
  <1>0. rollbacks = 0
    BY <1>t, CountersGrow
  <1>c. ASSUME NEW w \in Invocations, Commit(w) PROVE TargetHas(a, edited[a])'
    <2>1. UNCHANGED <<desired, revisions>> /\ ~draft[a]
          /\ ~(work[w].plan.redraft /\ a \in work[w].plan.nodes)
      BY <1>t, <1>c, CommitLands
    <2>2. edited'[a] = edited[a]
      <3>1. ASSUME NEW v \in Invocations, Stamps(v) PROVE edited'[a] = edited[a]
        <4>1. v = w
          BY <1>t, <1>c, <3>1, OneCommits DEF Stamps, Step
        <4>2. QED
          BY <2>1, <3>1, <4>1 DEF Stamps, Stamped
      <3>2. QED
        BY <1>t, <3>1, FlagsMove
    <2>3. TargetHas(a, edited[a])
      BY <1>0, <2>1 DEF EditInv, DraftsLast
    <2>4. QED
      BY <2>1, <2>2, <2>3 DEF TargetHas, Built
  <1>e. CASE \A w \in Invocations : ~Commit(w)
    <2>0. edited' = edited
      BY <1>t, <1>e, FlagsMove DEF Stamps
    <2>1. ASSUME desired'[a] = desired[a], draft'[a] = draft[a], Built(a) \subseteq Built(a)'
          PROVE  TargetHas(a, edited[a])'
      BY <1>0, <2>0, <2>1 DEF EditInv, DraftsLast, TargetHas
    <2>2. CASE UNCHANGED <<nodeVer, draft, desired, revisions>>
      BY <2>1, <2>2 DEF Built
    <2>3. ASSUME NEW w \in Invocations, InsertRevision(w), work[w].cur \in Installed
          PROVE  TargetHas(a, edited[a])'
      <3>1. UNCHANGED <<desired, draft>> /\ revisions \subseteq revisions'
        BY <2>3 DEF InsertRevision, tables
      <3>2. QED
        BY <2>1, <3>1 DEF Built
    <2>4. ASSUME NEW w \in Invocations, PointAgent(w), work[w].cur \in Installed
          PROVE  TargetHas(a, edited[a])'
      <3>1. /\ work[w].pc = "point" /\ revisions' = revisions
            /\ desired' = [desired EXCEPT ![work[w].cur] = work[w].rev]
            /\ draft' = [draft EXCEPT ![work[w].cur] = FALSE]
        BY <2>4 DEF PointAgent
      <3>2. CASE work[w].cur # a
        BY <1>v, <2>1, <3>1, <3>2 DEF Built
      <3>3. CASE work[w].cur = a
        <4>1. FreshPoints
          BY <1>t, <2>4, PointsMove
        <4>2. QED
          BY <1>t, <1>v, <2>0, <2>4, <3>3, <4>1, PointedHas DEF EditInv, EditedBelow
      <3>4. QED
        BY <3>2, <3>3
    <2>5. ASSUME NEW b \in Agents, RollbackAgent(b) PROVE FALSE
      BY <1>0, <2>5 DEF RollbackAgent
    <2>6. ASSUME NEW b \in Agents, DeleteVps(b) PROVE TargetHas(a, edited[a])'
      <3>1. desired' = [desired EXCEPT ![b] = 0] /\ draft' = draft /\ revisions' = revisions \ Built(b)
        BY <2>6 DEF DeleteVps
      <3>2. a # b
        BY <1>v, <3>1
      <3>3. QED
        BY <1>v, <2>1, <3>1, <3>2 DEF Built
    <2>7. QED
      BY <1>t, <1>e, <2>2, <2>3, <2>4, <2>5, <2>6, NextKinds
  <1>q. QED
    BY <1>c, <1>e

\* In every behaviour in which no invocation sets a target from a configuration
\* that has changed since it read it, and nobody rolls back, what subscriptions
\* offer was built after the last edit of its settings (OfferedHasEdit), however
\* requests and Cron overlap, calls are lost or late and applies fail.
THEOREM FreshTargetsHaveEdits ==
  SyncSpec /\ [][FreshPoints]_vars => []OfferedHasEdit
  <1>1. ASSUME SyncInit PROVE EditInv
    BY <1>1 DEF SyncInit, Init, EditInv, EditedBelow, DraftsLast
  <1>2. ASSUME WInv, EditInv, [SyncNext]_syncVars, [FreshPoints]_vars PROVE EditInv'
    <2>1. EditedBelow'
      BY <1>2, EditedBelowStep DEF EditInv, WInv
    <2>2. DraftsLast'
      BY <1>2, DraftsLastStep DEF WInv
    <2>3. QED
      BY <2>1, <2>2 DEF EditInv
  <1>3. ASSUME WInv, EditInv PROVE OfferedHasEdit
    <2> SUFFICES ASSUME rollbacks = 0, NEW a \in Agents, Offered(a)
                 PROVE  Row(a, desired[a]).built.node >= edited[a]
      BY DEF OfferedHasEdit
    <2>1. desired[a] # 0 /\ ~draft[a]
      BY DEF Offered
    <2>2. PICK r \in Built(a) : r.id = desired[a] /\ r.built.node >= edited[a]
      BY <1>3, <2>1 DEF EditInv, DraftsLast, TargetHas
    <2>3. Row(a, desired[a]) \in Built(a) /\ Row(a, desired[a]).id = desired[a]
      BY <2>2 DEF Row
    <2>4. Row(a, desired[a]) = r
      BY <1>3, <2>2, <2>3 DEF WInv, IInv, TargetIsOwn, Built
    <2>5. QED
      BY <2>2, <2>4
  <1>4. QED
    BY <1>1, <1>2, <1>3, WInvCorrect, PTL DEF SyncSpec

\* While invocations take turns and nobody rolls back, what subscriptions offer was
\* built after the last edit of its settings (OfferedHasEdit), whatever calls are
\* lost or late, applies fail and invocations die.
THEOREM OfferedHasLastEdit ==
  ASSUME Alone
  PROVE  SyncSpec => []OfferedHasEdit
  BY DeliveryIsPublishing, TurnsPointFreshly, FreshTargetsHaveEdits, PTL

\* What a VPS runs once it is settled: no queue row, no missed change, and the
\* control plane knows that the target is applied.
SettledRunsPresent ==
  rollbacks = 0 =>
    \A a \in Installed \ missed :
      row[a] = NoRow /\ current[a] = desired[a] => marked[a].built = Config(a)

\* From the commit to the VPS: in every behaviour in which no invocation sets a
\* target from a configuration that has changed since it read it, and nobody rolls
\* back, a settled VPS runs the configuration that the tables stand for now,
\* however requests and Cron overlap, calls are lost or late and applies fail.
THEOREM SettledVpsRunsPresent ==
  SyncSpec /\ [][FreshPoints]_vars => []SettledRunsPresent
  <1>1. ASSUME WInv, rollbacks = 0 => TargetIsCurrent PROVE SettledRunsPresent
    <2> SUFFICES ASSUME rollbacks = 0, NEW a \in Installed \ missed, row[a] = NoRow,
                        current[a] = desired[a]
                 PROVE  marked[a].built = Config(a)
      BY DEF SettledRunsPresent
    <2>1. PICK r \in Built(a) : r.id = desired[a] /\ r.built = Config(a)
      BY <1>1 DEF TargetIsCurrent
    <2>2. a \in Agents /\ r \in revisions /\ r.id # 0
      BY <1>1 DEF Installed, Built, WInv, RecInv, Compiled
    <2>3. marked[a].id = r.id
      BY <1>1, <2>1, <2>2 DEF WInv, SInv, Truthful
    <2>4. marked[a] # NoRevision
      BY <2>2, <2>3 DEF NoRevision
    <2>5. marked[a] = r
      BY <1>1, <2>2, <2>3, <2>4 DEF WInv, RecInv, Met, Genuine
    <2>6. QED
      BY <2>1, <2>5
  <1>2. QED
    BY <1>1, WInvCorrect, DeliveryIsPublishing, FreshTargetsAreCurrent, PTL

-----------------------------------------------------------------------------
(* Retiring a VPS and deleting it                                           *)

\* Only updateVps and deleteVps make drafts, of one node, whose agent they queue.
PlansOneNode ==
  \A w \in Invocations : work[w].pc \in {"found", "commit"} /\ work[w].plan.redraft =>
    work[w].pc = "commit" /\ \E a \in Agents : work[w].plan.nodes = {a} /\ work[w].todo \subseteq {a}

RetiredBelow == \A a \in Agents : retired[a] <= nodeVer[a] /\ (retired[a] # 0 => stage[a] # "new")

LEMMA PlansOneNodeStep ==
  ASSUME TypeOK, PlansOneNode, [Next]_vars
  PROVE  PlansOneNode'
  <1>1. CASE work' = work
    BY <1>1 DEF PlansOneNode
  <1>2. ASSUME NEW w \in Invocations, Moves(w) PROVE PlansOneNode'
    <2>1. work'[w].pc \in {"found", "commit"} /\ work'[w].plan.redraft => Starts(w)
      <3>1. CASE Finds(w)
        BY <3>1 DEF Finds, PlansOneNode
      <3>2. CASE Reads(w) \/ Stores(w) \/ Leaves(w)
        BY <3>2 DEF Reads, Stores, Leaves
      <3>3. QED
        BY <1>2, <3>1, <3>2 DEF Moves
    <2>2. QED
      BY <1>2, <2>1 DEF Moves, Starts, PlansOneNode
  <1>3. QED
    BY <1>1, <1>2, NextMoves

\* An agent that is registered stays so until it is deleted.
LEMMA StageMoves ==
  ASSUME TypeOK, [Next]_vars, NEW a \in Agents
  PROVE  /\ stage'[a] = "new" => stage[a] = "new"
         /\ a \in Installed => a \in Installed' \/ DeleteVps(a)
         /\ a \in Installed' => a \in Installed \/ stage[a] = "new"
  <1>s. stage \in [Agents -> {"new", "installed", "gone"}]
    BY DEF TypeOK
  <1>1. ASSUME NEW w \in Invocations, Step(w) PROVE stage' = stage
    BY <1>1 DEF Step, FindNodes, Refuse, Commit, EnqueueOwn, ReadConfig, InsertRevision, PointAgent,
                FinishReconcile, RecordFailure, tables
  <1>2. ASSUME NEW w \in Invocations, Request(w)
        PROVE  stage' = stage \/ \E b \in Agents : stage[b] = "new" /\ stage' = [stage EXCEPT ![b] = "installed"]
    BY <1>2 DEF Request, BeginNode, BeginGroup, BeginRegroup, BeginPublish, Begin, Register, tables
  <1>3. ASSUME NEW w \in Invocations, CronTick(w) \/ Crash(w) \/ D1Error(w) PROVE stage' = stage
    BY <1>3 DEF CronTick, Crash, D1Error, tables
  <1>4. ASSUME NEW b \in Agents, RollbackAgent(b) PROVE stage' = stage
    BY <1>4 DEF RollbackAgent, tables
  <1>5. CASE stage' = stage
    BY <1>5 DEF Installed
  <1>6. ASSUME NEW b \in Agents, stage[b] = "new", stage' = [stage EXCEPT ![b] = "installed"]
        PROVE  /\ stage'[a] = "new" => stage[a] = "new"
               /\ a \in Installed => a \in Installed'
               /\ a \in Installed' => a \in Installed \/ stage[a] = "new"
    BY <1>s, <1>6 DEF Installed
  <1>7. ASSUME NEW b \in Agents, DeleteVps(b)
        PROVE  /\ stage'[a] = "new" => stage[a] = "new"
               /\ a \in Installed => a \in Installed' \/ DeleteVps(a)
               /\ a \in Installed' => a \in Installed
    BY <1>s, <1>7 DEF DeleteVps, Installed
  <1>8. CASE UNCHANGED vars
    BY <1>5, <1>8 DEF vars
  <1>9. QED
    BY <1>1, <1>2, <1>3, <1>4, <1>5, <1>6, <1>7, <1>8 DEF Next

\* A retired VPS keeps its stamp; one that gets it had an agent, which is queued.
LEMMA RetiredMoves ==
  ASSUME SyncTypeOK, PlansOneNode, [SyncNext]_syncVars, NEW a \in Agents
  PROVE  \/ retired'[a] = retired[a]
         \/ /\ retired[a] = 0 /\ retired'[a] = nodeVer'[a] /\ a \in Installed
            /\ \E w \in Invocations : /\ Commit(w) /\ work'[w].pc = "enqueue" /\ work'[w].todo = {a}
  <1>t. TypeOK /\ retired \in [Agents -> Nat]
    BY DEF SyncTypeOK
  <1> SUFFICES ASSUME NEW w \in Invocations, Stamps(w), retired' = Stamped(retired, w),
                      \A b \in work[w].plan.nodes : retired[b] = 0 /\ b \in work[w].todo,
                      a \in work[w].plan.nodes
               PROVE  /\ retired[a] = 0 /\ retired'[a] = nodeVer'[a] /\ a \in Installed
                      /\ Commit(w) /\ work'[w].pc = "enqueue" /\ work'[w].todo = {a}
    BY <1>t, FlagsMove DEF Stamps, Stamped
  <1>1. Commit(w) /\ work[w].plan.redraft
    BY DEF Stamps
  <1>2. work[w].pc = "commit" /\ work[w].todo \subseteq Installed
        /\ (work[w].todo # {} => work'[w].pc = "enqueue" /\ work'[w].todo = work[w].todo)
    BY <1>t, <1>1, CommitLands
  <1>3. work[w].todo = {a}
    BY <1>1, <1>2 DEF PlansOneNode
  <1>4. QED
    BY <1>1, <1>2, <1>3 DEF Stamped

LEMMA RetiredBelowStep ==
  ASSUME SyncTypeOK, PlansOneNode, RetiredBelow, [SyncNext]_syncVars
  PROVE  RetiredBelow'
  <1> SUFFICES ASSUME NEW a \in Agents
               PROVE  retired'[a] <= nodeVer'[a] /\ (retired'[a] # 0 => stage'[a] # "new")
    BY DEF RetiredBelow
  <1>t. TypeOK /\ [Next]_vars /\ retired[a] \in Nat /\ nodeVer[a] \in Nat
    BY SyncStepIsStep DEF SyncTypeOK, TypeOK
  <1>1. nodeVer'[a] \in Nat /\ nodeVer[a] <= nodeVer'[a]
    BY <1>t, NodeVerMoves, CommitLands
  <1>2. stage'[a] = "new" => stage[a] = "new"
    BY <1>t, StageMoves
  <1>3. a \in Installed => stage[a] # "new"
    BY DEF Installed
  <1>4. QED
    BY <1>t, <1>1, <1>2, <1>3, RetiredMoves DEF RetiredBelow

\* The target is replaced only by one that is as new.
LEMMA TargetKept ==
  ASSUME TypeOK, IInv, FreshPoints, [Next]_vars, rollbacks' = 0,
         NEW a \in Agents, a \in Installed, a \in Installed', NEW v \in Nat, v <= nodeVer[a],
         TargetHas(a, v) \/ \E w \in Invocations : PointAgent(w) /\ work[w].cur = a
  PROVE  TargetHas(a, v)'
  <1>d. desired \in [Agents -> Nat] /\ stage \in [Agents -> {"new", "installed", "gone"}]
    BY DEF TypeOK
  <1>1. ASSUME NEW w \in Invocations, PointAgent(w), work[w].cur = a PROVE TargetHas(a, v)'
    BY <1>1, PointedHas
  <1>2. ASSUME TargetHas(a, v), desired'[a] = desired[a], Built(a) \subseteq Built(a)'
        PROVE  TargetHas(a, v)'
    BY <1>2 DEF TargetHas
  <1>3. CASE TargetHas(a, v)
    <2>1. CASE UNCHANGED <<nodeVer, draft, desired, revisions>>
      BY <1>2, <1>3, <2>1 DEF Built
    <2>2. ASSUME NEW w \in Invocations, Commit(w) \/ (InsertRevision(w) /\ work[w].cur \in Installed)
          PROVE  TargetHas(a, v)'
      <3>1. desired' = desired /\ revisions \subseteq revisions'
        BY <2>2 DEF Commit, InsertRevision
      <3>2. QED
        BY <1>2, <1>3, <3>1 DEF Built
    <2>3. ASSUME NEW w \in Invocations, PointAgent(w), work[w].cur # a PROVE TargetHas(a, v)'
      <3>1. desired'[a] = desired[a] /\ revisions' = revisions
        BY <1>d, <2>3 DEF PointAgent
      <3>2. QED
        BY <1>2, <1>3, <3>1 DEF Built
    <2>4. ASSUME NEW b \in Agents, RollbackAgent(b) PROVE FALSE
      <3>1. rollbacks' = rollbacks + 1
        BY <2>4 DEF RollbackAgent
      <3>2. QED
        BY <3>1 DEF TypeOK
    <2>5. ASSUME NEW b \in Agents, DeleteVps(b) PROVE TargetHas(a, v)'
      <3>1. desired' = [desired EXCEPT ![b] = 0] /\ revisions' = revisions \ Built(b)
            /\ stage' = [stage EXCEPT ![b] = "gone"]
        BY <2>5 DEF DeleteVps
      <3>2. a # b
        BY <1>d, <3>1 DEF Installed
      <3>3. QED
        BY <1>d, <1>2, <1>3, <3>1, <3>2 DEF Built
    <2>6. QED
      BY <1>1, <2>1, <2>2, <2>3, <2>4, <2>5, NextKinds
  <1>4. QED
    BY <1>1, <1>3

Reached(a) == a \in Broken \/ TargetHas(a, retired[a])

Serving(a) == \E w \in Invocations :
                work[w].todo = {a} /\ work[w].pc \in {"enqueue", "loop", "insert", "point"}

Careful == faults = 0 /\ rollbacks = 0

\* A retired VPS has a target without users, or its publisher is at work.
RetiredServed == Careful => \A a \in Installed : retired[a] # 0 => Reached(a) \/ Serving(a)

\* A publisher with one agent to do goes on until it has pointed it, unless it dies.
LEMMA ServingMoves ==
  ASSUME Alone, IInv, TurnInv, [Next]_vars, faults' = 0,
         NEW a \in Agents, a \in Installed \ Broken, Serving(a)
  PROVE  Serving(a)' \/ \E w \in Invocations : PointAgent(w) /\ work[w].cur = a
  <1>t. TypeOK
    BY DEF IInv
  <1>1. PICK w \in Invocations :
          work[w].todo = {a} /\ work[w].pc \in {"enqueue", "loop", "insert", "point"}
    BY DEF Serving
  <1>w. work[w] \in Works /\ \A v \in Invocations : v = w
    BY <1>t DEF TypeOK, Alone
  <1>c. work[w].pc \in {"insert", "point"} => work[w].cur = a
    BY <1>1 DEF TurnInv
  <1>2. ASSUME NEW new, Goto(w, new), new.todo = {a}, new.pc \in {"enqueue", "loop", "insert", "point"}
        PROVE  Serving(a)'
    BY <1>2, <1>t, GotoLands DEF Serving
  <1>3. CASE EnqueueOwn(w)
    <2> DEFINE new == [work[w] EXCEPT !.pc = "loop", !.op = [b \in Agents |-> lastOp + 1]]
    <2>1. new.todo = {a} /\ new.pc = "loop"
      BY <1>1, <1>w DEF Works
    <2>2. Goto(w, new)
      BY <1>1, <1>3 DEF EnqueueOwn
    <2> HIDE DEF new
    <2>3. QED
      BY <1>2, <2>1, <2>2
  <1>4. ASSUME NEW b \in Agents, ReadConfig(w, b) PROVE Serving(a)'
    <2> DEFINE new == [work[w] EXCEPT !.pc = "insert", !.cur = b, !.snap = Config(b)]
    <2>1. new.todo = {a} /\ new.pc = "insert"
      BY <1>1, <1>w DEF Works
    <2>2. b = a
      BY <1>1, <1>4 DEF ReadConfig
    <2>3. Goto(w, new)
      BY <1>4, <2>2 DEF ReadConfig
    <2> HIDE DEF new
    <2>4. QED
      BY <1>2, <2>1, <2>3
  <1>5. CASE InsertRevision(w)
    <2> DEFINE new == [work[w] EXCEPT !.pc = "point", !.rev = lastRev + 1]
    <2>1. new.todo = {a} /\ new.pc = "point"
      BY <1>1, <1>w DEF Works
    <2>2. Goto(w, new)
      BY <1>c, <1>5 DEF InsertRevision
    <2> HIDE DEF new
    <2>3. QED
      BY <1>2, <2>1, <2>2
  <1>6. CASE PointAgent(w)
    BY <1>c, <1>6 DEF PointAgent
  <1>7. ~(FindNodes(w) \/ Refuse(w) \/ Commit(w) \/ FinishReconcile(w) \/ RecordFailure(w))
    BY <1>1 DEF FindNodes, Refuse, Commit, FinishReconcile, RecordFailure
  <1>8. ~(Request(w) \/ CronTick(w))
    BY <1>1 DEF Request, BeginNode, BeginGroup, BeginRegroup, BeginPublish, Begin, Register, CronTick
  <1>9. ~(Crash(w) \/ D1Error(w))
    <2>1. faults + 1 # 0
      BY <1>t DEF TypeOK
    <2>2. QED
      BY <2>1 DEF Crash, D1Error
  <1>10. CASE work' = work
    BY <1>10 DEF Serving
  <1>11. ASSUME NEW b \in Agents, RollbackAgent(b) \/ DeleteVps(b) PROVE work' = work
    BY <1>11 DEF RollbackAgent, DeleteVps
  <1>12. UNCHANGED vars => work' = work
    BY DEF vars
  <1>13. QED
    BY <1>w, <1>3, <1>4, <1>5, <1>6, <1>7, <1>8, <1>9, <1>10, <1>11, <1>12 DEF Next, Step

\* What a retired VPS has reached it keeps.
LEMMA ReachedStays ==
  ASSUME SyncTypeOK, IInv, FreshPoints, PlansOneNode, RetiredBelow, [SyncNext]_syncVars,
         rollbacks' = 0, NEW a \in Agents, a \in Installed, a \in Installed', retired[a] # 0,
         Reached(a) \/ \E w \in Invocations : PointAgent(w) /\ work[w].cur = a
  PROVE  retired'[a] = retired[a] /\ Reached(a)'
  <1>t. TypeOK /\ [Next]_vars /\ retired[a] \in Nat
    BY SyncStepIsStep DEF SyncTypeOK
  <1>1. retired'[a] = retired[a]
    BY RetiredMoves
  <1>2. retired[a] <= nodeVer[a]
    BY DEF RetiredBelow
  <1>3. a \in Broken \/ TargetHas(a, retired[a])'
    <2> DEFINE v == retired[a]
    <2>1. v \in Nat /\ v <= nodeVer[a]
      BY <1>t, <1>2
    <2>2. a \notin Broken => TargetHas(a, v) \/ \E w \in Invocations : PointAgent(w) /\ work[w].cur = a
      BY DEF Reached
    <2> HIDE DEF v
    <2>3. a \in Broken \/ \E r \in Built(a)' : r.id = desired'[a] /\ r.built.node >= v
      BY <1>t, <2>1, <2>2, TargetKept DEF TargetHas
    <2>4. QED
      BY <1>1, <2>3 DEF TargetHas, v
  <1>4. QED
    BY <1>1, <1>3 DEF Reached

LEMMA RetiredServedStep ==
  ASSUME Alone, SyncTypeOK, IInv, TurnInv, FreshPoints, PlansOneNode, RetiredBelow,
         RetiredServed, [SyncNext]_syncVars
  PROVE  RetiredServed'
  <1>t. TypeOK /\ [Next]_vars
    BY SyncStepIsStep DEF SyncTypeOK
  <1> SUFFICES ASSUME faults' = 0, rollbacks' = 0, NEW a \in Agents, a \in Installed', retired'[a] # 0
               PROVE  Reached(a)' \/ Serving(a)'
    BY DEF RetiredServed, Careful, Installed
  <1>0. Careful
    BY <1>t, CountersGrow DEF Careful
  <1>1. CASE retired'[a] = retired[a]
    <2>1. a \in Installed
      BY <1>t, <1>1, StageMoves DEF RetiredBelow
    <2>2. Reached(a) \/ Serving(a)
      BY <1>0, <1>1, <2>1 DEF RetiredServed
    <2>3. Reached(a) \/ Serving(a)' \/ \E w \in Invocations : PointAgent(w) /\ work[w].cur = a
      BY <1>t, <2>1, <2>2, ServingMoves DEF Reached
    <2>4. QED
      BY <1>1, <2>1, <2>3, ReachedStays
  <1>2. CASE \E w \in Invocations : work'[w].pc = "enqueue" /\ work'[w].todo = {a}
    BY <1>2 DEF Serving
  <1>3. QED
    BY <1>1, <1>2, RetiredMoves

-----------------------------------------------------------------------------
\* A revision that a retired VPS may run while it is deleted.
Safe(a, rev) == rev = NoRevision \/ rev.built.node >= retired[a]

\* What the VPS runs, applies or is about to be told.
SafeHere(a) ==
  /\ Safe(a, marked[a])
  /\ doing[a].pc = "apply" => Safe(a, doing[a].got)
  /\ \A m \in net : m.agent = a /\ m.kind = "answer" => Safe(a, m.rev)

DeletingSafely ==
  /\ \A a \in deleting : a \in Installed /\ retired[a] # 0
  /\ Careful => \A a \in deleting : Reached(a) /\ SafeHere(a)

\* The target of a VPS that has reached it is safe.
LEMMA TargetIsSafe ==
  ASSUME SyncTypeOK, IInv, Compiled, NEW a \in Agents, Reached(a), NEW rev, Genuine(a, rev),
         rev = NoRevision \/ rev.id = desired[a]
  PROVE  Safe(a, rev)
  <1>1. CASE a \in Broken
    BY <1>1 DEF Genuine, Safe
  <1>2. CASE TargetHas(a, retired[a]) /\ rev # NoRevision
    <2>1. PICK r \in Built(a) : r.id = desired[a] /\ r.built.node >= retired[a]
      BY <1>2 DEF TargetHas
    <2>2. r = rev
      BY <1>2, <2>1 DEF Genuine, Built
    <2>3. QED
      BY <2>1, <2>2 DEF Safe
  <1>3. QED
    BY <1>1, <1>2 DEF Reached, Safe

\* The check of deleteVps: the target has been reached, is applied, and nothing
\* else is under way to the VPS.
LEMMA CheckedIsSafe ==
  ASSUME Alone, WInv, RetiredServed, Careful, NEW w \in Invocations, NEW a \in Agents,
         work[w].pc = "idle", a \in Installed, retired[a] # 0, current[a] = desired[a]
  PROVE  Reached(a) /\ SafeHere(a)
  <1>t. SyncTypeOK /\ IInv /\ RecInv /\ Compiled /\ TargetIsOwn
    BY DEF WInv, RecInv, IInv
  <1>1. Reached(a)
    BY DEF RetiredServed, Serving, Alone
  <1>2. /\ Genuine(a, marked[a]) /\ Genuine(a, doing[a].got)
        /\ \A m \in net : m.agent = a => Genuine(a, m.rev)
    BY <1>t DEF RecInv, Met
  <1>3. CASE a \in Broken
    BY <1>1, <1>2, <1>3 DEF Genuine, SafeHere, Safe
  <1>4. CASE a \notin Broken
    <2>1. desired[a] # 0
      BY <1>t, <1>1, <1>4 DEF Reached, TargetHas, Compiled, Built
    <2>2. /\ marked[a].id = desired[a]
          /\ doing[a].pc = "apply" => doing[a].got.id = desired[a]
          /\ \A m \in net : m.agent = a /\ m.kind = "answer" /\ m.rev # NoRevision
                              => m.rev.id = desired[a]
      BY <2>1 DEF WInv, SInv, Truthful, Careful
    <2>3. QED
      BY <1>t, <1>1, <1>2, <2>2, TargetIsSafe DEF SafeHere
  <1>5. QED
    BY <1>1, <1>3, <1>4

\* An agent and its handlers pass on what they have, or the target.
LEMMA SafeMoves ==
  ASSUME WInv, UNCHANGED <<vars, retired>>, NEW a \in Agents, Reached(a), SafeHere(a),
         \/ \E b \in Agents : Poll(b) \/ Receive(b) \/ GiveUp(b) \/ \E ok \in BOOLEAN : Applied(b, ok)
         \/ \E m \in net : Serve(m) \/ Lose(m)
  PROVE  SafeHere(a)'
  <1>t. /\ doing \in [Agents -> Doings] /\ marked \in [Agents -> Revised]
        /\ SyncTypeOK /\ IInv /\ Compiled /\ TargetIsOwn /\ TypeOK
    BY DEF WInv, SyncTypeOK, RecInv, IInv
  <1>s. \A rev : Safe(a, rev)' = Safe(a, rev)
    BY DEF Safe
  <1>m. \A m \in net : m \in Calls /\ m.agent \in Agents
    BY <1>t, CallFields DEF SyncTypeOK
  <1>h. /\ Safe(a, marked[a])
        /\ doing[a].pc = "apply" => Safe(a, doing[a].got)
        /\ \A m \in net : m.agent = a /\ m.kind = "answer" => Safe(a, m.rev)
    BY DEF SafeHere
  <1> SUFFICES /\ Safe(a, marked'[a])
               /\ doing'[a].pc = "apply" => Safe(a, doing'[a].got)
               /\ \A m \in net' : m.agent = a /\ m.kind = "answer" => Safe(a, m.rev)
    BY <1>s DEF SafeHere
  <1> DEFINE Goal == /\ Safe(a, marked'[a])
                     /\ doing'[a].pc = "apply" => Safe(a, doing'[a].got)
                     /\ \A m \in net' : m.agent = a /\ m.kind = "answer" => Safe(a, m.rev)
  <1>1. ASSUME NEW b \in Agents, Poll(b) PROVE Goal
    <2> DEFINE new == Sent("sync", b, marked[b], TRUE)
    <2>1. new.kind = "sync"
      BY DEF Sent
    <2>2. net' = net \cup {new} /\ marked' = marked
      BY <1>1 DEF Poll
    <2>3. doing'[b].pc = "asked" /\ \A c \in Agents \ {b} : doing'[c] = doing[c]
      BY <1>1, <1>t, TurnFields DEF Poll
    <2> HIDE DEF new
    <2>4. QED
      BY <2>1, <2>2, <2>3, <1>h
  <1>2. ASSUME NEW b \in Agents, Receive(b) PROVE Goal
    <2>1. PICK m \in net :
            /\ m.agent = b /\ m.kind = "answer" /\ net' = net \ {m} /\ marked' = marked
            /\ Turn(b, "idle", NoRevision) \/ Turn(b, "apply", m.rev)
      BY <1>2 DEF Receive
    <2>2. /\ doing'[b].pc = "apply" => doing'[b].got = m.rev
          /\ \A c \in Agents \ {b} : doing'[c] = doing[c]
      BY <2>1, <1>t, TurnFields
    <2>3. QED
      BY <2>1, <2>2, <1>h
  <1>3. ASSUME NEW b \in Agents, NEW ok \in BOOLEAN, Applied(b, ok) PROVE Goal
    <2> DEFINE new == Sent("result", b, doing[b].got, ok)
    <2>1. new.kind = "result"
      BY DEF Sent
    <2>2. /\ net' = net \cup {new} /\ doing[b].pc = "apply"
          /\ \A c \in Agents : marked'[c] = marked[c] \/ (c = b /\ marked'[c] = doing[b].got)
      BY <1>3, <1>t DEF Applied
    <2>3. doing'[b].pc = "reported" /\ \A c \in Agents \ {b} : doing'[c] = doing[c]
      BY <1>3, <1>t, TurnFields DEF Applied
    <2> HIDE DEF new
    <2>4. QED
      BY <2>1, <2>2, <2>3, <1>h
  <1>4. ASSUME NEW b \in Agents, GiveUp(b) PROVE Goal
    <2>1. ASSUME NEW e \in net', e.agent = a, e.kind = "answer" PROVE Safe(a, e.rev)
      <3>1. PICK m \in net, c \in BOOLEAN : e = [m EXCEPT !.live = c]
        BY <1>4 DEF GiveUp
      <3>2. e.agent = m.agent /\ e.rev = m.rev /\ e.kind = m.kind
        BY <3>1, <1>m, ChangedCall
      <3>3. QED
        BY <2>1, <3>2, <1>h
    <2>2. \A c \in Agents : \/ marked'[c] = marked[c]
                            \/ c = b /\ doing[b].pc = "apply" /\ marked'[c] = doing[b].got
      BY <1>4, <1>t DEF GiveUp
    <2>3. doing'[b].pc = "idle" /\ \A c \in Agents \ {b} : doing'[c] = doing[c]
      BY <1>4, <1>t, TurnFields DEF GiveUp
    <2>4. QED
      BY <2>1, <2>2, <2>3, <1>h
  <1>5. ASSUME NEW m \in net, StoreReport(m) PROVE Goal
    <2> DEFINE new == [m EXCEPT !.kind = "state"]
    <2>1. new.kind = "state"
      BY <1>m, ChangedCall
    <2>2. net' = (net \ {m}) \cup {new} /\ marked' = marked /\ doing' = doing
      BY <1>5 DEF StoreReport
    <2> HIDE DEF new
    <2>3. QED
      BY <2>1, <2>2, <1>h
  <1>6. ASSUME NEW m \in net, AnswerState(m) PROVE Goal
    <2>1. PICK told :
            /\ told = NoRevision \/ (desired[m.agent] # 0 /\ told = Row(m.agent, desired[m.agent]))
            /\ net' = (net \ {m}) \cup (IF m.live THEN {Sent("answer", m.agent, told, TRUE)} ELSE {})
            /\ marked' = marked /\ doing' = doing
      BY <1>6 DEF AnswerState
    <2>2. m.agent = a => Safe(a, told)
      <3>1. CASE told = NoRevision
        BY <3>1 DEF Safe
      <3>2. CASE m.agent = a /\ desired[a] # 0 /\ told = Row(a, desired[a])
        <4>1. Genuine(a, told) /\ told.id = desired[a]
          BY <1>t, <3>2, RowGenuine, RowIsTarget
        <4>2. QED
          BY <1>t, <4>1, TargetIsSafe
      <3>3. QED
        BY <2>1, <3>1, <3>2
    <2>3. \A e \in net' : e \in net \/ (e.agent = m.agent /\ e.rev = told)
      BY <2>1 DEF Sent
    <2>4. QED
      BY <2>1, <2>2, <2>3, <1>h
  <1>7. ASSUME NEW m \in net, StoreResult(m) \/ Reject(m) \/ Lose(m) PROVE Goal
    <2>1. net' = net \ {m} /\ marked' = marked /\ Ends(m)
      BY <1>7 DEF StoreResult, Reject, Lose
    <2>2. \A c \in Agents : doing'[c] = doing[c] \/ doing'[c].pc = "idle"
      BY <2>1, <1>m, <1>t, TurnFields DEF Ends
    <2>3. QED
      BY <2>1, <2>2, <1>h
  <1> HIDE DEF Goal
  <1>8. Goal
    BY <1>1, <1>2, <1>3, <1>4, <1>5, <1>6, <1>7 DEF Serve
  <1>9. QED
    BY <1>8 DEF Goal

\* The agents and their handlers change no table of the publishers and retire nobody.
LEMMA RemoteRests ==
  /\ \A a \in Agents : Poll(a) \/ Receive(a) \/ GiveUp(a) \/ (\E ok \in BOOLEAN : Applied(a, ok))
                         => UNCHANGED <<vars, retired, deleting>>
  /\ \A m \in net : Serve(m) \/ Lose(m) => UNCHANGED <<vars, retired, deleting>>
  <1>1. ASSUME NEW a \in Agents,
               Poll(a) \/ Receive(a) \/ GiveUp(a) \/ (\E ok \in BOOLEAN : Applied(a, ok))
        PROVE  UNCHANGED <<vars, retired, deleting>>
    BY <1>1 DEF Poll, Receive, GiveUp, Applied, control
  <1>2. ASSUME NEW m \in net, Serve(m) \/ Lose(m) PROVE UNCHANGED <<vars, retired, deleting>>
    BY <1>2 DEF Serve, StoreReport, AnswerState, StoreResult, Reject, Lose, control
  <1>3. QED
    BY <1>1, <1>2

\* No invocation unregisters an agent.
LEMMA InstalledStay ==
  ASSUME TypeOK, NEW w \in Invocations,
         Step(w) \/ Request(w) \/ CronTick(w) \/ Crash(w) \/ D1Error(w)
  PROVE  Installed \subseteq Installed'
  <1>s. stage \in [Agents -> {"new", "installed", "gone"}]
    BY DEF TypeOK
  <1>1. CASE Step(w)
    <2>1. stage' = stage
      BY <1>1 DEF Step, FindNodes, Refuse, Commit, EnqueueOwn, ReadConfig, InsertRevision, PointAgent,
                  FinishReconcile, RecordFailure, tables
    <2>2. QED
      BY <2>1 DEF Installed
  <1>2. CASE Request(w)
    <2>1. stage' = stage \/ \E b \in Agents : stage' = [stage EXCEPT ![b] = "installed"]
      BY <1>2 DEF Request, BeginNode, BeginGroup, BeginRegroup, BeginPublish, Begin, Register, tables
    <2>2. QED
      BY <1>s, <2>1 DEF Installed
  <1>3. CASE CronTick(w) \/ Crash(w) \/ D1Error(w)
    <2>1. stage' = stage
      BY <1>3 DEF CronTick, Crash, D1Error, tables
    <2>2. QED
      BY <2>1 DEF Installed
  <1>4. QED
    BY <1>1, <1>2, <1>3

LEMMA DeletingSafelyStep ==
  ASSUME Alone, WInv, FreshPoints, PlansOneNode, RetiredBelow, RetiredServed, DeletingSafely,
         [SyncNext]_syncVars
  PROVE  DeletingSafely'
  <1>t. /\ SyncTypeOK /\ IInv /\ TypeOK /\ [Next]_vars /\ deleting \subseteq Agents
        /\ stage \in [Agents -> {"new", "installed", "gone"}]
    BY SyncStepIsStep DEF WInv, SyncTypeOK, TypeOK
  <1>c. Careful' => Careful
    BY <1>t, CountersGrow DEF Careful
  <1>1. ASSUME remote' = remote, deleting' \subseteq deleting, \A a \in deleting' : a \in Installed'
        PROVE  DeletingSafely'
    <2>1. ASSUME NEW a \in deleting'
          PROVE  /\ a \in Agents /\ a \in Installed /\ retired[a] # 0 /\ retired'[a] = retired[a]
                 /\ Careful' => Reached(a)' /\ SafeHere(a)'
      <3>1. a \in Agents /\ a \in Installed /\ a \in Installed' /\ retired[a] # 0
        BY <1>t, <1>1 DEF DeletingSafely
      <3>2. retired'[a] = retired[a]
        BY <1>t, <3>1, RetiredMoves
      <3>3. ASSUME Careful' PROVE Reached(a)' /\ SafeHere(a)'
        <4>1. Reached(a) /\ SafeHere(a)
          BY <1>c, <1>1, <3>3 DEF DeletingSafely
        <4>2. rollbacks' = 0
          BY <3>3 DEF Careful
        <4>3. Reached(a)'
          BY <1>t, <3>1, <4>1, <4>2, ReachedStays
        <4>4. UNCHANGED <<marked, doing, net>>
          BY <1>1 DEF remote
        <4>5. SafeHere(a)'
          BY <3>2, <4>1, <4>4 DEF SafeHere, Safe
        <4>6. QED
          BY <4>3, <4>5
      <3>4. QED
        BY <3>1, <3>2, <3>3
    <2>2. QED
      BY <1>1, <2>1 DEF DeletingSafely
  <1>2. ASSUME NEW w \in Invocations, NEW a \in Agents, CheckDeletion(w, a)
        PROVE  DeletingSafely'
    <2>1. /\ deleting' = deleting \cup {a} /\ UNCHANGED <<vars, retired, remote>>
          /\ work[w].pc = "idle" /\ a \in Installed /\ retired[a] # 0 /\ current[a] = desired[a]
      BY <1>2 DEF CheckDeletion
    <2>2. /\ Installed' = Installed /\ Careful' = Careful
          /\ \A b \in Agents : Reached(b)' = Reached(b) /\ SafeHere(b)' = SafeHere(b)
      BY <2>1 DEF vars, remote, Installed, Careful, Reached, TargetHas, Built, SafeHere, Safe
    <2>3. Careful => Reached(a) /\ SafeHere(a)
      BY <2>1, CheckedIsSafe
    <2>4. QED
      BY <1>t, <2>1, <2>2, <2>3 DEF DeletingSafely
  <1>3. ASSUME UNCHANGED <<vars, retired, deleting>>,
               \/ \E b \in Agents : Poll(b) \/ Receive(b) \/ GiveUp(b) \/ \E ok \in BOOLEAN : Applied(b, ok)
               \/ \E m \in net : Serve(m) \/ Lose(m)
        PROVE  DeletingSafely'
    <2>1. /\ Installed' = Installed /\ Careful' = Careful
          /\ \A b \in Agents : Reached(b)' = Reached(b)
      BY <1>3 DEF vars, Installed, Careful, Reached, TargetHas, Built
    <2>2. ASSUME NEW a \in deleting, Careful PROVE SafeHere(a)'
      <3>1. a \in Agents /\ Reached(a) /\ SafeHere(a)
        BY <1>t, <2>2 DEF DeletingSafely
      <3>2. QED
        BY <1>3, <3>1, SafeMoves
    <2>3. QED
      BY <1>t, <1>3, <2>1, <2>2 DEF DeletingSafely
  <1>4. ASSUME NEW w \in Invocations, Publish(w) \/ Administer(w) \/ Cron(w)
        PROVE  DeletingSafely'
    <2>1. remote' = remote /\ deleting' = deleting
      BY <1>4 DEF Publish, Administer, Cron, control
    <2>2. Step(w) \/ Request(w) \/ CronTick(w) \/ Crash(w) \/ D1Error(w)
      BY <1>4 DEF Publish, Administer, Cron
    <2>3. QED
      BY <1>t, <1>1, <2>1, <2>2, InstalledStay DEF DeletingSafely
  <1>5. ASSUME NEW a \in Agents, RollBack(a) PROVE DeletingSafely'
    <2>1. remote' = remote /\ deleting' = deleting /\ stage' = stage
      BY <1>5 DEF RollBack, RollbackAgent, control, tables
    <2>2. QED
      BY <1>1, <2>1 DEF DeletingSafely, Installed
  <1>6. ASSUME NEW a \in Agents, Delete(a) PROVE DeletingSafely'
    <2>1. /\ remote' = remote /\ deleting' = deleting \ {a}
          /\ stage' = [stage EXCEPT ![a] = "gone"]
      BY <1>6 DEF Delete, DeleteVps
    <2>2. \A b \in deleting' : b \in Installed'
      BY <1>t, <2>1 DEF DeletingSafely, Installed
    <2>3. QED
      BY <1>1, <2>1, <2>2
  <1>7. ASSUME NEW a \in Agents, Stumble(a) PROVE DeletingSafely'
    <2>1. Applied(a, FALSE)
      BY <1>7, Zenon DEF Stumble
    <2>2. QED
      BY <1>3, <2>1, RemoteRests
  <1>8. ASSUME NEW a \in Agents, AgentStep(a) \/ GiveUp(a) PROVE DeletingSafely'
    <2>1. Poll(a) \/ Receive(a) \/ GiveUp(a) \/ \E ok \in BOOLEAN : Applied(a, ok)
      BY <1>8 DEF AgentStep, Apply
    <2>2. QED
      BY <1>3, <2>1, RemoteRests
  <1>9. ASSUME NEW m \in net, Serve(m) \/ Lose(m) PROVE DeletingSafely'
    BY <1>3, <1>9, RemoteRests
  <1>10. CASE UNCHANGED syncVars
    <2>1. remote' = remote /\ deleting' = deleting /\ stage' = stage
      BY <1>10 DEF syncVars, control, vars
    <2>2. QED
      BY <1>1, <2>1 DEF DeletingSafely, Installed
  <1>11. QED
    BY <1>2, <1>4, <1>5, <1>6, <1>7, <1>8, <1>9, <1>10 DEF SyncNext

\* While invocations take turns, none dies and nobody rolls back, a retired VPS
\* passes the check of its deletion only with a configuration without users on it,
\* and gets no other before it is deleted (CarefulRetirement), whatever calls of
\* agents are lost or late and whatever applies fail.
THEOREM RetirementsAreCareful ==
  ASSUME Alone
  PROVE  SyncSpec => []CarefulRetirement
  <1> DEFINE Inv == PlansOneNode /\ RetiredBelow /\ RetiredServed /\ DeletingSafely
  <1>1. ASSUME SyncInit PROVE Inv
    <2>1. /\ \A w \in Invocations : work[w].pc = "idle"
          /\ \A a \in Agents : retired[a] = 0 /\ nodeVer[a] = 0
          /\ deleting = {}
      BY <1>1 DEF SyncInit, Init, Idle
    <2>2. QED
      BY <2>1 DEF PlansOneNode, RetiredBelow, RetiredServed, DeletingSafely, Installed
  <1>2. ASSUME WInv, TurnInv, Inv, [SyncNext]_syncVars PROVE Inv'
    <2>t. SyncTypeOK /\ IInv /\ TypeOK /\ FreshPoints /\ [Next]_vars
      BY <1>2, SyncStepIsStep, TurnPointsFreshly DEF WInv, SyncTypeOK
    <2>1. PlansOneNode'
      BY <1>2, <2>t, PlansOneNodeStep
    <2>2. RetiredBelow'
      BY <1>2, <2>t, RetiredBelowStep
    <2>3. RetiredServed'
      BY <1>2, <2>t, RetiredServedStep
    <2>4. DeletingSafely'
      BY <1>2, <2>t, DeletingSafelyStep
    <2>5. QED
      BY <2>1, <2>2, <2>3, <2>4
  <1>3. ASSUME Inv PROVE CarefulRetirement
    BY <1>3 DEF DeletingSafely, CarefulRetirement, RetirementIsSafe, Careful, SafeHere, Safe
  <1> HIDE DEF Inv
  <1>4. SyncSpec => []TurnInv
    BY DeliveryIsPublishing, TurnInvCorrect
  <1>5. QED
    BY <1>1, <1>2, <1>3, <1>4, WInvCorrect, PTL DEF SyncSpec
=============================================================================

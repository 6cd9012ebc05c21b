-------------------------- MODULE MonitoringProofs ---------------------------
(***************************************************************************)
(* The invariants of Monitoring, for any number of edits and faults.       *)
(***************************************************************************)
EXTENDS Monitoring, TLAPS

QueueRows == [op : Nat, attempts : 0..3, fails : 0..3]

\* TypeOK with the types of what it compares.
Types == /\ queue # None => queue \in QueueRows
         /\ ops \in Nat
         /\ desired \in [rev : Nat, works : BOOLEAN]
         /\ applied \in Nat /\ current \in Nat

\* Only an invocation that read the row before it was replaced can book a
\* failure of another operation, and it is gone once it did.
Booked == queue # None => /\ queue.attempts <= queue.fails + 1
                          /\ cron.at = "reconcile" /\ cron.op # queue.op => queue.attempts <= queue.fails

IInv == TypeOK /\ Types /\ Booked

-----------------------------------------------------------------------------
LEMMA EnqueuedType ==
  ASSUME NEW op \in Nat
  PROVE  /\ Enqueued(op) \in QueueRows /\ Enqueued(op).op = op
         /\ Enqueued(op).attempts = 0 /\ Enqueued(op).fails = 0
BY DEF Enqueued, QueueRows

\* A published revision: the row is deleted or stays.
LEMMA PublishedSteps ==
  ASSUME IInv, NEW op, Published(op)
  PROVE  /\ queue' = None \/ UNCHANGED queue
         /\ desired' \in [rev : Nat, works : BOOLEAN] /\ desired'.rev = desired.rev + 1
         /\ draft' = FALSE /\ lastError' = FALSE /\ muddled' = FALSE
<1>1. (profile = "good") \in BOOLEAN
  OBVIOUS
<1>2. QED
  BY <1>1 DEF IInv, Types, Published

LEMMA InitIInv == Init => IInv
<1> SUFFICES ASSUME Init PROVE IInv
  OBVIOUS
<1>1. TypeOK
  <2>1. /\ profile \in PROFILES /\ seen \in {"never", "recent", "old"} /\ stage \in STAGES
        /\ cron.at \in {"idle", "reconcile", "maintain"}
    BY DEF Init, PROFILES, STAGES, Rest
  <2>2. alerts \in [KINDS -> {"none", "open", "resolved"}]
    BY DEF Init
  <2>3. current \in 0..applied /\ applied \in 0..desired.rev
    BY DEF Init
  <2>4. QED
    BY <2>1, <2>2, <2>3 DEF Init, TypeOK
<1>2. Types
  BY DEF Init, Types
<1>3. Booked
  BY DEF Init, Booked
<1>4. QED
  BY <1>1, <1>2, <1>3 DEF IInv

\* Steps that leave the queue and Cron alone leave attempts alone.
LEMMA BookedStays ==
  ASSUME Booked, UNCHANGED queue \/ queue' = None,
         cron' = cron \/ cron'.at # "reconcile"
  PROVE  Booked'
BY DEF Booked

LEMMA NextTypes == IInv /\ [Next]_vars => Types' /\ Booked'
<1> SUFFICES ASSUME IInv, [Next]_vars PROVE Types' /\ Booked'
  OBVIOUS
<1>i. TypeOK /\ Types /\ Booked
  BY DEF IInv
<1> USE DEF row, publish, agents, machine, bounds
<1>1. ASSUME NEW new \in PROFILES, NEW flag \in BOOLEAN, Edit(new, flag) \/ Enqueue
      PROVE  Types' /\ Booked'
  <2>1. /\ queue' = Enqueued(ops + 1) /\ ops' = ops + 1 /\ ops + 1 \in Nat
        /\ UNCHANGED <<desired, applied, current>>
    BY <1>1, <1>i DEF Edit, Enqueue, Types
  <2>2. QED
    BY <2>1, <1>i, EnqueuedType DEF Types, Booked
<1>2. CASE PublishNow \/ CronPublishes
  <2>1. PICK op : Published(op)
    BY <1>2 DEF PublishNow, CronPublishes
  <2>2. UNCHANGED <<ops, applied, current>> /\ (cron' = cron \/ cron'.at # "reconcile")
    BY <1>2 DEF PublishNow, CronPublishes, Maintaining
  <2>3. Types'
    BY <1>i, <2>1, <2>2, PublishedSteps DEF Types
  <2>4. Booked'
    BY <1>i, <2>1, <2>2, PublishedSteps, BookedStays
  <2>5. QED
    BY <2>3, <2>4
<1>3. CASE CronReads
  <2>1. UNCHANGED <<queue, ops, desired, applied, current>>
    BY <1>3 DEF CronReads
  <2>2. cron'.at = "reconcile" => cron'.op = queue.op
    BY <1>3 DEF CronReads, Maintaining
  <2>3. QED
    BY <1>i, <2>1, <2>2 DEF Types, Booked
<1>4. CASE CronFails
  <2>1. UNCHANGED <<ops, desired, applied, current>> /\ cron.at = "reconcile" /\ cron'.at = "maintain"
    BY <1>4 DEF CronFails, Maintaining
  <2>2. CASE queue = None
    BY <1>4, <1>i, <2>1, <2>2 DEF CronFails, Types, Booked
  <2>3. CASE queue # None
    <3>1. queue \in QueueRows
      BY <1>i, <2>3 DEF Types
    <3>2. /\ queue' \in QueueRows
          /\ queue'.op = queue.op
          /\ queue'.attempts = IF queue.attempts < 3 THEN queue.attempts + 1 ELSE queue.attempts
          /\ queue'.fails = IF queue.fails < 3 /\ queue.op = cron.op THEN queue.fails + 1 ELSE queue.fails
      <4> DEFINE a == IF queue.attempts < 3 THEN queue.attempts + 1 ELSE queue.attempts
                 f == IF queue.fails < 3 /\ queue.op = cron.op THEN queue.fails + 1 ELSE queue.fails
      <4>1. queue' = [queue EXCEPT !.attempts = a, !.fails = f]
        BY <1>4, <2>3 DEF CronFails
      <4>2. a \in 0..3 /\ f \in 0..3
        BY <3>1 DEF QueueRows
      <4> HIDE DEF a, f
      <4>3. queue' \in QueueRows /\ queue'.op = queue.op /\ queue'.attempts = a /\ queue'.fails = f
        BY <3>1, <4>1, <4>2 DEF QueueRows
      <4>4. QED
        BY <4>3 DEF a, f
    <3>3. Booked'
      BY <1>i, <2>1, <2>3, <3>1, <3>2 DEF Booked, QueueRows
    <3>4. QED
      BY <1>i, <2>1, <3>2, <3>3 DEF Types
  <2>4. QED
    BY <2>2, <2>3
<1>5. CASE Maintain \/ HandlerEnds \/ LateResult \/ AgentStops \/ AgentReturns \/ TimePasses
  <2>1. UNCHANGED <<queue, ops, desired, applied, current>> /\ (cron' = cron \/ cron'.at # "reconcile")
    BY <1>5 DEF Maintain, HandlerEnds, LateResult, AgentStops, AgentReturns, TimePasses, Rest
  <2>2. QED
    BY <1>i, <2>1, BookedStays DEF Types
<1>6. CASE Sync \/ Applies \/ Refuses
  <2>1. UNCHANGED <<queue, ops, desired, cron>> /\ applied' \in Nat /\ current' \in Nat
    BY <1>6, <1>i DEF Sync, Applies, Refuses, Result, Types
  <2>2. QED
    BY <1>i, <2>1, BookedStays DEF Types
<1>7. ASSUME NEW new, installEvent(new)
      PROVE  Types' /\ Booked'
  <2>1. UNCHANGED <<queue, ops, desired, applied, current, cron>>
    BY <1>7 DEF installEvent
  <2>2. QED
    BY <1>i, <2>1, BookedStays DEF Types
<1>8. CASE UNCHANGED vars
  BY <1>8, <1>i, BookedStays DEF vars, Types
<1>9. QED
  BY <1>1, <1>2, <1>3, <1>4, <1>5, <1>6, <1>7, <1>8 DEF Next, PROFILES

LEMMA NextTypeOK == IInv /\ [Next]_vars => TypeOK'
<1> SUFFICES ASSUME IInv, [Next]_vars PROVE TypeOK'
  OBVIOUS
<1>i. TypeOK /\ Types
  BY DEF IInv
<1>b. /\ enabled \in BOOLEAN /\ draft \in BOOLEAN /\ lastError \in BOOLEAN
      /\ up \in BOOLEAN /\ late \in BOOLEAN /\ muddled \in BOOLEAN
  BY DEF IInv, TypeOK
<1> USE DEF row, publish, agents, machine, bounds
<1>1. ASSUME NEW new \in PROFILES, NEW flag \in BOOLEAN, Edit(new, flag)
      PROVE  TypeOK'
  <2>1. queue' = Enqueued(ops + 1) /\ ops' = ops + 1 /\ ops \in Nat
    BY <1>1, <1>i DEF Edit, Types
  <2>2. profile' \in PROFILES /\ enabled' \in BOOLEAN /\ draft' \in BOOLEAN
    BY <1>1, <1>i, <1>b DEF Edit, TypeOK
  <2>3. QED
    BY <1>1, <1>i, <2>1, <2>2, EnqueuedType DEF Edit, TypeOK
<1>2. CASE Enqueue
  <2>1. queue' = Enqueued(ops + 1) /\ ops' = ops + 1 /\ ops \in Nat
    BY <1>2, <1>i DEF Enqueue, Types
  <2>2. QED
    BY <1>2, <1>i, <2>1, EnqueuedType DEF Enqueue, TypeOK
<1>3. CASE PublishNow \/ CronPublishes
  <2>1. PICK op : Published(op)
    BY <1>3 DEF PublishNow, CronPublishes
  <2>2. /\ queue' = None \/ UNCHANGED queue
        /\ desired'.rev = desired.rev + 1
        /\ draft' = FALSE /\ lastError' = FALSE /\ muddled' = FALSE
    BY <2>1, PublishedSteps
  <2>3. cron'.at \in {"idle", "reconcile", "maintain"}
    BY <1>3, <1>i DEF PublishNow, CronPublishes, Maintaining, TypeOK
  <2>4. applied \in 0..desired'.rev
    BY <1>i, <2>2 DEF TypeOK, Types
  <2>5. QED
    BY <1>3, <1>i, <2>2, <2>3, <2>4 DEF PublishNow, CronPublishes, TypeOK
<1>4. CASE HandlerEnds
  BY <1>4, <1>i DEF HandlerEnds, TypeOK
<1>5. CASE CronReads
  BY <1>5, <1>i DEF CronReads, Maintaining, TypeOK
<1>6. CASE CronFails
  <2>1. queue # None => /\ queue'.op = queue.op
                        /\ queue'.attempts \in 0..3
    BY <1>6, <1>i DEF CronFails, Types, QueueRows
  <2>2. QED
    BY <1>6, <1>i, <2>1 DEF CronFails, Maintaining, TypeOK
<1>7. CASE Maintain
  BY <1>7, <1>i DEF Maintain, Rest, TypeOK
<1>h. Heard => seen' \in {"never", "recent", "old"} /\ stage' \in STAGES
  BY <1>i DEF Heard, TypeOK, STAGES
<1>r. \A success \in BOOLEAN : Result(success) => lastError' \in BOOLEAN
  BY DEF Result
<1>8. CASE Sync
  BY <1>8, <1>h, <1>i DEF Sync, TypeOK, Types
<1>9. CASE Applies
  <2>1. lastError' \in BOOLEAN /\ muddled' \in BOOLEAN
    BY <1>9, <1>b, <1>r DEF Applies
  <2>2. applied' = desired.rev /\ current' \in 0..applied'
    BY <1>9, <1>i DEF Applies, Result, TypeOK, Types
  <2>3. QED
    BY <1>9, <1>h, <1>i, <2>1, <2>2 DEF Applies, TypeOK, Types
<1>10. CASE Refuses
  <2>1. lastError' \in BOOLEAN /\ late' \in BOOLEAN
    BY <1>10, <1>b, <1>r DEF Refuses
  <2>2. current' = applied
    BY <1>10 DEF Refuses, Result
  <2>3. QED
    BY <1>10, <1>h, <1>i, <2>1, <2>2 DEF Refuses, TypeOK, Types
<1>11. CASE LateResult
  <2>1. muddled' \in BOOLEAN
    BY <1>11, <1>b DEF LateResult
  <2>2. QED
    BY <1>11, <1>i, <2>1 DEF LateResult, TypeOK
<1>12. CASE AgentStops \/ AgentReturns \/ TimePasses
  BY <1>12, <1>i DEF AgentStops, AgentReturns, TimePasses, TypeOK
<1>13. ASSUME NEW new \in {"upgrading", "upgraded", "failed"}, installEvent(new)
       PROVE  TypeOK'
  BY <1>13, <1>i DEF installEvent, TypeOK, STAGES
<1>14. CASE UNCHANGED vars
  BY <1>14, <1>i DEF vars, TypeOK
<1>15. QED
  BY <1>1, <1>2, <1>3, <1>4, <1>5, <1>6, <1>7, <1>8, <1>9, <1>10, <1>11, <1>12, <1>13, <1>14 DEF Next

LEMMA SpecIInv == Spec => []IInv
<1>1. IInv /\ [Next]_vars => IInv'
  BY NextTypes, NextTypeOK DEF IInv
<1>2. QED
  BY <1>1, InitIInv, PTL DEF Spec

\* Every reachable state is well typed, and D1 never has a VPS further than it
\* is: current_revision lags behind what the agent runs, and that behind the
\* desired revision.
THEOREM TypeCorrect == Spec => []TypeOK
BY SpecIInv, PTL DEF IInv

\* However often a row is replaced under a running Cron invocation, its attempts
\* count the failures of its own operation and at most one of another
\* (api.ts:243 and 311).
THEOREM AttemptsCount == Spec => []AttemptsEarned
<1>1. IInv => AttemptsEarned
  BY DEF IInv, Booked, AttemptsEarned
<1>2. QED
  BY <1>1, SpecIInv, PTL
=============================================================================

--------------------------- MODULE ReconcileProofs ---------------------------
(***************************************************************************)
(* Proofs about Reconcile, for any number of agents, groups and            *)
(* overlapping invocations and without the bounds of the model checker.    *)
(*                                                                         *)
(* NothingLost is not inductive.  It holds because a publisher deletes a   *)
(* queue row only under the operation id it holds, and that id pins the    *)
(* configuration: SnapshotFresh.  SnapshotFresh in turn needs every new    *)
(* operation id to differ from all ids held (OpsBelow), a queue row to     *)
(* belong to a registered agent (RowsOwned), and the revision a publisher  *)
(* talks about to exist (Recorded, RevisionsBelow).                        *)
(*                                                                         *)
(* TargetIsCurrent is proved of all behaviours without the one step that   *)
(* breaks it (FreshPoints), and so of invocations that take turns.         *)
(***************************************************************************)
EXTENDS Reconcile, TLAPS

OpsBelow ==
  /\ \A a \in Agents : row[a].op <= lastOp
  /\ \A w \in Invocations, a \in Agents : work[w].op[a] <= lastOp

RowsOwned == Queued \subseteq Installed

RevisionsBelow == \A r \in revisions : r.id <= lastRev /\ r.agent \in Installed

Recorded ==
  \A w \in Invocations, a \in Installed :
    work[w].cur = a /\ work[w].pc \in {"point", "finish"} =>
      \E r \in Built(a) : r.id = work[w].rev /\ r.built = work[w].snap

HasAgent ==
  \A w \in Invocations :
    /\ work[w].pc \in {"insert", "point", "finish", "failed"} => work[w].cur \in Agents
    /\ work[w].pc \in {"insert", "point", "finish"} => stage[work[w].cur] # "new"

IInv ==
  /\ TypeOK
  /\ OpsBelow
  /\ RowsOwned
  /\ RevisionsBelow
  /\ Recorded
  /\ HasAgent
  /\ TargetIsOwn
  /\ SnapshotFresh
  /\ NothingLost

-----------------------------------------------------------------------------
(* Types                                                                    *)

\* An invocation that stops leaves a well-typed record behind.
LEMMA IdleType == Idle \in Works /\ NoPlan \in Plans /\ NoConfig \in Configs
  <1>1. NoPlan \in Plans
    BY DEF NoPlan, Plans
  <1>2. NoConfig \in Configs
    BY DEF NoConfig, Configs
  <1>3. QED
    BY <1>1, <1>2 DEF Idle, Works, Places

\* What is compiled is a configuration.
LEMMA ConfigType == TypeOK => \A a \in Agents : Config(a) \in Configs
  BY DEF TypeOK, Config, Configs

\* Moving one invocation to a well-typed record keeps all of them well typed.
LEMMA GotoType ==
  ASSUME NEW w \in Invocations, NEW new \in Works, TypeOK, Goto(w, new)
  PROVE  work' \in [Invocations -> Works]
  BY DEF TypeOK, Goto

\* The queue order stays a relation between agents.
LEMMA OrderType ==
  ASSUME TypeOK
  PROVE  /\ \A S \in SUBSET Agents : Touched(S) \in SUBSET (Agents \X Agents)
         /\ \A S : Forgotten(S) \in SUBSET (Agents \X Agents)
  BY DEF TypeOK, Touched, Forgotten, Queued

\* Leaving the loop, or an error in it, keeps the invocation well typed.
LEMMA LoopType ==
  ASSUME TypeOK, NEW w \in Invocations, NEW a \in Agents \cup {None}
  PROVE  /\ NextAgent(w, a) => work' \in [Invocations -> Works]
         /\ Throw(w, a) => work' \in [Invocations -> Works]
  <1>1. work[w] \in Works
    BY DEF TypeOK
  <1>2. [work[w] EXCEPT !.pc = "loop", !.todo = @ \ {a}, !.cur = None,
                        !.snap = NoConfig, !.rev = 0] \in Works
    BY <1>1, IdleType DEF Works, Places
  <1>3. [work[w] EXCEPT !.pc = "failed", !.cur = a] \in Works
    BY <1>1 DEF Works, Places
  <1>4. QED
    BY <1>2, <1>3, IdleType, GotoType DEF NextAgent, Throw, Stop

\* The steps of a request keep every variable in its type.
LEMMA BeginType ==
  ASSUME TypeOK, NEW w \in Invocations, NEW S \in SUBSET Agents,
         NEW place \in Places, NEW plan \in Plans, Begin(w, S, place, plan)
  PROVE  TypeOK'
  <1>1. [Idle EXCEPT !.pc = place, !.todo = S, !.plan = plan] \in Works
    BY IdleType DEF Works
  <1>2. work' \in [Invocations -> Works]
    BY <1>1, GotoType DEF Begin
  <1>3. QED
    BY <1>2 DEF Begin, TypeOK, tables, counters

\* Every action keeps every variable in its type.
LEMMA TypeStep == TypeOK /\ [Next]_vars => TypeOK'
  <1> SUFFICES ASSUME TypeOK, [Next]_vars PROVE TypeOK'
    OBVIOUS
  <1>n. None \notin Agents
    BY ConstantsAssumption
  <1>i. Installed \in SUBSET Agents
    BY DEF Installed
  <1>1. ASSUME NEW w \in Invocations, Step(w) PROVE TypeOK'
    <2>w. work[w] \in Works
      BY DEF TypeOK
    <2>c. work[w].cur \in Agents \cup {None}
      BY <2>w DEF Works
    <2>1. CASE FindNodes(w)
      <3>1. [work[w] EXCEPT !.pc = "commit",
                            !.todo = @ \cup (work[w].plan.nodes \cap Installed)] \in Works
        BY <2>w, <1>i DEF Works, Places
      <3>2. work' \in [Invocations -> Works]
        BY <2>1, <3>1, IdleType, GotoType DEF FindNodes, Stop
      <3>3. QED
        BY <2>1, <3>2 DEF FindNodes, TypeOK, tables, counters
    <2>2. CASE Refuse(w)
      <3>1. work' \in [Invocations -> Works]
        BY <2>2, IdleType, GotoType DEF Refuse, Stop
      <3>2. QED
        BY <2>2, <3>1 DEF Refuse, TypeOK, tables, counters
    <2>3. CASE Commit(w)
      <3>1. [work[w] EXCEPT !.pc = "enqueue", !.plan = NoPlan] \in Works
        BY <2>w, IdleType DEF Works, Places
      <3>2. work' \in [Invocations -> Works]
        BY <2>3, <3>1, IdleType, GotoType DEF Commit, Stop
      <3>3. work[w].todo \in SUBSET Agents /\ work[w].plan \in Plans
        BY <2>w DEF Works
      <3>4. /\ nodeVer' \in [Agents -> Nat] /\ draft' \in [Agents -> BOOLEAN]
            /\ groupVer' \in [Groups -> Nat] /\ members' \in [Groups -> SUBSET Agents]
        BY <2>3, <3>3 DEF Commit, ApplyPlan, Plans, TypeOK
      <3>5. row' \in [Agents -> Rows] /\ older' \in SUBSET (Agents \X Agents)
        BY <2>3, <3>3, OrderType DEF Commit, Enqueue, TypeOK, Rows
      <3>6. QED
        BY <2>3, <3>2, <3>3, <3>4, <3>5, <1>i DEF Commit, TypeOK, counters
    <2>4. CASE EnqueueOwn(w)
      <3>0. [a \in Agents |-> lastOp + 1] \in [Agents -> Nat]
        BY DEF TypeOK
      <3>1. [work[w] EXCEPT !.pc = "loop", !.op = [a \in Agents |-> lastOp + 1]] \in Works
        BY <2>w, <3>0 DEF Works, Places
      <3>2. work' \in [Invocations -> Works]
        BY <2>4, <3>1, IdleType, GotoType DEF EnqueueOwn, Stop
      <3>3. work[w].todo \in SUBSET Agents
        BY <2>w DEF Works
      <3>4. row' \in [Agents -> Rows] /\ older' \in SUBSET (Agents \X Agents)
        <4>1. CASE work[w].todo \subseteq Installed
          <5>1. Enqueue(work[w].todo, lastOp + 1)
            BY <2>4, <4>1 DEF EnqueueOwn
          <5>2. [op |-> lastOp + 1, target |-> 0] \in Rows
            BY DEF TypeOK, Rows
          <5>3. row' \in [Agents -> Rows]
            BY <5>1, <5>2 DEF Enqueue, TypeOK
          <5>4. QED
            BY <5>1, <5>3, <3>3, OrderType DEF Enqueue
        <4>2. CASE ~(work[w].todo \subseteq Installed)
          BY <2>4, <4>2 DEF EnqueueOwn, TypeOK
        <4>3. QED
          BY <4>1, <4>2
      <3>5. QED
        BY <2>4, <3>2, <3>4 DEF EnqueueOwn, TypeOK, tables, counters
    <2>5. ASSUME NEW a \in Agents, ReadConfig(w, a) PROVE TypeOK'
      <3>1. [work[w] EXCEPT !.pc = "insert", !.cur = a, !.snap = Config(a)] \in Works
        BY <2>w, ConfigType DEF Works, Places
      <3>2. work' \in [Invocations -> Works]
        BY <2>5, <3>1, LoopType, GotoType DEF ReadConfig
      <3>3. QED
        BY <2>5, <3>2 DEF ReadConfig, TypeOK, tables, counters
    <2>6. CASE InsertRevision(w)
      <3>0. lastRev + 1 \in Nat
        BY DEF TypeOK
      <3>1. [work[w] EXCEPT !.pc = "point", !.rev = lastRev + 1] \in Works
        BY <2>w, <3>0 DEF Works, Places
      <3>2. work' \in [Invocations -> Works]
        BY <2>6, <3>1, <2>c, GotoType, LoopType DEF InsertRevision
      <3>3. lastRev' \in Nat /\ revisions' \in SUBSET Revisions
        BY <2>6, <2>w, <1>i DEF InsertRevision, TypeOK, Revisions, Works
      <3>4. QED
        BY <2>6, <3>2, <3>3 DEF InsertRevision, TypeOK, tables, counters
    <2>7. CASE PointAgent(w)
      <3>1. [work[w] EXCEPT !.pc = "finish"] \in Works
        BY <2>w DEF Works, Places
      <3>2. work' \in [Invocations -> Works]
        BY <2>7, <3>1, GotoType DEF PointAgent
      <3>3. desired' \in [Agents -> Nat] /\ draft' \in [Agents -> BOOLEAN]
        BY <2>7, <2>w DEF PointAgent, TypeOK, Works
      <3>4. QED
        BY <2>7, <3>2, <3>3 DEF PointAgent, TypeOK, counters
    <2>8. CASE FinishReconcile(w)
      <3> DEFINE a == work[w].cur
                 r == Finished(row[a], work[w].op[a], work[w].rev)
      <3>1. work' \in [Invocations -> Works]
        BY <2>8, <2>c, LoopType DEF FinishReconcile
      <3>2. row' \in [Agents -> Rows]
        <4>1. CASE a \in Agents
          <5>1. row[a] \in Rows /\ work[w].rev \in Nat
            BY <4>1, <2>w DEF TypeOK, Works
          <5>2. r \in Rows
            BY <5>1 DEF Finished, Claimed, Rows, NoRow
          <5>3. QED
            BY <2>8, <4>1, <5>2 DEF FinishReconcile, TypeOK
        <4>2. CASE a \notin Agents
          BY <2>8, <4>2 DEF FinishReconcile, TypeOK
        <4>3. QED
          BY <4>1, <4>2
      <3>3. older' \in SUBSET (Agents \X Agents)
        BY <2>8, OrderType DEF FinishReconcile, TypeOK
      <3>4. QED
        BY <2>8, <3>1, <3>2, <3>3 DEF FinishReconcile, TypeOK, tables, counters
    <2>9. CASE RecordFailure(w)
      <3>1. work' \in [Invocations -> Works]
        BY <2>9, <2>c, LoopType DEF RecordFailure
      <3>2. older' \in SUBSET (Agents \X Agents)
        BY <2>9, OrderType DEF RecordFailure, TypeOK, Queued
      <3>3. QED
        BY <2>9, <3>1, <3>2 DEF RecordFailure, TypeOK, tables, counters
    <2>10. QED
      BY <1>1, <2>1, <2>2, <2>3, <2>4, <2>5, <2>6, <2>7, <2>8, <2>9 DEF Step
  <1>2. ASSUME NEW w \in Invocations, Request(w) PROVE TypeOK'
    <2>1. ASSUME NEW a \in Agents, NEW redraft \in BOOLEAN, BeginNode(w, a, redraft)
          PROVE TypeOK'
      <3>1. [NoPlan EXCEPT !.kind = "node", !.nodes = {a}, !.redraft = redraft] \in Plans
        BY IdleType DEF Plans
      <3>2. QED
        BY <2>1, <3>1, BeginType DEF BeginNode, Places
    <2>2. ASSUME NEW g \in Groups, BeginGroup(w, g) PROVE TypeOK'
      <3>1. [NoPlan EXCEPT !.kind = "group", !.group = g] \in Plans
        BY IdleType DEF Plans
      <3>2. members[g] \cap Installed \in SUBSET Agents
        BY <1>i
      <3>3. QED
        BY <2>2, <3>1, <3>2, BeginType DEF BeginGroup, Places
    <2>3. ASSUME NEW g \in Groups, NEW nodes \in SUBSET Agents, BeginRegroup(w, g, nodes)
          PROVE TypeOK'
      <3>1. [NoPlan EXCEPT !.kind = "regroup", !.group = g, !.nodes = nodes] \in Plans
        BY IdleType DEF Plans
      <3>2. members[g] \cap Installed \in SUBSET Agents
        BY <1>i
      <3>3. QED
        BY <2>3, <3>1, <3>2, BeginType DEF BeginRegroup, Places
    <2>4. ASSUME NEW a \in Agents, BeginPublish(w, a) PROVE TypeOK'
      BY <2>4, IdleType, BeginType DEF BeginPublish, Places
    <2>5. ASSUME NEW a \in Agents, Register(w, a) PROVE TypeOK'
      <3>1. [Idle EXCEPT !.pc = "enqueue", !.todo = {a}] \in Works
        BY IdleType DEF Works, Places
      <3>2. work' \in [Invocations -> Works]
        BY <2>5, <3>1, GotoType DEF Register
      <3>3. QED
        BY <2>5, <3>2 DEF Register, TypeOK, counters
    <2>6. QED
      BY <1>2, <2>1, <2>2, <2>3, <2>4, <2>5 DEF Request
  <1>3. ASSUME NEW w \in Invocations, CronTick(w) PROVE TypeOK'
    <2>1. PICK P \in SUBSET Queued :
            Goto(w, [Idle EXCEPT !.pc = "loop", !.cron = TRUE, !.todo = P,
                      !.op = [a \in Agents |-> IF a \in P THEN row[a].op ELSE 0]])
      BY <1>3 DEF CronTick
    <2>2. [a \in Agents |-> IF a \in P THEN row[a].op ELSE 0] \in [Agents -> Nat]
      BY DEF TypeOK, Rows
    <2>3. [Idle EXCEPT !.pc = "loop", !.cron = TRUE, !.todo = P,
             !.op = [a \in Agents |-> IF a \in P THEN row[a].op ELSE 0]] \in Works
      BY <2>2, IdleType DEF Works, Places, Queued
    <2>4. work' \in [Invocations -> Works]
      BY <2>1, <2>3, GotoType
    <2>5. QED
      BY <1>3, <2>4 DEF CronTick, TypeOK, tables, counters
  <1>4. ASSUME NEW w \in Invocations, Crash(w) \/ D1Error(w) PROVE TypeOK'
    <2>1. work[w].todo \in SUBSET Agents /\ work[w].cur \in Agents \cup {None}
      BY DEF TypeOK, Works
    <2>2. work' \in [Invocations -> Works]
      BY <1>4, <2>1, IdleType, GotoType, LoopType DEF Crash, D1Error, Stop
    <2>3. QED
      BY <1>4, <2>2 DEF Crash, D1Error, TypeOK, tables
  <1>5. ASSUME NEW a \in Agents, RollbackAgent(a) PROVE TypeOK'
    BY <1>5 DEF RollbackAgent, TypeOK, tables, Built, Revisions
  <1>6. ASSUME NEW a \in Agents, DeleteVps(a) PROVE TypeOK'
    <2>1. NoRow \in Rows
      BY DEF NoRow, Rows
    <2>2. older' \in SUBSET (Agents \X Agents)
      BY <1>6, OrderType DEF DeleteVps
    <2>3. QED
      BY <1>6, <2>1, <2>2 DEF DeleteVps, TypeOK, counters
  <1>7. CASE UNCHANGED vars
    BY <1>7 DEF vars, TypeOK
  <1>8. QED
    BY <1>1, <1>2, <1>3, <1>4, <1>5, <1>6, <1>7 DEF Next

\* The initial states are well typed.
LEMMA TypeCorrectInit == Init => TypeOK
  <1> SUFFICES ASSUME Init PROVE TypeOK
    OBVIOUS
  <1>1. work \in [Invocations -> Works]
    BY IdleType DEF Init
  <1>2. row \in [Agents -> Rows]
    BY DEF Init, Rows, NoRow
  <1>3. QED
    BY <1>1, <1>2 DEF Init, TypeOK

\* Every variable has its type in every reachable state.
THEOREM TypeCorrect == Spec => []TypeOK
  BY TypeCorrectInit, TypeStep, PTL DEF Spec

-----------------------------------------------------------------------------
(* The queue loses nothing                                                  *)

\* An invocation that moves while the tables it is about stay as they are: if it
\* does not claim to have read or stored anything, or has just read, all is well.
LEMMA QuietStep ==
  ASSUME IInv, TypeOK', NEW w \in Invocations, NEW new \in Works, Goto(w, new),
         UNCHANGED <<stage, nodeVer, members, groupVer, desired, revisions, lastRev,
                     row, lastOp, missed>>,
         \A a \in Agents : new.op[a] <= lastOp,
         new.pc \notin {"point", "finish"},
         new.pc \in {"insert", "failed"} => new.cur \in Agents,
         new.pc = "insert" => new.cur \in Installed /\ new.snap = Config(new.cur)
  PROVE  IInv'
  <1>1. \A v \in Invocations : work'[v] = IF v = w THEN new ELSE work[v]
    BY DEF Goto, IInv, TypeOK
  <1>2. \A a \in Agents : Config(a)' = Config(a)
    BY DEF Config
  <1>3. Installed' = Installed /\ Queued' = Queued /\ \A a : Built(a)' = Built(a)
    BY DEF Installed, Queued, Built
  <1>4. OpsBelow'
    BY <1>1 DEF IInv, OpsBelow
  <1>5. RowsOwned' /\ RevisionsBelow' /\ TargetIsOwn'
    BY <1>3 DEF IInv, RowsOwned, RevisionsBelow, TargetIsOwn
  <1>6. HasAgent'
    BY <1>1 DEF IInv, HasAgent, Installed
  <1>7. Recorded'
    BY <1>1, <1>3 DEF IInv, Recorded
  <1>8. SnapshotFresh'
    <2> SUFFICES ASSUME NEW v \in Invocations, NEW a \in Queued \ missed,
                        Publishing(v, a)', row[a].op = work'[v].op[a]
                 PROVE  work'[v].snap = Config(a)
      BY <1>2, <1>3 DEF SnapshotFresh, Queued
    <2>1. CASE v = w
      BY <2>1, <1>1 DEF Publishing
    <2>2. CASE v # w
      BY <2>2, <1>1 DEF IInv, SnapshotFresh, Publishing
    <2>3. QED
      BY <2>1, <2>2
  <1>9. NothingLost'
    BY <1>2, <1>3 DEF IInv, NothingLost, Installed
  <1>10. QED
    BY <1>4, <1>5, <1>6, <1>7, <1>8, <1>9 DEF IInv

\* Stopping, leaving the loop for the next agent and throwing are quiet moves.
LEMMA QuietExits ==
  ASSUME IInv, TypeOK', NEW w \in Invocations, NEW a \in Agents,
         Stop(w) \/ NextAgent(w, a) \/ Throw(w, a),
         UNCHANGED <<stage, nodeVer, members, groupVer, desired, revisions, lastRev,
                     row, lastOp, missed>>
  PROVE  IInv'
  <1>w. work[w] \in Works /\ lastOp \in Nat
    BY DEF IInv, TypeOK
  <1>o. \A b \in Agents : work[w].op[b] <= lastOp
    BY DEF IInv, OpsBelow
  <1>1. CASE Stop(w)
    <2>1. Idle \in Works /\ Idle.pc = "idle" /\ \A b \in Agents : Idle.op[b] <= lastOp
      BY <1>w, IdleType DEF Idle
    <2>2. QED
      BY <1>1, <2>1, QuietStep DEF Stop
  <1>2. CASE NextAgent(w, a) /\ ~Stop(w)
    <2> DEFINE new == [work[w] EXCEPT !.pc = "loop", !.todo = @ \ {a}, !.cur = None,
                                      !.snap = NoConfig, !.rev = 0]
    <2>1. new \in Works /\ new.pc = "loop" /\ new.op = work[w].op
      BY <1>w, IdleType DEF Works, Places
    <2>2. Goto(w, new)
      BY <1>2 DEF NextAgent
    <2> HIDE DEF new
    <2>3. QED
      BY <2>1, <2>2, <1>o, QuietStep
  <1>3. CASE Throw(w, a) /\ ~Stop(w)
    <2> DEFINE new == [work[w] EXCEPT !.pc = "failed", !.cur = a]
    <2>1. new \in Works /\ new.pc = "failed" /\ new.op = work[w].op /\ new.cur = a
      BY <1>w DEF Works, Places
    <2>2. Goto(w, new)
      BY <1>3 DEF Throw
    <2> HIDE DEF new
    <2>3. QED
      BY <2>1, <2>2, <1>o, QuietStep
  <1>4. QED
    BY <1>1, <1>2, <1>3

\* Queueing agents under a fresh operation, with or without a change: whatever
\* an invocation holds about them is outdated by its id, and a change that
\* reaches an agent without queueing it makes the agent missed.
LEMMA QueueingStep ==
  ASSUME IInv, TypeOK', NEW w \in Invocations, NEW new \in Works, Goto(w, new),
         NEW S \in SUBSET Installed, Enqueue(S, lastOp + 1), lastOp' = lastOp + 1,
         UNCHANGED <<stage, desired, revisions, lastRev>>,
         \A a \in Installed \ missed' : a \notin S => Config(a)' = Config(a) /\ a \notin missed,
         \A a \in Agents : new.op[a] <= lastOp + 1,
         new.pc \notin {"insert", "point", "finish", "failed"}
  PROVE  IInv'
  <1>1. \A v \in Invocations : work'[v] = IF v = w THEN new ELSE work[v]
    BY DEF Goto, IInv, TypeOK
  <1>2. Installed' = Installed /\ \A a : Built(a)' = Built(a)
    BY DEF Installed, Built
  <1>t. /\ lastOp \in Nat /\ row \in [Agents -> Rows] /\ work \in [Invocations -> Works]
        /\ \A v \in Invocations, a \in Agents : work[v].op[a] \in Nat
        /\ \A a \in Agents : row[a].op \in Nat
    BY DEF IInv, TypeOK, Works, Rows
  <1>3. \A a \in Agents : row'[a] = IF a \in S THEN [op |-> lastOp + 1, target |-> 0] ELSE row[a]
    BY DEF Enqueue
  <1>s. S \subseteq Agents
    BY DEF Installed
  <1>4. Queued' = Queued \cup S
    <2>1. [op |-> lastOp + 1, target |-> 0] # NoRow
      BY <1>t DEF NoRow
    <2>2. QED
      BY <1>3, <1>s, <2>1 DEF Queued
  <1>5. OpsBelow'
    <2>1. \A a \in Agents : row'[a].op <= lastOp + 1
      BY <1>3, <1>t DEF IInv, OpsBelow
    <2>2. \A v \in Invocations, a \in Agents : work'[v].op[a] <= lastOp + 1
      BY <1>1, <1>t DEF IInv, OpsBelow
    <2>3. QED
      BY <2>1, <2>2 DEF OpsBelow
  <1>6. RowsOwned' /\ RevisionsBelow' /\ TargetIsOwn'
    BY <1>2, <1>4 DEF IInv, RowsOwned, RevisionsBelow, TargetIsOwn
  <1>7. HasAgent'
    BY <1>1 DEF IInv, HasAgent
  <1>8. Recorded'
    BY <1>1, <1>2 DEF IInv, Recorded
  <1>9. SnapshotFresh'
    <2> SUFFICES ASSUME NEW v \in Invocations, NEW a \in Queued' \ missed',
                        Publishing(v, a)', row'[a].op = work'[v].op[a]
                 PROVE  work'[v].snap = Config(a)'
      BY DEF SnapshotFresh
    <2>1. v # w /\ work'[v] = work[v] /\ a \in Agents /\ Publishing(v, a)
      BY <1>1 DEF Publishing, Queued
    <2>2. CASE a \in S
      BY <2>1, <2>2, <1>3, <1>t DEF IInv, OpsBelow
    <2>3. CASE a \notin S
      <3>1. a \in Installed /\ a \in Queued
        BY <2>3, <1>4 DEF IInv, RowsOwned
      <3>2. Config(a)' = Config(a) /\ a \notin missed
        BY <2>3, <3>1
      <3>3. QED
        BY <2>1, <2>3, <3>1, <3>2, <1>3 DEF IInv, SnapshotFresh
    <2>4. QED
      BY <2>2, <2>3
  <1>10. NothingLost'
    <2> SUFFICES ASSUME NEW a \in Installed \ missed', row'[a] = NoRow
                 PROVE  \E r \in Built(a) : r.built = Config(a)'
      BY <1>2 DEF NothingLost
    <2>1. a \notin S /\ a \in Agents
      BY <1>4 DEF Queued, Installed
    <2>2. row[a] = NoRow
      BY <2>1, <1>3
    <2>3. QED
      BY <2>1, <2>2 DEF IInv, NothingLost
  <1>11. QED
    BY <1>5, <1>6, <1>7, <1>8, <1>9, <1>10 DEF IInv

LEMMA CommitStep ==
  ASSUME IInv, TypeOK', NEW w \in Invocations, Commit(w)
  PROVE  IInv'
  <1> DEFINE S == work[w].todo
  <1>w. work[w] \in Works /\ lastOp \in Nat
    BY DEF IInv, TypeOK
  <1>o. \A b \in Agents : work[w].op[b] <= lastOp + 1
    <2>1. \A b \in Agents : work[w].op[b] \in Nat
      BY <1>w DEF Works
    <2>2. QED
      BY <1>w, <2>1 DEF IInv, OpsBelow
  <1>1. /\ S \in SUBSET Installed /\ Enqueue(S, lastOp + 1) /\ lastOp' = lastOp + 1
        /\ UNCHANGED <<stage, desired, revisions, lastRev>>
    BY DEF Commit, Committable
  <1>2. \A a \in Installed \ missed' : a \notin S => Config(a)' = Config(a) /\ a \notin missed
    BY DEF Commit
  <1>3. CASE S = {}
    <2>1. Goto(w, Idle)
      BY <1>3 DEF Commit, Stop
    <2>2. Idle.pc = "idle" /\ \A b \in Agents : Idle.op[b] <= lastOp + 1
      BY <1>w DEF Idle
    <2>3. QED
      BY <1>1, <1>2, <2>1, <2>2, IdleType, QueueingStep
  <1>4. CASE S # {}
    <2> DEFINE new == [work[w] EXCEPT !.pc = "enqueue", !.plan = NoPlan]
    <2>1. Goto(w, new)
      BY <1>4 DEF Commit
    <2>2. new \in Works /\ new.pc = "enqueue" /\ new.op = work[w].op
      BY <1>w, IdleType DEF Works, Places
    <2> HIDE DEF new
    <2>3. QED
      BY <1>1, <1>2, <1>o, <2>1, <2>2, QueueingStep
  <1>5. QED
    BY <1>3, <1>4

LEMMA EnqueueOwnStep ==
  ASSUME IInv, TypeOK', NEW w \in Invocations, EnqueueOwn(w)
  PROVE  IInv'
  <1> DEFINE S == work[w].todo
             new == [work[w] EXCEPT !.pc = "loop", !.op = [a \in Agents |-> lastOp + 1]]
  <1>w. work[w] \in Works /\ lastOp \in Nat
    BY DEF IInv, TypeOK
  <1>1. CASE S \in SUBSET Installed
    <2>1. /\ Enqueue(S, lastOp + 1) /\ lastOp' = lastOp + 1 /\ Goto(w, new)
          /\ missed' = missed \ S
          /\ UNCHANGED <<stage, nodeVer, members, groupVer, desired, revisions, lastRev>>
      BY <1>1 DEF EnqueueOwn, tables
    <2>2. [a \in Agents |-> lastOp + 1] \in [Agents -> Nat]
      BY <1>w
    <2>3. new \in Works /\ new.pc = "loop" /\ \A a \in Agents : new.op[a] = lastOp + 1
      BY <1>w, <2>2 DEF Works, Places
    <2>4. \A a \in Agents : new.op[a] <= lastOp + 1
      BY <1>w, <2>3
    <2>5. \A a \in Installed \ missed' : a \notin S => Config(a)' = Config(a) /\ a \notin missed
      BY <2>1 DEF Config
    <2> HIDE DEF new
    <2>6. QED
      BY <1>1, <2>1, <2>3, <2>4, <2>5, QueueingStep
  <1>2. CASE S \notin SUBSET Installed
    <2>1. Goto(w, Idle) /\ UNCHANGED <<stage, nodeVer, members, groupVer, desired, revisions,
                                       lastRev, row, lastOp, missed>>
      BY <1>2 DEF EnqueueOwn, tables, Stop
    <2>2. Idle.pc = "idle" /\ \A b \in Agents : Idle.op[b] <= lastOp
      BY <1>w DEF Idle
    <2>3. QED
      BY <2>1, <2>2, IdleType, QuietStep
  <1>3. QED
    BY <1>1, <1>2

\* A new agent is missed until publishAgents queues it.
LEMMA RegisterStep ==
  ASSUME IInv, TypeOK', NEW w \in Invocations, NEW a \in Agents, Register(w, a)
  PROVE  IInv'
  <1> DEFINE new == [Idle EXCEPT !.pc = "enqueue", !.todo = {a}]
  <1>w. lastOp \in Nat /\ new \in Works /\ new.pc = "enqueue" /\ \A b \in Agents : new.op[b] = 0
    BY IdleType DEF IInv, TypeOK, Works, Places, Idle
  <1>1. \A v \in Invocations : work'[v] = IF v = w THEN new ELSE work[v]
    BY DEF Register, Goto, IInv, TypeOK
  <1> HIDE DEF new
  <1>2. /\ Installed' = Installed \cup {a} /\ a \notin Installed
        /\ Queued' = Queued /\ \A b : Built(b)' = Built(b)
        /\ missed' = missed \cup {a}
    BY DEF Register, Installed, Queued, Built, IInv, TypeOK
  <1>3. \A b \in Agents : Config(b)' = Config(b)
    BY DEF Register, Config
  <1>4. OpsBelow'
    BY <1>1, <1>w DEF Register, IInv, OpsBelow
  <1>5. RowsOwned' /\ TargetIsOwn'
    BY <1>2 DEF Register, IInv, RowsOwned, TargetIsOwn
  <1>6. RevisionsBelow'
    BY <1>2 DEF Register, IInv, RevisionsBelow
  <1>7. HasAgent'
    BY <1>1, <1>w DEF Register, IInv, HasAgent, TypeOK
  <1>8. Recorded'
    <2> SUFFICES ASSUME NEW v \in Invocations, NEW b \in Installed',
                        work'[v].cur = b, work'[v].pc \in {"point", "finish"}
                 PROVE  \E r \in Built(b) : r.id = work'[v].rev /\ r.built = work'[v].snap
      BY <1>2 DEF Recorded
    <2>1. v # w /\ work'[v] = work[v]
      BY <1>1, <1>w
    <2>2. b # a
      BY <2>1 DEF Register, IInv, HasAgent
    <2>3. QED
      BY <2>1, <2>2, <1>2 DEF IInv, Recorded
  <1>9. SnapshotFresh'
    <2> SUFFICES ASSUME NEW v \in Invocations, NEW b \in Queued \ missed,
                        Publishing(v, b)', row[b].op = work'[v].op[b]
                 PROVE  work'[v].snap = Config(b)
      BY <1>2, <1>3 DEF Register, SnapshotFresh, Queued
    <2>1. v # w /\ work'[v] = work[v] /\ Publishing(v, b)
      BY <1>1, <1>w DEF Publishing
    <2>2. QED
      BY <2>1 DEF IInv, SnapshotFresh
  <1>10. NothingLost'
    BY <1>2, <1>3 DEF Register, IInv, NothingLost, Installed
  <1>11. QED
    BY <1>4, <1>5, <1>6, <1>7, <1>8, <1>9, <1>10 DEF IInv

\* A stored revision has a fresh id and is what the invocation talks about.
LEMMA InsertStep ==
  ASSUME IInv, TypeOK', NEW w \in Invocations, InsertRevision(w), work[w].cur \in Installed
  PROVE  IInv'
  <1> DEFINE a == work[w].cur
             new == [work[w] EXCEPT !.pc = "point", !.rev = lastRev + 1]
             fresh == [id |-> lastRev + 1, agent |-> a, built |-> work[w].snap]
  <1>w. /\ work[w] \in Works /\ work[w].pc = "insert"
        /\ lastRev \in Nat /\ lastRev + 1 \in Nat
        /\ \A r \in revisions : r.id \in Nat
    BY DEF IInv, TypeOK, InsertRevision, Revisions
  <1>n. /\ new.pc = "point" /\ new.rev = lastRev + 1 /\ new.cur = a
        /\ new.snap = work[w].snap /\ new.op = work[w].op
    BY <1>w DEF Works
  <1>f. fresh.id = lastRev + 1 /\ fresh.agent = a /\ fresh.built = work[w].snap
    OBVIOUS
  <1>1. /\ \A v \in Invocations : work'[v] = IF v = w THEN new ELSE work[v]
        /\ revisions' = revisions \cup {fresh} /\ lastRev' = lastRev + 1
    BY DEF InsertRevision, Goto, IInv, TypeOK
  <1> HIDE DEF new, fresh
  <1>2. /\ Installed' = Installed /\ Queued' = Queued
        /\ UNCHANGED <<stage, desired, row, lastOp, missed>>
        /\ \A b \in Agents : Config(b)' = Config(b)
        /\ \A b : Built(b)' = IF b = a THEN Built(b) \cup {fresh} ELSE Built(b)
    BY <1>1, <1>f DEF InsertRevision, tables, Installed, Queued, Config, Built
  <1>3. OpsBelow' /\ HasAgent'
    BY <1>1, <1>2, <1>n, <1>w DEF IInv, OpsBelow, HasAgent
  <1>4. RowsOwned' /\ NothingLost'
    BY <1>1, <1>2 DEF IInv, RowsOwned, NothingLost, Installed
  <1>5. RevisionsBelow'
    BY <1>1, <1>2, <1>f, <1>w DEF IInv, RevisionsBelow
  <1>6. TargetIsOwn'
    <2>1. \A b \in Agents : desired[b] # 0 => \E r \in Built(b)' : r.id = desired[b]
      BY <1>2 DEF IInv, TargetIsOwn
    <2>2. \A r \in revisions : r.id # fresh.id
      BY <1>f, <1>w DEF IInv, RevisionsBelow
    <2>3. \A r, s \in revisions' : r.id = s.id => r = s
      BY <1>1, <2>2 DEF IInv, TargetIsOwn
    <2>4. QED
      BY <1>2, <2>1, <2>3 DEF TargetIsOwn
  <1>7. Recorded'
    <2> SUFFICES ASSUME NEW v \in Invocations, NEW b \in Installed, work'[v].cur = b,
                        work'[v].pc \in {"point", "finish"}
                 PROVE  \E r \in Built(b)' : r.id = work'[v].rev /\ r.built = work'[v].snap
      BY <1>2 DEF Recorded
    <2>1. CASE v = w
      BY <2>1, <1>1, <1>2, <1>n, <1>f
    <2>2. CASE v # w
      BY <2>2, <1>1, <1>2 DEF IInv, Recorded
    <2>3. QED
      BY <2>1, <2>2
  <1>8. SnapshotFresh'
    <2> SUFFICES ASSUME NEW v \in Invocations, NEW b \in Queued \ missed,
                        Publishing(v, b)', row[b].op = work'[v].op[b]
                 PROVE  work'[v].snap = Config(b)
      BY <1>2 DEF SnapshotFresh, Queued
    <2>1. Publishing(v, b) /\ work'[v].op = work[v].op /\ work'[v].snap = work[v].snap
      BY <1>1, <1>n, <1>w DEF Publishing
    <2>2. QED
      BY <2>1 DEF IInv, SnapshotFresh
  <1>9. QED
    BY <1>3, <1>4, <1>5, <1>6, <1>7, <1>8 DEF IInv

LEMMA PointStep ==
  ASSUME IInv, TypeOK', NEW w \in Invocations, PointAgent(w)
  PROVE  IInv'
  <1> DEFINE new == [work[w] EXCEPT !.pc = "finish"]
  <1>w. work[w] \in Works /\ work[w].pc = "point"
    BY DEF IInv, TypeOK, PointAgent
  <1>n. /\ new.pc = "finish" /\ new.rev = work[w].rev /\ new.cur = work[w].cur
        /\ new.snap = work[w].snap /\ new.op = work[w].op
    BY <1>w DEF Works
  <1>1. \A v \in Invocations : work'[v] = IF v = w THEN new ELSE work[v]
    BY DEF PointAgent, Goto, IInv, TypeOK
  <1> HIDE DEF new
  <1>2. /\ Installed' = Installed /\ Queued' = Queued
        /\ UNCHANGED <<stage, row, lastOp, missed, revisions, lastRev>>
        /\ \A b \in Agents : Config(b)' = Config(b)
        /\ \A b : Built(b)' = Built(b)
    BY DEF PointAgent, Installed, Queued, Config, Built
  <1>3. OpsBelow' /\ HasAgent'
    BY <1>1, <1>2, <1>n, <1>w DEF IInv, OpsBelow, HasAgent
  <1>4. RowsOwned' /\ NothingLost' /\ RevisionsBelow'
    BY <1>2 DEF IInv, RowsOwned, NothingLost, Installed, RevisionsBelow
  <1>5. TargetIsOwn'
    <2>1. \A b \in Agents : desired'[b] # 0 => \E r \in Built(b) : r.id = desired'[b]
      <3> SUFFICES ASSUME NEW b \in Agents, desired'[b] # 0
                   PROVE  \E r \in Built(b) : r.id = desired'[b]
        OBVIOUS
      <3>1. CASE b = work[w].cur /\ b \in Installed
        <4>1. desired'[b] = work[w].rev
          BY <3>1 DEF PointAgent, IInv, TypeOK
        <4>2. QED
          BY <3>1, <4>1, <1>w DEF IInv, Recorded
      <3>2. CASE ~(b = work[w].cur /\ b \in Installed)
        <4>1. desired'[b] = desired[b]
          BY <3>2 DEF PointAgent, IInv, TypeOK
        <4>2. QED
          BY <4>1 DEF IInv, TargetIsOwn
      <3>3. QED
        BY <3>1, <3>2
    <2>2. QED
      BY <1>2, <2>1 DEF IInv, TargetIsOwn
  <1>6. Recorded'
    BY <1>1, <1>2, <1>n, <1>w DEF IInv, Recorded
  <1>7. SnapshotFresh'
    <2> SUFFICES ASSUME NEW v \in Invocations, NEW b \in Queued \ missed,
                        Publishing(v, b)', row[b].op = work'[v].op[b]
                 PROVE  work'[v].snap = Config(b)
      BY <1>2 DEF SnapshotFresh, Queued
    <2>1. Publishing(v, b) /\ work'[v].op = work[v].op /\ work'[v].snap = work[v].snap
      BY <1>1, <1>n, <1>w DEF Publishing
    <2>2. QED
      BY <2>1 DEF IInv, SnapshotFresh
  <1>8. QED
    BY <1>3, <1>4, <1>5, <1>6, <1>7 DEF IInv

\* finishReconcile takes a row away only under the operation the invocation
\* holds, whose snapshot is fresh and stored: this is where NothingLost is won.
LEMMA FinishStep ==
  ASSUME IInv, TypeOK', NEW w \in Invocations, FinishReconcile(w)
  PROVE  IInv'
  <1> DEFINE a == work[w].cur
             r == Finished(row[a], work[w].op[a], work[w].rev)
             next == [work[w] EXCEPT !.pc = "loop", !.todo = @ \ {a}, !.cur = None,
                                     !.snap = NoConfig, !.rev = 0]
             new == IF work[w].todo = {a} THEN Idle ELSE next
  <1>w. /\ work[w] \in Works /\ work[w].pc = "finish" /\ a \in Agents
        /\ row[a] \in Rows /\ work[w].op[a] \in Nat /\ lastOp \in Nat
    BY DEF IInv, TypeOK, FinishReconcile, HasAgent, Works
  <1>n. /\ new.pc \in {"idle", "loop"}
        /\ \A b \in Agents : new.op[b] = work[w].op[b] \/ new.op[b] = 0
    BY <1>w DEF Works, Idle
  <1>1. \A v \in Invocations : work'[v] = IF v = w THEN new ELSE work[v]
    BY DEF FinishReconcile, NextAgent, Stop, Goto, IInv, TypeOK
  <1>r. \A b \in Agents : row'[b] = IF b = a THEN r ELSE row[b]
    BY DEF FinishReconcile, IInv, TypeOK
  <1> HIDE DEF new, next
  <1>2. /\ Installed' = Installed
        /\ UNCHANGED <<stage, desired, lastOp, missed, revisions, lastRev>>
        /\ \A b \in Agents : Config(b)' = Config(b)
        /\ \A b : Built(b)' = Built(b)
    BY DEF FinishReconcile, tables, Installed, Config, Built
  <1>3. r = row[a] \/ (r = NoRow /\ row[a].op = work[w].op[a])
    \* a target that is set stays; one that is not is claimed and the row deleted
    BY <1>w DEF Finished, Claimed, Rows, NoRow
  <1>4. r.op <= lastOp
    BY <1>3, <1>w DEF NoRow, IInv, OpsBelow
  <1>5. OpsBelow'
    <2>1. \A b \in Agents : row'[b].op <= lastOp
      BY <1>r, <1>4 DEF IInv, OpsBelow
    <2>2. \A v \in Invocations, b \in Agents : work'[v].op[b] <= lastOp
      BY <1>1, <1>n, <1>w DEF IInv, OpsBelow
    <2>3. QED
      BY <2>1, <2>2, <1>2 DEF OpsBelow
  <1>6. Queued' \subseteq Queued /\ \A b \in Queued' : row'[b] = row[b]
    BY <1>r, <1>3 DEF Queued
  <1>7. RowsOwned' /\ RevisionsBelow' /\ TargetIsOwn'
    BY <1>2, <1>6 DEF IInv, RowsOwned, RevisionsBelow, TargetIsOwn
  <1>8. HasAgent' /\ Recorded'
    BY <1>1, <1>2, <1>n DEF IInv, HasAgent, Recorded
  <1>9. SnapshotFresh'
    BY <1>1, <1>2, <1>6, <1>n DEF IInv, SnapshotFresh, Publishing, Queued
  <1>10. NothingLost'
    <2> SUFFICES ASSUME NEW b \in Installed \ missed, row'[b] = NoRow
                 PROVE  \E s \in Built(b) : s.built = Config(b)
      BY <1>2 DEF NothingLost, Installed
    <2>b. b \in Agents
      BY DEF Installed
    <2>1. CASE row[b] = NoRow
      BY <2>1 DEF IInv, NothingLost
    <2>2. CASE row[b] # NoRow
      <3>1. b = a /\ row[a].op = work[w].op[a]
        BY <2>2, <2>b, <1>r, <1>3
      <3>2. work[w].snap = Config(a)
        BY <3>1, <2>2, <2>b, <1>w DEF IInv, SnapshotFresh, Publishing, Queued
      <3>3. \E s \in Built(a) : s.id = work[w].rev /\ s.built = work[w].snap
        BY <3>1, <1>w DEF IInv, Recorded
      <3>4. QED
        BY <3>1, <3>2, <3>3
    <2>3. QED
      BY <2>1, <2>2
  <1>11. QED
    BY <1>5, <1>7, <1>8, <1>9, <1>10 DEF IInv

\* A rollback only moves the target, to a revision of the agent.
LEMMA RollbackStep ==
  ASSUME IInv, TypeOK', NEW a \in Agents, RollbackAgent(a)
  PROVE  IInv'
  <1>1. /\ Installed' = Installed /\ Queued' = Queued
        /\ UNCHANGED <<stage, row, lastOp, missed, revisions, lastRev, work>>
        /\ \A b \in Agents : Config(b)' = Config(b)
        /\ \A b : Built(b)' = Built(b)
    BY DEF RollbackAgent, tables, Installed, Queued, Config, Built
  <1>2. TargetIsOwn'
    <2>1. PICK r \in Built(a) : desired' = [desired EXCEPT ![a] = r.id]
      BY DEF RollbackAgent
    <2>2. \A b \in Agents : desired'[b] = IF b = a THEN r.id ELSE desired[b]
      BY <2>1 DEF IInv, TypeOK
    <2>3. QED
      BY <1>1, <2>2 DEF IInv, TargetIsOwn
  <1>3. OpsBelow' /\ HasAgent' /\ RowsOwned' /\ RevisionsBelow'
    BY <1>1 DEF IInv, OpsBelow, HasAgent, RowsOwned, RevisionsBelow
  <1>4. Recorded' /\ NothingLost'
    BY <1>1 DEF IInv, Recorded, NothingLost, Installed
  <1>5. SnapshotFresh'
    BY <1>1 DEF IInv, SnapshotFresh, Publishing, Queued
  <1>6. QED
    BY <1>2, <1>3, <1>4, <1>5 DEF IInv

\* Deleting a VPS takes all that is about it and nothing that is about others.
LEMMA DeleteStep ==
  ASSUME IInv, TypeOK', NEW a \in Agents, DeleteVps(a)
  PROVE  IInv'
  <1>1. /\ Installed' = Installed \ {a}
        /\ missed' = missed \ {a}
        /\ UNCHANGED <<lastOp, lastRev, work>>
    BY DEF DeleteVps, Installed, IInv, TypeOK
  <1>2. \A b \in Agents : row'[b] = IF b = a THEN NoRow ELSE row[b]
    BY DEF DeleteVps, IInv, TypeOK
  <1>3. Queued' = Queued \ {a}
    BY <1>2 DEF Queued
  <1>4. /\ \A b \in Agents \ {a} : Built(b)' = Built(b)
        /\ \A r \in revisions' : r \in revisions /\ r.agent # a
    BY DEF DeleteVps, Built
  <1>5. \A b \in Agents \ {a} : Config(b)' = Config(b)
    <2> SUFFICES ASSUME NEW b \in Agents \ {a} PROVE Config(b)' = Config(b)
      OBVIOUS
    <2>1. \A g \in Groups : b \in members'[g] <=> b \in members[g]
      BY DEF DeleteVps
    <2>2. {g \in Groups : b \in members'[g]} = {g \in Groups : b \in members[g]}
      BY <2>1
    <2>3. nodeVer' = nodeVer /\ groupVer' = groupVer
      BY DEF DeleteVps
    <2>4. QED
      BY <2>2, <2>3 DEF Config
  <1>6. OpsBelow'
    BY <1>1, <1>2 DEF IInv, OpsBelow, NoRow, TypeOK
  <1>7. RowsOwned'
    BY <1>1, <1>3 DEF IInv, RowsOwned
  <1>8. RevisionsBelow'
    BY <1>1, <1>4 DEF IInv, RevisionsBelow
  <1>9. TargetIsOwn'
    <2>1. \A b \in Agents : desired'[b] = IF b = a THEN 0 ELSE desired[b]
      BY DEF DeleteVps, IInv, TypeOK
    <2>2. QED
      BY <2>1, <1>4 DEF IInv, TargetIsOwn
  <1>10. HasAgent'
    BY <1>1 DEF DeleteVps, IInv, HasAgent, TypeOK
  <1>11. Recorded'
    BY <1>1, <1>4 DEF IInv, Recorded, Installed
  <1>12. SnapshotFresh'
    <2> SUFFICES ASSUME NEW v \in Invocations, NEW b \in Queued' \ missed',
                        Publishing(v, b)', row'[b].op = work'[v].op[b]
                 PROVE  work'[v].snap = Config(b)'
      BY DEF SnapshotFresh
    <2>1. b \in Agents \ {a} /\ b \in Queued \ missed /\ row'[b] = row[b]
      BY <1>1, <1>2, <1>3 DEF Queued
    <2>2. Publishing(v, b) /\ work'[v] = work[v]
      BY <1>1 DEF Publishing
    <2>3. QED
      BY <2>1, <2>2, <1>5 DEF IInv, SnapshotFresh
  <1>13. NothingLost'
    <2> SUFFICES ASSUME NEW b \in Installed' \ missed', row'[b] = NoRow
                 PROVE  \E r \in Built(b)' : r.built = Config(b)'
      BY DEF NothingLost
    <2>1. b \in Agents \ {a} /\ b \in Installed \ missed /\ row[b] = NoRow
      BY <1>1, <1>2 DEF Installed
    <2>2. QED
      BY <2>1, <1>4, <1>5 DEF IInv, NothingLost
  <1>14. QED
    BY <1>6, <1>7, <1>8, <1>9, <1>10, <1>11, <1>12, <1>13 DEF IInv

\* Every step preserves the inductive invariant.
LEMMA IInvStep == IInv /\ [Next]_vars => IInv'
  <1> SUFFICES ASSUME IInv, [Next]_vars PROVE IInv'
    OBVIOUS
  <1>t. TypeOK /\ TypeOK'
    BY TypeStep DEF IInv
  <1>l. lastOp \in Nat
    BY <1>t DEF TypeOK
  <1>1. ASSUME NEW w \in Invocations, Step(w) PROVE IInv'
    <2>w. work[w] \in Works /\ \A b \in Agents : work[w].op[b] <= lastOp
      BY <1>t DEF TypeOK, IInv, OpsBelow
    <2>i. Idle \in Works /\ Idle.pc = "idle" /\ \A b \in Agents : Idle.op[b] <= lastOp
      BY <1>l, IdleType DEF Idle
    <2>1. CASE FindNodes(w)
      <3> DEFINE new == [work[w] EXCEPT !.pc = "commit",
                                 !.todo = @ \cup (work[w].plan.nodes \cap Installed)]
      <3>1. /\ new \in Works /\ new.pc = "commit" /\ new.op = work[w].op
        BY <2>w DEF Works, Places, Installed
      <3>2. /\ UNCHANGED <<stage, nodeVer, members, groupVer, desired, revisions, lastRev,
                           row, lastOp, missed>>
            /\ Goto(w, new) \/ Goto(w, Idle)
        BY <2>1 DEF FindNodes, tables, Stop
      <3> HIDE DEF new
      <3>3. QED
        BY <1>t, <2>w, <2>i, <3>1, <3>2, QuietStep
    <2>2. CASE Refuse(w)
      <3>1. /\ UNCHANGED <<stage, nodeVer, members, groupVer, desired, revisions, lastRev,
                           row, lastOp, missed>>
            /\ Goto(w, Idle)
        BY <2>2 DEF Refuse, tables, Stop
      <3>2. QED
        BY <1>t, <2>i, <3>1, QuietStep
    <2>3. CASE Commit(w)
      BY <2>3, <1>t, CommitStep
    <2>4. CASE EnqueueOwn(w)
      BY <2>4, <1>t, EnqueueOwnStep
    <2>5. ASSUME NEW a \in Agents, ReadConfig(w, a) PROVE IInv'
      <3> DEFINE new == [work[w] EXCEPT !.pc = "insert", !.cur = a, !.snap = Config(a)]
      <3>1. /\ new \in Works /\ new.pc = "insert" /\ new.op = work[w].op
            /\ new.cur = a /\ new.snap = Config(a)
        BY <2>w, <1>t, ConfigType DEF Works, Places
      <3>2. /\ UNCHANGED <<stage, nodeVer, members, groupVer, desired, revisions, lastRev,
                           row, lastOp, missed>>
            /\ (a \in Installed /\ Goto(w, new)) \/ Throw(w, a)
        BY <2>5 DEF ReadConfig, tables
      <3> HIDE DEF new
      <3>3. CASE Throw(w, a)
        BY <3>2, <3>3, <1>t, QuietExits
      <3>4. CASE a \in Installed /\ Goto(w, new)
        BY <1>t, <2>w, <3>1, <3>2, <3>4, QuietStep
      <3>5. QED
        BY <3>2, <3>3, <3>4
    <2>6. CASE InsertRevision(w)
      <3>1. CASE work[w].cur \in Installed
        BY <2>6, <3>1, <1>t, InsertStep
      <3>2. CASE work[w].cur \notin Installed
        <4>1. work[w].cur \in Agents
          BY <2>6 DEF InsertRevision, IInv, HasAgent
        <4>2. /\ UNCHANGED <<stage, nodeVer, members, groupVer, desired, revisions, lastRev,
                             row, lastOp, missed>>
              /\ Throw(w, work[w].cur)
          BY <2>6, <3>2 DEF InsertRevision, tables
        <4>3. QED
          BY <4>1, <4>2, <1>t, QuietExits
      <3>3. QED
        BY <3>1, <3>2
    <2>7. CASE PointAgent(w)
      BY <2>7, <1>t, PointStep
    <2>8. CASE FinishReconcile(w)
      BY <2>8, <1>t, FinishStep
    <2>9. CASE RecordFailure(w)
      <3>1. work[w].cur \in Agents
        BY <2>9 DEF RecordFailure, IInv, HasAgent
      <3>2. /\ UNCHANGED <<stage, nodeVer, members, groupVer, desired, revisions, lastRev,
                           row, lastOp, missed>>
            /\ NextAgent(w, work[w].cur)
        BY <2>9 DEF RecordFailure, tables
      <3>3. QED
        BY <3>1, <3>2, <1>t, QuietExits
    <2>10. QED
      BY <1>1, <2>1, <2>2, <2>3, <2>4, <2>5, <2>6, <2>7, <2>8, <2>9 DEF Step
  <1>2. ASSUME NEW w \in Invocations, NEW S \in SUBSET Agents, NEW place \in Places,
               NEW plan \in Plans, Begin(w, S, place, plan),
               place \notin {"insert", "point", "finish", "failed"}
        PROVE  IInv'
    <2> DEFINE new == [Idle EXCEPT !.pc = place, !.todo = S, !.plan = plan]
    <2>0. Idle.op = [b \in Agents |-> 0]
      BY DEF Idle
    <2>1. new \in Works /\ new.pc = place /\ new.op = Idle.op
      BY IdleType DEF Works
    <2>2. /\ UNCHANGED <<stage, nodeVer, members, groupVer, desired, revisions, lastRev,
                         row, lastOp, missed>>
          /\ Goto(w, new)
      BY <1>2 DEF Begin, tables
    <2> HIDE DEF new
    <2>3. \A b \in Agents : new.op[b] <= lastOp
      BY <2>0, <2>1, <1>l
    <2>4. QED
      BY <1>2, <1>t, <2>1, <2>2, <2>3, QuietStep
  <1>3. ASSUME NEW w \in Invocations, Request(w) PROVE IInv'
    <2>i. Installed \in SUBSET Agents
      BY DEF Installed
    <2>1. ASSUME NEW a \in Agents, NEW redraft \in BOOLEAN, BeginNode(w, a, redraft)
          PROVE IInv'
      <3>1. [NoPlan EXCEPT !.kind = "node", !.nodes = {a}, !.redraft = redraft] \in Plans
        BY IdleType DEF Plans
      <3>2. QED
        BY <2>1, <3>1, <1>2 DEF BeginNode, Places
    <2>2. ASSUME NEW g \in Groups, BeginGroup(w, g) PROVE IInv'
      <3>1. [NoPlan EXCEPT !.kind = "group", !.group = g] \in Plans
        BY IdleType DEF Plans
      <3>2. members[g] \cap Installed \in SUBSET Agents
        BY <2>i
      <3>3. QED
        BY <2>2, <3>1, <3>2, <1>2 DEF BeginGroup, Places
    <2>3. ASSUME NEW g \in Groups, NEW nodes \in SUBSET Agents, BeginRegroup(w, g, nodes)
          PROVE IInv'
      <3>1. [NoPlan EXCEPT !.kind = "regroup", !.group = g, !.nodes = nodes] \in Plans
        BY IdleType DEF Plans
      <3>2. members[g] \cap Installed \in SUBSET Agents
        BY <2>i
      <3>3. QED
        BY <2>3, <3>1, <3>2, <1>2 DEF BeginRegroup, Places
    <2>4. ASSUME NEW a \in Agents, BeginPublish(w, a) PROVE IInv'
      BY <2>4, IdleType, <1>2 DEF BeginPublish, Places
    <2>5. ASSUME NEW a \in Agents, Register(w, a) PROVE IInv'
      BY <2>5, <1>t, RegisterStep
    <2>6. QED
      BY <1>3, <2>1, <2>2, <2>3, <2>4, <2>5 DEF Request
  <1>4. ASSUME NEW w \in Invocations, CronTick(w) PROVE IInv'
    <2>1. PICK P \in SUBSET Queued :
            Goto(w, [Idle EXCEPT !.pc = "loop", !.cron = TRUE, !.todo = P,
                      !.op = [a \in Agents |-> IF a \in P THEN row[a].op ELSE 0]])
      BY <1>4 DEF CronTick
    <2> DEFINE op  == [a \in Agents |-> IF a \in P THEN row[a].op ELSE 0]
               new == [Idle EXCEPT !.pc = "loop", !.cron = TRUE, !.todo = P, !.op = op]
    <2>2. op \in [Agents -> Nat] /\ \A b \in Agents : op[b] <= lastOp
      BY <1>t, <1>l DEF TypeOK, Rows, IInv, OpsBelow
    <2>3. Goto(w, new)
      BY <2>1
    <2> HIDE DEF op
    <2>4. new \in Works /\ new.pc = "loop" /\ new.op = op
      BY <2>2, IdleType DEF Works, Places, Queued
    <2>5. UNCHANGED <<stage, nodeVer, members, groupVer, desired, revisions, lastRev,
                      row, lastOp, missed>>
      BY <1>4 DEF CronTick, tables
    <2> HIDE DEF new
    <2>6. QED
      BY <1>t, <2>2, <2>3, <2>4, <2>5, QuietStep
  <1>5. ASSUME NEW w \in Invocations, Crash(w) \/ D1Error(w) PROVE IInv'
    <2>u. UNCHANGED <<stage, nodeVer, members, groupVer, desired, revisions, lastRev,
                      row, lastOp, missed>>
      BY <1>5 DEF Crash, D1Error, tables
    <2>1. CASE Crash(w)
      <3>1. Idle \in Works /\ Idle.pc = "idle" /\ \A b \in Agents : Idle.op[b] <= lastOp
        BY <1>l, IdleType DEF Idle
      <3>2. QED
        BY <2>1, <2>u, <3>1, <1>t, QuietStep DEF Crash, Stop
    <2>2. CASE D1Error(w)
      <3>1. \E a \in Agents : Throw(w, a)
        <4>1. work[w].todo \in SUBSET Agents
          BY <1>t DEF TypeOK, Works
        <4>2. QED
          BY <2>2, <4>1 DEF D1Error, IInv, HasAgent
      <3>2. QED
        BY <2>u, <3>1, <1>t, QuietExits
    <2>3. QED
      BY <1>5, <2>1, <2>2
  <1>6. ASSUME NEW a \in Agents, RollbackAgent(a) \/ DeleteVps(a) PROVE IInv'
    BY <1>6, <1>t, RollbackStep, DeleteStep
  <1>7. CASE UNCHANGED vars
    <2>1. \A a \in Agents : Config(a)' = Config(a) /\ Built(a)' = Built(a)
      BY <1>7 DEF vars, Config, Built
    <2>2. Installed' = Installed /\ Queued' = Queued
      BY <1>7 DEF vars, Installed, Queued
    <2>3. OpsBelow' /\ HasAgent' /\ RowsOwned' /\ RevisionsBelow'
      BY <1>7, <2>2 DEF vars, IInv, OpsBelow, HasAgent, RowsOwned, RevisionsBelow
    <2>4. TargetIsOwn' /\ Recorded' /\ NothingLost'
      BY <1>7, <2>1, <2>2 DEF vars, IInv, TargetIsOwn, Recorded, NothingLost, Installed
    <2>5. SnapshotFresh'
      BY <1>7, <2>1, <2>2 DEF vars, IInv, SnapshotFresh, Publishing, Queued
    <2>6. QED
      BY <1>t, <2>3, <2>4, <2>5 DEF IInv
  <1>8. QED
    BY <1>1, <1>3, <1>4, <1>5, <1>6, <1>7 DEF Next

\* The inductive invariant holds in every reachable state.
LEMMA IInvCorrect == Spec => []IInv
  <1>1. Init => IInv
    <2> SUFFICES ASSUME Init PROVE IInv
      OBVIOUS
    <2>1. TypeOK
      BY TypeCorrectInit
    <2>2. \A w \in Invocations : work[w] = Idle
      BY DEF Init
    <2>3. OpsBelow
      BY <2>2 DEF Init, OpsBelow, Idle, NoRow
    <2>4. RowsOwned /\ NothingLost
      BY DEF Init, RowsOwned, NothingLost, Queued, Installed, NoRow
    <2>5. RevisionsBelow /\ TargetIsOwn
      BY DEF Init, RevisionsBelow, TargetIsOwn
    <2>6. Recorded /\ HasAgent /\ SnapshotFresh
      BY <2>2 DEF Recorded, HasAgent, SnapshotFresh, Publishing, Idle
    <2>7. QED
      BY <2>1, <2>3, <2>4, <2>5, <2>6 DEF IInv
  <1>2. QED
    BY <1>1, IInvStep, PTL DEF Spec

\* No update is lost by the queue (NothingLost): a row of reconcile_queue leaves
\* only when a revision of the agent's present configuration is stored.
THEOREM UpdatesAreNotLost == Spec => []NothingLost
  <1>1. IInv => NothingLost
    BY DEF IInv
  <1>2. QED
    BY <1>1, IInvCorrect, PTL

\* A publisher that holds the operation id of the queue row holds a snapshot of
\* the present configuration (SnapshotFresh).
THEOREM OperationPinsSnapshot == Spec => []SnapshotFresh
  <1>1. IInv => SnapshotFresh
    BY DEF IInv
  <1>2. QED
    BY <1>1, IInvCorrect, PTL

\* agents.desired_revision always names a revision of that very agent, and
\* revision ids are unique (TargetIsOwn).
THEOREM TargetsExist == Spec => []TargetIsOwn
  <1>1. IInv => TargetIsOwn
    BY DEF IInv
  <1>2. QED
    BY <1>1, IInvCorrect, PTL

-----------------------------------------------------------------------------
(***************************************************************************)
(* Reconcile implements Publication: every step of the Worker's           *)
(* invocations is a step of the promise, or changes nothing the promise    *)
(* talks about.  IInv is needed once, for Settle: a queue row goes only    *)
(* when the revision that settles the agent exists (NothingLost in the     *)
(* next state).                                                            *)
(***************************************************************************)

\* The tables the promise is read off.
Visible == <<stage, nodeVer, members, groupVer, revisions, row, missed>>

\* Leaving those tables alone leaves the promise alone.
LEMMA QuietPromise == UNCHANGED Visible => UNCHANGED Promise!vars
  <1> SUFFICES ASSUME UNCHANGED Visible PROVE UNCHANGED Promise!vars
    OBVIOUS
  <1>1. Installed' = Installed /\ Queued' = Queued
    BY DEF Visible, Installed, Queued
  <1>2. \A a \in Agents : Config(a)' = Config(a) /\ Built(a)' = Built(a)
    BY DEF Visible, Config, Built
  <1>3. QED
    BY <1>1, <1>2 DEF Promise!vars, Visible

\* An agent leaves the pending ones only when it is settled.
LEMMA FinishPromise ==
  ASSUME IInv, IInv', NEW w \in Invocations, FinishReconcile(w)
  PROVE  (\E a \in Agents : Promise!Settle(a)) \/ UNCHANGED Promise!vars
  <1> DEFINE a == work[w].cur
             r == Finished(row[a], work[w].op[a], work[w].rev)
  <1>1. a \in Agents /\ row' = [row EXCEPT ![a] = r]
    BY DEF FinishReconcile, IInv, HasAgent
  <1>2. UNCHANGED <<stage, nodeVer, members, groupVer, revisions, missed>>
    BY DEF FinishReconcile, tables
  <1>3. /\ Installed' = Installed
        /\ \A b \in Agents : Config(b)' = Config(b) /\ Built(b)' = Built(b)
    BY <1>2 DEF Installed, Config, Built
  <1>4. row[a] = NoRow => r = NoRow
    BY DEF Finished, Claimed, NoRow
  <1>5. row \in [Agents -> Rows]
    BY DEF IInv, TypeOK
  <1> HIDE DEF r
  <1>6. \A b \in Agents : row'[b] = IF b = a THEN r ELSE row[b]
    BY <1>1, <1>5
  <1>7. CASE r = NoRow /\ a \in Queued \ missed
    <2>1. Queued' = Queued \ {a}
      BY <1>7, <1>6 DEF Queued
    <2>2. a \in Installed \ missed
      BY <1>7 DEF IInv, RowsOwned
    <2>3. \E s \in Built(a) : s.built = Config(a)
      BY <1>1, <1>2, <1>3, <1>6, <1>7, <2>2 DEF IInv, NothingLost
    <2>4. (Queued \cup missed)' = (Queued \cup missed) \ {a}
      BY <2>1, <2>2, <1>2
    <2>5. Promise!Settle(a)
      BY <1>1, <1>3, <2>3, <2>4 DEF Promise!Settle
    <2>6. QED
      BY <1>1, <2>5
  <1>8. CASE ~(r = NoRow /\ a \in Queued \ missed)
    <2>1. (Queued \cup missed)' = Queued \cup missed
      <3>1. a \in Queued \/ r = NoRow
        BY <1>1, <1>4 DEF Queued
      <3>2. \A b \in Agents : b # a => (b \in Queued' <=> b \in Queued)
        BY <1>6 DEF Queued
      <3>3. a \in missed \/ (a \in Queued' <=> a \in Queued)
        BY <1>1, <1>6, <1>8, <3>1 DEF Queued
      <3>4. Queued \subseteq Agents /\ Queued' \subseteq Agents
        BY DEF Queued
      <3>5. QED
        BY <1>2, <3>2, <3>3, <3>4
    <2>2. QED
      BY <1>3, <2>1 DEF Promise!vars
  <1>9. QED
    BY <1>7, <1>8

\* Queueing agents, with or without a change of the tables behind Config.
LEMMA ChangePromise ==
  ASSUME IInv, IInv', NEW S \in SUBSET Installed, Enqueue(S, lastOp + 1),
         UNCHANGED <<stage, revisions>>,
         missed' = (missed \cup {a \in Installed : Config(a)' # Config(a)}) \ S
  PROVE  Promise!Change
  <1> DEFINE C == {a \in Installed : Config(a)' # Config(a)}
  <1>1. Installed' = Installed /\ \A a \in Agents : Built(a)' = Built(a)
    BY DEF Installed, Built
  <1>2. Queued' = Queued \cup S
    <2>1. [op |-> lastOp + 1, target |-> 0] # NoRow
      BY DEF NoRow, IInv, TypeOK
    <2>2. \A a \in Agents : row'[a] = IF a \in S THEN [op |-> lastOp + 1, target |-> 0]
                                               ELSE row[a]
      BY DEF Enqueue
    <2>3. QED
      BY <2>1, <2>2 DEF Queued, Installed
  <1>3. [a \in Agents |-> Config(a)]' \in [Agents -> Configs]
    BY DEF IInv, TypeOK, Config, Configs
  <1>4. (Queued \cup missed)' = (Queued \cup missed) \cup (S \cup C)
    BY <1>2
  <1>5. S \cup C \in SUBSET Installed /\ Installed \subseteq Agents
    BY DEF Installed
  <1>6. \A a \in Installed \ (S \cup C) : Config(a)' = Config(a)
    OBVIOUS
  <1> HIDE DEF C
  <1>7. QED
    BY <1>1, <1>3, <1>4, <1>5, <1>6 DEF Promise!Change

\* A registration makes the agent pending before anybody has queued it.
LEMMA RegisterPromise ==
  ASSUME IInv, IInv', NEW w \in Invocations, NEW a \in Agents, Register(w, a)
  PROVE  Promise!Enroll(a)
  <1>1. stage' = [stage EXCEPT ![a] = "installed"] /\ missed' = missed \cup {a}
    BY DEF Register
  <1>2. UNCHANGED <<nodeVer, members, groupVer, revisions, row>>
    BY DEF Register
  <1>3. Installed' = Installed \cup {a}
    BY <1>1 DEF Installed, IInv, TypeOK
  <1>4. (Queued \cup missed)' = (Queued \cup missed) \cup {a}
    BY <1>1, <1>2 DEF Queued
  <1>5. \A b \in Agents : Config(b)' = Config(b) /\ Built(b)' = Built(b)
    BY <1>2 DEF Config, Built
  <1>6. QED
    BY <1>3, <1>4, <1>5 DEF Promise!Enroll

\* A stored revision adds what it was built from, for its own agent only.
LEMMA InsertPromise ==
  ASSUME IInv, IInv', NEW w \in Invocations, InsertRevision(w)
  PROVE  (\E a \in Agents : Promise!Build(a)) \/ UNCHANGED Promise!vars
  <1>1. UNCHANGED <<stage, nodeVer, members, groupVer, row, missed>>
    BY DEF InsertRevision, tables
  <1>2. ASSUME NEW a \in Agents, a = work[w].cur, a \in Installed PROVE Promise!Build(a)
    <2> DEFINE s == [id |-> lastRev + 1, agent |-> a, built |-> work[w].snap]
    <2>1. revisions' = revisions \cup {s}
      BY <1>2 DEF InsertRevision
    <2>2. /\ Installed' = Installed /\ Queued' = Queued
          /\ \A b \in Agents : Config(b)' = Config(b)
      BY <1>1 DEF Installed, Queued, Config
    <2>3. s.agent = a /\ s.built = work[w].snap
      OBVIOUS
    <2> HIDE DEF s
    <2>4. \A b \in Agents : Built(b)' = IF b = a THEN Built(b) \cup {s} ELSE Built(b)
      BY <2>1, <2>3 DEF Built
    <2>5. \A b \in Agents : {r.built : r \in Built(b)}' =
            IF b = a THEN {r.built : r \in Built(b)} \cup {work[w].snap}
                     ELSE {r.built : r \in Built(b)}
      BY <2>3, <2>4
    <2>6. QED
      BY <1>1, <1>2, <2>2, <2>5 DEF Promise!Build
  <1>3. CASE work[w].cur \notin Installed
    BY <1>1, <1>3, QuietPromise DEF InsertRevision, Visible
  <1>4. QED
    BY <1>2, <1>3 DEF Installed

\* A deletion forgets the agent, and touches no other.
LEMMA DeletePromise ==
  ASSUME IInv, IInv', NEW a \in Agents, DeleteVps(a)
  PROVE  Promise!Forget(a)
  <1>1. Installed' = Installed \ {a}
    BY DEF DeleteVps, Installed, IInv, TypeOK
  <1>2. (Queued \cup missed)' = (Queued \cup missed) \ {a}
    BY DEF DeleteVps, Queued, IInv, TypeOK
  <1>3. \A b \in Agents : Built(b)' = IF b = a THEN {} ELSE Built(b)
    BY DEF DeleteVps, Built
  <1>4. \A b \in Agents : b # a => Config(b)' = Config(b)
    <2> SUFFICES ASSUME NEW b \in Agents, b # a PROVE Config(b)' = Config(b)
      OBVIOUS
    <2>1. /\ UNCHANGED <<nodeVer, groupVer>>
          /\ \A g \in Groups : members'[g] = members[g] \ {a}
      BY DEF DeleteVps
    <2>2. {h \in Groups : b \in members'[h]} = {h \in Groups : b \in members[h]}
      BY <2>1
    <2>3. QED
      BY <2>1, <2>2 DEF Config
  <1>5. QED
    BY <1>1, <1>2, <1>3, <1>4 DEF Promise!Forget

\* Every step of the Worker is a step of the promise or none.
LEMMA PromiseStep ==
  ASSUME IInv, IInv', [Next]_vars
  PROVE  [Promise!Next]_(Promise!vars)
  <1>1. ASSUME NEW w \in Invocations, Step(w) PROVE [Promise!Next]_(Promise!vars)
    <2>1. CASE FindNodes(w) \/ Refuse(w) \/ PointAgent(w) \/ RecordFailure(w)
      BY <2>1, QuietPromise DEF FindNodes, Refuse, PointAgent, RecordFailure, Visible, tables
    <2>2. CASE \E a \in Agents : ReadConfig(w, a)
      BY <2>2, QuietPromise DEF ReadConfig, Visible, tables
    <2>3. CASE Commit(w)
      BY <2>3, ChangePromise DEF Commit, Committable, Promise!Next
    <2>4. CASE EnqueueOwn(w)
      <3>1. CASE work[w].todo \subseteq Installed
        <4>1. {a \in Installed : Config(a)' # Config(a)} = {}
          BY <2>4 DEF EnqueueOwn, tables, Config
        <4>2. missed' = (missed \cup {a \in Installed : Config(a)' # Config(a)}) \ work[w].todo
          BY <2>4, <3>1, <4>1 DEF EnqueueOwn
        <4>3. QED
          BY <2>4, <3>1, <4>2, ChangePromise DEF EnqueueOwn, tables, Promise!Next
      <3>2. CASE ~(work[w].todo \subseteq Installed)
        BY <2>4, <3>2, QuietPromise DEF EnqueueOwn, Visible, tables
      <3>3. QED
        BY <3>1, <3>2
    <2>5. CASE InsertRevision(w)
      BY <2>5, InsertPromise DEF Promise!Next
    <2>6. CASE FinishReconcile(w)
      BY <2>6, FinishPromise DEF Promise!Next
    <2>7. QED
      BY <1>1, <2>1, <2>2, <2>3, <2>4, <2>5, <2>6 DEF Step
  <1>2. ASSUME NEW w \in Invocations, Request(w) PROVE [Promise!Next]_(Promise!vars)
    <2>1. CASE \E a \in Agents : Register(w, a)
      BY <2>1, RegisterPromise DEF Promise!Next
    <2>2. CASE ~\E a \in Agents : Register(w, a)
      <3>1. UNCHANGED Visible
        BY <1>2, <2>2 DEF Request, BeginNode, BeginGroup, BeginRegroup, BeginPublish,
                          Begin, Visible, tables
      <3>2. QED
        BY <3>1, QuietPromise
    <2>3. QED
      BY <2>1, <2>2
  <1>3. ASSUME NEW w \in Invocations, CronTick(w) \/ Crash(w) \/ D1Error(w)
        PROVE  [Promise!Next]_(Promise!vars)
    BY <1>3, QuietPromise DEF CronTick, Crash, D1Error, Visible, tables
  <1>4. ASSUME NEW a \in Agents, RollbackAgent(a) PROVE [Promise!Next]_(Promise!vars)
    BY <1>4, QuietPromise DEF RollbackAgent, Visible, tables
  <1>5. ASSUME NEW a \in Agents, DeleteVps(a) PROVE [Promise!Next]_(Promise!vars)
    BY <1>5, DeletePromise DEF Promise!Next
  <1>6. CASE UNCHANGED vars
    BY <1>6, QuietPromise DEF vars, Visible
  <1>7. QED
    BY <1>1, <1>2, <1>3, <1>4, <1>5, <1>6 DEF Next

\* Publishing keeps its promise (PromiseKept): whatever requests, Cron ticks,
\* crashes and D1 errors interleave, an affected agent becomes pending with the
\* commit that changes it and stays pending until a revision of what it should
\* run now is stored, for any number of agents, groups and invocations.
THEOREM PublicationRefined == Spec => PromiseKept
  <1>1. Init => Promise!Init
    <2> SUFFICES ASSUME Init PROVE Promise!Init
      OBVIOUS
    <2>1. TypeOK
      BY TypeCorrectInit
    <2>2. [a \in Agents |-> Config(a)] \in [Agents -> Configs]
      BY <2>1, ConfigType
    <2>3. Queued = Installed /\ missed = {}
      BY DEF Init, Queued, Installed, NoRow
    <2>4. \A a \in Agents : {r.built : r \in Built(a)} = {}
      BY DEF Init, Built
    <2>5. Installed \subseteq Agents
      BY DEF Installed
    <2>6. QED
      BY <2>2, <2>3, <2>4, <2>5 DEF Promise!Init
  <1>2. QED
    BY <1>1, IInvCorrect, PromiseStep, PTL DEF Spec, PromiseKept, Promise!Spec

-----------------------------------------------------------------------------
(***************************************************************************)
(* Overlapping invocations.  One kind of step is to blame for a target     *)
(* left behind: an invocation that sets desired_revision to a revision of  *)
(* what it read before the configuration changed.  Without such a step     *)
(* (FreshPoints) every target settles, however invocations overlap.        *)
(* TargetIsCurrent is not inductive: the row of an agent may be deleted by *)
(* a publisher whose target another publisher has replaced since.          *)
(* HeldIsCurrent says that the target in its place is as good, as long as  *)
(* the publisher still holds the operation of the row.                     *)
(***************************************************************************)
FreshPoints ==
  \A w \in Invocations :
    PointAgent(w) /\ work[w].cur \in Installed =>
      work[w].snap = Config(work[w].cur)

OnTarget(a) == \E r \in Built(a) : r.id = desired[a] /\ r.built = Config(a)

HeldIsCurrent ==
  \A w \in Invocations, a \in Queued \ missed :
    work[w].pc = "finish" /\ work[w].cur = a /\ row[a].op = work[w].op[a] => OnTarget(a)

FInv == rollbacks = 0 => TargetIsCurrent /\ HeldIsCurrent

\* What a step may do to an agent: bring it on target, leave all it has to do
\* with the claim as it is, or queue it under an operation nobody holds.
LEMMA TargetsSettle ==
  ASSUME IInv, IInv', FInv, rollbacks' = rollbacks,
         \A v \in Invocations :
           \/ work'[v] = work[v]
           \/ work'[v].pc # "finish"
           \/ \A a \in Installed' \ missed' : work'[v].cur = a => OnTarget(a)',
         \A a \in Installed' \ missed' :
           \/ OnTarget(a)'
           \/ /\ a \in Installed \ missed
              /\ Config(a)' = Config(a) /\ Built(a) \subseteq Built(a)'
              /\ desired'[a] = desired[a]
              /\ row'[a] = NoRow => row[a] = NoRow
              /\ row'[a].op = row[a].op
           \/ row'[a] # NoRow /\ \A v \in Invocations : work[v].op[a] # row'[a].op
  PROVE  FInv'
  <1> SUFFICES ASSUME rollbacks = 0 PROVE TargetIsCurrent' /\ HeldIsCurrent'
    BY DEF FInv
  <1>f. TargetIsCurrent /\ HeldIsCurrent
    BY DEF FInv
  <1>1. ASSUME NEW a \in Installed', a \notin missed', row'[a] = NoRow PROVE OnTarget(a)'
    BY <1>1, <1>f DEF TargetIsCurrent, OnTarget
  <1>2. TargetIsCurrent'
    BY <1>1 DEF TargetIsCurrent, OnTarget
  <1>3. ASSUME NEW v \in Invocations, NEW a \in Queued', a \notin missed',
               work'[v].pc = "finish", work'[v].cur = a, row'[a].op = work'[v].op[a]
        PROVE  OnTarget(a)'
    <2>1. a \in Installed'
      BY <1>3 DEF IInv, RowsOwned
    <2>2. CASE work'[v] # work[v]
      BY <1>3, <2>1, <2>2
    <2>3. CASE /\ work'[v] = work[v] /\ a \in Installed \ missed
               /\ Config(a)' = Config(a) /\ Built(a) \subseteq Built(a)'
               /\ desired'[a] = desired[a]
               /\ row'[a] = NoRow => row[a] = NoRow
               /\ row'[a].op = row[a].op
      <3>1. OnTarget(a)
        BY <1>3, <1>f, <2>3 DEF HeldIsCurrent, TargetIsCurrent, OnTarget, Queued, Installed
      <3>2. QED
        BY <2>3, <3>1 DEF OnTarget
    <2>4. QED
      BY <1>3, <2>1, <2>2, <2>3
  <1>4. QED
    BY <1>2, <1>3 DEF HeldIsCurrent

\* Queueing agents under the next operation, and missing those that change.
LEMMA TargetsQueue ==
  ASSUME IInv, IInv', FInv, NEW w \in Invocations, NEW new, Goto(w, new), new.pc # "finish",
         NEW S, Enqueue(S, lastOp + 1),
         UNCHANGED <<stage, desired, revisions, rollbacks>>,
         \A a \in Installed \ missed' : a \notin S => Config(a)' = Config(a) /\ a \notin missed
  PROVE  FInv'
  <1>1. \A v \in Invocations : work'[v] = work[v] \/ work'[v].pc # "finish"
    BY DEF Goto, IInv, TypeOK
  <1>2. \A a \in Agents : row'[a] = IF a \in S THEN [op |-> lastOp + 1, target |-> 0] ELSE row[a]
    BY DEF Enqueue
  <1>3. /\ [op |-> lastOp + 1, target |-> 0] # NoRow
        /\ \A a \in Agents, v \in Invocations : work[v].op[a] # lastOp + 1
    <2>1. lastOp \in Nat /\ \A v \in Invocations, a \in Agents : work[v].op[a] \in Nat
      BY DEF IInv, TypeOK, Works
    <2>2. QED
      BY <2>1 DEF NoRow, IInv, OpsBelow
  <1>4. Installed' = Installed /\ Installed \subseteq Agents /\ \A a : Built(a)' = Built(a)
    BY DEF Installed, Built
  <1>5. QED
    BY <1>1, <1>2, <1>3, <1>4, TargetsSettle

\* The target is set to a revision of what the configuration is now.
LEMMA TargetsPoint ==
  ASSUME IInv, IInv', FInv, NEW w \in Invocations, PointAgent(w), FreshPoints
  PROVE  FInv'
  <1> PICK c : c = work[w].cur
    OBVIOUS
  <1> DEFINE new == [work[w] EXCEPT !.pc = "finish"]
  <1>w. work[w] \in Works /\ c \in Agents
    BY DEF PointAgent, IInv, TypeOK, HasAgent
  <1>1. new.cur = c
    BY <1>w DEF Works
  <1> HIDE DEF new
  <1>2. \A v \in Invocations : work'[v] = IF v = w THEN new ELSE work[v]
    BY DEF PointAgent, Goto, IInv, TypeOK, new
  <1>3. UNCHANGED <<stage, nodeVer, members, groupVer, revisions, row, missed, rollbacks>>
    BY DEF PointAgent, counters
  <1>4. Installed' = Installed /\ \A a : Config(a)' = Config(a) /\ Built(a)' = Built(a)
    BY <1>3 DEF Installed, Config, Built
  <1>5. \A a \in Agents : a # c => desired'[a] = desired[a]
    BY DEF PointAgent, IInv, TypeOK
  <1>6. c \in Installed \ missed => OnTarget(c)'
    <2> SUFFICES ASSUME c \in Installed \ missed PROVE OnTarget(c)'
      OBVIOUS
    <2>1. desired'[c] = work[w].rev
      BY <1>w DEF PointAgent, IInv, TypeOK
    <2>2. \E r \in Built(c) : r.id = work[w].rev /\ r.built = work[w].snap
      BY DEF PointAgent, IInv, Recorded
    <2>3. work[w].snap = Config(c)
      BY DEF FreshPoints
    <2>4. QED
      BY <1>4, <2>1, <2>2, <2>3 DEF OnTarget
  <1>7. \A a \in Installed' : a \in Agents
    BY DEF Installed
  <1>8. QED
    BY <1>1, <1>2, <1>3, <1>4, <1>5, <1>6, <1>7, TargetsSettle

\* The row goes only under the operation that is held.
LEMMA TargetsFinish ==
  ASSUME IInv, IInv', FInv, NEW w \in Invocations, FinishReconcile(w)
  PROVE  FInv'
  <1> PICK c : c = work[w].cur
    OBVIOUS
  <1> DEFINE r == Finished(row[c], work[w].op[c], work[w].rev)
             next == [work[w] EXCEPT !.pc = "loop", !.todo = @ \ {c}, !.cur = None,
                                     !.snap = NoConfig, !.rev = 0]
  <1>w. work[w] \in Works /\ c \in Agents
    BY DEF FinishReconcile, IInv, TypeOK, HasAgent
  <1>1. \A v \in Invocations : work'[v] = work[v] \/ work'[v].pc # "finish"
    <2>1. next.pc = "loop"
      BY <1>w DEF Works
    <2>2. Idle.pc = "idle"
      BY DEF Idle
    <2>3. work' = [work EXCEPT ![w] = Idle] \/ work' = [work EXCEPT ![w] = next]
      BY DEF FinishReconcile, NextAgent, Stop, Goto
    <2> HIDE DEF next
    <2>4. QED
      BY <2>1, <2>2, <2>3 DEF IInv, TypeOK
  <1> HIDE DEF next
  <1>2. UNCHANGED <<stage, nodeVer, members, groupVer, desired, revisions, missed, rollbacks>>
    BY DEF FinishReconcile, tables, counters
  <1>3. /\ Installed' = Installed /\ Installed \subseteq Agents
        /\ \A a : Config(a)' = Config(a) /\ Built(a)' = Built(a)
    BY <1>2 DEF Installed, Config, Built
  <1>4. \A a \in Agents : row'[a] = IF a = c THEN r ELSE row[a]
    BY <1>w DEF FinishReconcile, IInv, TypeOK
  <1>c. row[c] \in Rows
    BY <1>w DEF IInv, TypeOK
  <1>5. ASSUME c \in Installed \ missed, rollbacks = 0
        PROVE  \/ OnTarget(c)
               \/ (r = NoRow => row[c] = NoRow) /\ r.op = row[c].op
    <2>1. CASE row[c] = NoRow
      <3>1. r = NoRow
        BY <2>1 DEF Finished, Claimed, NoRow
      <3>2. QED
        BY <2>1, <3>1
    <2>2. CASE row[c] # NoRow /\ row[c].op = work[w].op[c]
      <3>1. c \in Queued \ missed
        BY <1>5, <2>2, <1>w DEF Queued
      <3>2. QED
        BY <1>5, <2>2, <3>1 DEF FinishReconcile, FInv, HeldIsCurrent
    <2>3. CASE row[c] # NoRow /\ row[c].op # work[w].op[c]
      <3>1. r = row[c]
        BY <2>3 DEF Finished, Claimed
      <3>2. QED
        BY <2>3, <3>1
    <2>4. QED
      BY <2>1, <2>2, <2>3
  <1> HIDE DEF r
  <1>6. OnTarget(c) => OnTarget(c)'
    BY <1>2, <1>3, <1>w DEF OnTarget
  <1>7. CASE rollbacks = 0
    BY <1>1, <1>2, <1>3, <1>4, <1>5, <1>6, <1>7, TargetsSettle
  <1>8. CASE rollbacks # 0
    BY <1>2, <1>8 DEF FInv, IInv, TypeOK
  <1>9. QED
    BY <1>7, <1>8
\* An invocation moves and no target, row or configuration does; revisions may
\* be added and an agent may register, which is missed until it is queued.
LEMMA TargetsRest ==
  ASSUME IInv, IInv', FInv, NEW w \in Invocations, NEW new, Goto(w, new), new.pc # "finish",
         UNCHANGED <<nodeVer, members, groupVer, desired, row, rollbacks>>,
         revisions \subseteq revisions',
         Installed' \ missed' \subseteq Installed \ missed
  PROVE  FInv'
  <1>1. \A v \in Invocations : work'[v] = work[v] \/ work'[v].pc # "finish"
    BY DEF Goto, IInv, TypeOK
  <1>2. \A a : Config(a)' = Config(a) /\ Built(a) \subseteq Built(a)'
    BY DEF Config, Built
  <1>3. QED
    BY <1>1, <1>2, TargetsSettle

\* Stopping, throwing and going on to the next agent.
LEMMA LeavesFinish ==
  ASSUME IInv, NEW w \in Invocations, NEW a, Stop(w) \/ Throw(w, a) \/ NextAgent(w, a)
  PROVE  \E new : Goto(w, new) /\ new.pc # "finish"
  <1>w. work[w] \in Works
    BY DEF IInv, TypeOK
  <1>1. Idle.pc = "idle"
    BY DEF Idle
  <1>2. [work[w] EXCEPT !.pc = "failed", !.cur = a].pc = "failed"
    BY <1>w DEF Works
  <1>3. [work[w] EXCEPT !.pc = "loop", !.todo = @ \ {a}, !.cur = None,
                        !.snap = NoConfig, !.rev = 0].pc = "loop"
    BY <1>w DEF Works
  <1>4. QED
    BY <1>1, <1>2, <1>3 DEF Stop, Throw, NextAgent

\* A deleted agent is out of the claims, and no other agent changes.
LEMMA TargetsDelete ==
  ASSUME IInv, IInv', FInv, NEW a \in Agents, DeleteVps(a)
  PROVE  FInv'
  <1>1. /\ Installed' \subseteq Installed \ {a} /\ missed' = missed \ {a}
        /\ UNCHANGED <<work, rollbacks>>
    BY DEF DeleteVps, Installed, IInv, TypeOK, counters
  <1>2. \A b \in Agents : b # a => /\ row'[b] = row[b] /\ desired'[b] = desired[b]
                                   /\ Built(b)' = Built(b)
    BY DEF DeleteVps, Built, IInv, TypeOK
  <1>3. \A b \in Agents : b # a => Config(b)' = Config(b)
    <2> SUFFICES ASSUME NEW b \in Agents, b # a PROVE Config(b)' = Config(b)
      OBVIOUS
    <2>1. /\ UNCHANGED <<nodeVer, groupVer>>
          /\ \A g \in Groups : members'[g] = members[g] \ {a}
      BY DEF DeleteVps
    <2>2. {h \in Groups : b \in members'[h]} = {h \in Groups : b \in members[h]}
      BY <2>1
    <2>3. QED
      BY <2>1, <2>2 DEF Config
  <1>4. Installed \subseteq Agents
    BY DEF Installed
  <1>5. QED
    BY <1>1, <1>2, <1>3, <1>4, TargetsSettle

\* The steps of an invocation.
LEMMA TargetsMove ==
  ASSUME IInv, IInv', FInv, NEW w \in Invocations, FreshPoints,
         Step(w) \/ Request(w) \/ CronTick(w) \/ Crash(w) \/ D1Error(w)
  PROVE  FInv'
  <1>w. work[w] \in Works
    BY DEF IInv, TypeOK
  <1>1. ASSUME NEW new, Goto(w, new), new.pc # "finish",
               UNCHANGED <<tables, desired, revisions, row, missed, rollbacks>>
        PROVE  FInv'
    BY <1>1, TargetsRest DEF tables, Installed
  <1>2. CASE Stop(w) /\ UNCHANGED <<tables, desired, revisions, row, missed, rollbacks>>
    BY <1>1, <1>2, LeavesFinish
  <1>3. CASE FindNodes(w) \/ Refuse(w)
    <2> DEFINE new == [work[w] EXCEPT !.pc = "commit",
                         !.todo = @ \cup (work[w].plan.nodes \cap Installed)]
    <2>1. new.pc = "commit"
      BY <1>w DEF Works
    <2>2. Stop(w) \/ Goto(w, new)
      BY <1>3 DEF FindNodes, Refuse
    <2>3. UNCHANGED <<tables, desired, revisions, row, missed, rollbacks>>
      BY <1>3 DEF FindNodes, Refuse, counters
    <2> HIDE DEF new
    <2>4. QED
      BY <1>1, <1>2, <2>1, <2>2, <2>3
  <1>4. CASE Commit(w)
    <2>1. /\ Enqueue(work[w].todo, lastOp + 1)
          /\ UNCHANGED <<stage, desired, revisions, rollbacks>>
          /\ \A a \in Installed \ missed' : a \notin work[w].todo =>
               Config(a)' = Config(a) /\ a \notin missed
      BY <1>4 DEF Commit, counters
    <2>2. [work[w] EXCEPT !.pc = "enqueue", !.plan = NoPlan].pc = "enqueue" /\ Idle.pc = "idle"
      BY <1>w DEF Works, Idle
    <2>3. \E new : Goto(w, new) /\ new.pc # "finish"
      BY <1>4, <2>2 DEF Commit, Stop
    <2>4. QED
      BY <2>1, <2>3, TargetsQueue
  <1>5. CASE EnqueueOwn(w)
    <2>1. CASE work[w].todo \subseteq Installed
      <3> DEFINE new == [work[w] EXCEPT !.pc = "loop", !.op = [a \in Agents |-> lastOp + 1]]
      <3>1. /\ Enqueue(work[w].todo, lastOp + 1) /\ Goto(w, new)
            /\ UNCHANGED <<stage, nodeVer, members, groupVer, desired, revisions, rollbacks>>
            /\ missed' = missed \ work[w].todo
        BY <1>5, <2>1 DEF EnqueueOwn, tables, counters
      <3>2. new.pc = "loop"
        BY <1>w DEF Works
      <3> HIDE DEF new
      <3>3. \A a \in Installed \ missed' : a \notin work[w].todo =>
              Config(a)' = Config(a) /\ a \notin missed
        BY <3>1 DEF Config
      <3>4. QED
        BY <3>1, <3>2, <3>3, TargetsQueue
    <2>2. CASE ~(work[w].todo \subseteq Installed)
      BY <1>2, <1>5, <2>2 DEF EnqueueOwn, counters
    <2>3. QED
      BY <2>1, <2>2
  <1>6. ASSUME NEW a \in Agents, ReadConfig(w, a) PROVE FInv'
    <2>1. [work[w] EXCEPT !.pc = "insert", !.cur = a, !.snap = Config(a)].pc = "insert"
      BY <1>w DEF Works
    <2>2. \E new : Goto(w, new) /\ new.pc # "finish"
      BY <1>6, <2>1, LeavesFinish DEF ReadConfig
    <2>3. QED
      BY <1>1, <1>6, <2>2 DEF ReadConfig, counters
  <1>7. CASE InsertRevision(w)
    <2>1. [work[w] EXCEPT !.pc = "point", !.rev = lastRev + 1].pc = "point"
      BY <1>w DEF Works
    <2>2. \E new : Goto(w, new) /\ new.pc # "finish"
      BY <1>7, <2>1, LeavesFinish DEF InsertRevision
    <2>3. /\ UNCHANGED <<stage, nodeVer, members, groupVer, desired, row, missed, rollbacks>>
          /\ revisions \subseteq revisions'
      BY <1>7 DEF InsertRevision, tables, counters
    <2>4. QED
      BY <2>2, <2>3, TargetsRest DEF Installed
  <1>8. CASE PointAgent(w) \/ FinishReconcile(w)
    BY <1>8, TargetsPoint, TargetsFinish
  <1>9. CASE RecordFailure(w)
    BY <1>1, <1>9, LeavesFinish DEF RecordFailure, counters
  <1>10. ASSUME NEW a \in Agents, Register(w, a) PROVE FInv'
    <2>1. [Idle EXCEPT !.pc = "enqueue", !.todo = {a}].pc = "enqueue"
      BY DEF Idle
    <2>2. Installed' \ missed' \subseteq Installed \ missed
      BY <1>10 DEF Register, Installed, IInv, TypeOK
    <2>3. QED
      BY <1>10, <2>1, <2>2, TargetsRest DEF Register, counters
  <1>11. ASSUME NEW S, NEW place, NEW plan, place # "finish", Begin(w, S, place, plan)
         PROVE  FInv'
    <2>1. [Idle EXCEPT !.pc = place, !.todo = S, !.plan = plan].pc = place
      BY DEF Idle
    <2>2. QED
      BY <1>1, <1>11, <2>1 DEF Begin, counters
  <1>12. CASE CronTick(w)
    <2>1. PICK P \in SUBSET Queued :
            Goto(w, [Idle EXCEPT !.pc = "loop", !.cron = TRUE, !.todo = P,
                      !.op = [a \in Agents |-> IF a \in P THEN row[a].op ELSE 0]])
      BY <1>12 DEF CronTick
    <2>2. [Idle EXCEPT !.pc = "loop", !.cron = TRUE, !.todo = P,
             !.op = [a \in Agents |-> IF a \in P THEN row[a].op ELSE 0]].pc = "loop"
      BY DEF Idle
    <2>3. QED
      BY <1>1, <1>12, <2>1, <2>2 DEF CronTick, counters
  <1>13. CASE Crash(w)
    BY <1>2, <1>13 DEF Crash
  <1>14. CASE D1Error(w)
    <2>1. \E a : Throw(w, a)
      BY <1>14 DEF D1Error
    <2>2. QED
      BY <1>1, <1>14, <2>1, LeavesFinish DEF D1Error
  <1>15. CASE Step(w)
    BY <1>15, <1>3, <1>4, <1>5, <1>6, <1>7, <1>8, <1>9 DEF Step
  <1>16. CASE Request(w)
    <2>1. ASSUME NEW a \in Agents, NEW redraft \in BOOLEAN, BeginNode(w, a, redraft) PROVE FInv'
      BY <1>11, <2>1 DEF BeginNode
    <2>2. ASSUME NEW g \in Groups, BeginGroup(w, g) PROVE FInv'
      BY <1>11, <2>2 DEF BeginGroup
    <2>3. ASSUME NEW g \in Groups, NEW nodes \in SUBSET Agents, BeginRegroup(w, g, nodes)
          PROVE FInv'
      BY <1>11, <2>3 DEF BeginRegroup
    <2>4. ASSUME NEW a \in Agents, BeginPublish(w, a) PROVE FInv'
      BY <1>11, <2>4 DEF BeginPublish
    <2>5. QED
      BY <1>10, <1>16, <2>1, <2>2, <2>3, <2>4 DEF Request
  <1>17. QED
    BY <1>12, <1>13, <1>14, <1>15, <1>16

\* Every step that points freshly keeps the targets of settled agents current.
LEMMA FInvStep == IInv /\ IInv' /\ FInv /\ [Next]_vars /\ [FreshPoints]_vars => FInv'
  <1> SUFFICES ASSUME IInv, IInv', FInv, [Next]_vars, [FreshPoints]_vars PROVE FInv'
    OBVIOUS
  <1>1. CASE UNCHANGED vars
    <2>1. /\ Installed' = Installed /\ Queued' = Queued
          /\ \A a : Config(a)' = Config(a) /\ Built(a)' = Built(a)
      BY <1>1 DEF vars, Installed, Queued, Config, Built
    <2>2. \A a : OnTarget(a)' <=> OnTarget(a)
      BY <1>1, <2>1 DEF vars, OnTarget
    <2>3. QED
      BY <1>1, <2>1, <2>2 DEF vars, FInv, TargetIsCurrent, HeldIsCurrent, OnTarget
  <1>2. ASSUME NEW a \in Agents, RollbackAgent(a) PROVE FInv'
    BY <1>2 DEF RollbackAgent, FInv, IInv, TypeOK
  <1>3. ASSUME NEW a \in Agents, DeleteVps(a) PROVE FInv'
    BY <1>3, TargetsDelete
  <1>4. ASSUME FreshPoints, NEW w \in Invocations,
               Step(w) \/ Request(w) \/ CronTick(w) \/ Crash(w) \/ D1Error(w)
        PROVE  FInv'
    BY <1>4, TargetsMove
  <1>5. QED
    BY <1>1, <1>2, <1>3, <1>4 DEF Next

\* In every behaviour in which no invocation sets a target from a configuration
\* that has changed since it read it, and nobody rolls back, an agent without a
\* queue row has a target built from its present configuration (TargetIsCurrent),
\* however requests, Cron, crashes and errors interleave.
THEOREM FreshTargetsAreCurrent ==
  Spec /\ [][FreshPoints]_vars => [](rollbacks = 0 => TargetIsCurrent)
  <1>1. Init => FInv
    BY DEF Init, FInv, TargetIsCurrent, HeldIsCurrent, Installed, NoRow, Idle
  <1>2. FInv => (rollbacks = 0 => TargetIsCurrent)
    BY DEF FInv
  <1>3. QED
    BY <1>1, <1>2, FInvStep, IInvCorrect, PTL DEF Spec

-----------------------------------------------------------------------------
(* Where an invocation can go                                               *)

\* An invocation that starts or finds its nodes with a plan.
Starts(w) ==
  /\ work[w].pc = "idle"
  /\ work'[w].pc \in {"found", "commit"}
  /\ work'[w].plan.redraft =>
       work'[w].pc = "commit" /\ \E a \in Agents : work'[w].plan.nodes = {a} /\ work'[w].todo \subseteq {a}

Finds(w) ==
  work[w].pc = "found" /\ work'[w].pc = "commit" /\ work'[w].plan = work[w].plan

\* It has read the configuration of an agent.
Reads(w) ==
  /\ work'[w].pc = "insert"
  /\ work'[w].cur \in (Installed \ Broken) \cap work'[w].todo
  /\ work'[w].snap = Config(work'[w].cur)
  /\ UNCHANGED <<stage, nodeVer, groupVer, members, revisions, lastRev>>

\* It has stored what it read.
Stores(w) ==
  /\ work[w].pc = "insert" /\ work'[w].pc = "point"
  /\ work'[w].cur = work[w].cur /\ work'[w].todo = work[w].todo
  /\ work'[w].snap = work[w].snap
  /\ UNCHANGED <<stage, nodeVer, groupVer, members, draft, desired>>

Leaves(w) == work'[w].pc \notin {"found", "commit", "insert", "point"}

Moves(w) ==
  /\ \A v \in Invocations \ {w} : work'[v] = work[v]
  /\ Starts(w) \/ Finds(w) \/ Reads(w) \/ Stores(w) \/ Leaves(w)

LEMMA GotoLands ==
  ASSUME TypeOK, NEW w \in Invocations, NEW new, Goto(w, new)
  PROVE  work'[w] = new /\ \A v \in Invocations \ {w} : work'[v] = work[v]
  BY DEF TypeOK, Goto

LEMMA ExitsLand ==
  ASSUME TypeOK, NEW w \in Invocations, NEW a, Stop(w) \/ Throw(w, a) \/ NextAgent(w, a)
  PROVE  Moves(w)
  <1>w. work[w] \in Works
    BY DEF TypeOK
  <1>1. Idle.pc = "idle"
    BY DEF Idle
  <1>2. [work[w] EXCEPT !.pc = "failed", !.cur = a].pc = "failed"
    BY <1>w DEF Works
  <1>3. [work[w] EXCEPT !.pc = "loop", !.todo = @ \ {a}, !.cur = None,
                        !.snap = NoConfig, !.rev = 0].pc = "loop"
    BY <1>w DEF Works
  <1>4. PICK new : Goto(w, new) /\ new.pc \in {"idle", "failed", "loop"}
    BY <1>1, <1>2, <1>3 DEF Stop, Throw, NextAgent
  <1>5. QED
    BY <1>4, GotoLands DEF Moves, Leaves

LEMMA StepMoves ==
  ASSUME TypeOK, NEW w \in Invocations, Step(w)
  PROVE  Moves(w)
  <1>w. work[w] \in Works
    BY DEF TypeOK
  <1>1. CASE FindNodes(w)
    <2> DEFINE new == [work[w] EXCEPT !.pc = "commit",
                         !.todo = @ \cup (work[w].plan.nodes \cap Installed)]
    <2>1. new.pc = "commit" /\ new.plan = work[w].plan
      BY <1>w DEF Works
    <2>2. Stop(w) \/ Goto(w, new)
      BY <1>1 DEF FindNodes
    <2>3. work[w].pc = "found"
      BY <1>1 DEF FindNodes
    <2> HIDE DEF new
    <2>4. QED
      BY <2>1, <2>2, <2>3, ExitsLand, GotoLands DEF Moves, Finds
  <1>2. CASE Refuse(w)
    BY <1>2, ExitsLand DEF Refuse
  <1>3. CASE Commit(w)
    <2> DEFINE new == [work[w] EXCEPT !.pc = "enqueue", !.plan = NoPlan]
    <2>1. new.pc = "enqueue"
      BY <1>w DEF Works
    <2>2. Stop(w) \/ Goto(w, new)
      BY <1>3 DEF Commit
    <2> HIDE DEF new
    <2>3. QED
      BY <2>1, <2>2, ExitsLand, GotoLands DEF Moves, Leaves
  <1>4. CASE EnqueueOwn(w)
    <2> DEFINE new == [work[w] EXCEPT !.pc = "loop", !.op = [a \in Agents |-> lastOp + 1]]
    <2>1. new.pc = "loop"
      BY <1>w DEF Works
    <2>2. Stop(w) \/ Goto(w, new)
      BY <1>4 DEF EnqueueOwn
    <2> HIDE DEF new
    <2>3. QED
      BY <2>1, <2>2, ExitsLand, GotoLands DEF Moves, Leaves
  <1>5. ASSUME NEW a \in Agents, ReadConfig(w, a) PROVE Moves(w)
    <2>1. CASE a \in Installed \ Broken
      <3> DEFINE new == [work[w] EXCEPT !.pc = "insert", !.cur = a, !.snap = Config(a)]
      <3>1. new.pc = "insert" /\ new.cur = a /\ new.snap = Config(a) /\ new.todo = work[w].todo
        BY <1>w DEF Works
      <3>2. /\ Goto(w, new) /\ a \in work[w].todo
            /\ UNCHANGED <<stage, nodeVer, groupVer, members, revisions, lastRev>>
        BY <1>5, <2>1 DEF ReadConfig, tables
      <3> HIDE DEF new
      <3>3. QED
        BY <2>1, <3>1, <3>2, GotoLands DEF Moves, Reads
    <2>2. CASE a \notin Installed \ Broken
      BY <1>5, <2>2, ExitsLand DEF ReadConfig
    <2>3. QED
      BY <2>1, <2>2
  <1>6. CASE InsertRevision(w)
    <2>1. CASE work[w].cur \in Installed
      <3> DEFINE new == [work[w] EXCEPT !.pc = "point", !.rev = lastRev + 1]
      <3>1. /\ new.pc = "point" /\ new.cur = work[w].cur /\ new.snap = work[w].snap
            /\ new.todo = work[w].todo
        BY <1>w DEF Works
      <3>2. /\ Goto(w, new) /\ work[w].pc = "insert"
            /\ UNCHANGED <<stage, nodeVer, groupVer, members, draft, desired>>
        BY <1>6, <2>1 DEF InsertRevision, tables
      <3> HIDE DEF new
      <3>3. QED
        BY <3>1, <3>2, GotoLands DEF Moves, Stores
    <2>2. CASE work[w].cur \notin Installed
      BY <1>6, <2>2, ExitsLand DEF InsertRevision
    <2>3. QED
      BY <2>1, <2>2
  <1>7. CASE PointAgent(w)
    <2>1. [work[w] EXCEPT !.pc = "finish"].pc = "finish"
      BY <1>w DEF Works
    <2>2. QED
      BY <1>7, <2>1, GotoLands DEF PointAgent, Moves, Leaves
  <1>8. CASE FinishReconcile(w) \/ RecordFailure(w)
    BY <1>8, ExitsLand DEF FinishReconcile, RecordFailure
  <1>9. QED
    BY <1>1, <1>2, <1>3, <1>4, <1>5, <1>6, <1>7, <1>8 DEF Step

LEMMA OthersMove ==
  ASSUME TypeOK, NEW w \in Invocations, Request(w) \/ CronTick(w) \/ Crash(w) \/ D1Error(w)
  PROVE  Moves(w)
  <1>b. ASSUME NEW S, NEW place \in {"found", "commit", "enqueue"}, NEW plan,
               Begin(w, S, place, plan),
               plan.redraft => place = "commit" /\ \E a \in Agents : plan.nodes = {a} /\ S \subseteq {a}
        PROVE  Moves(w)
    <2> DEFINE new == [Idle EXCEPT !.pc = place, !.todo = S, !.plan = plan]
    <2>1. new.pc = place /\ new.todo = S /\ new.plan = plan
      BY DEF Idle
    <2>2. Goto(w, new) /\ work[w].pc = "idle"
      BY <1>b DEF Begin
    <2> HIDE DEF new
    <2>3. QED
      BY <1>b, <2>1, <2>2, GotoLands DEF Moves, Starts, Leaves
  <1>1. ASSUME NEW a \in Agents, NEW redraft \in BOOLEAN, BeginNode(w, a, redraft) PROVE Moves(w)
    <2>1. [NoPlan EXCEPT !.kind = "node", !.nodes = {a}, !.redraft = redraft].nodes = {a}
      BY DEF NoPlan
    <2>2. QED
      BY <1>1, <2>1, <1>b DEF BeginNode
  <1>2. ASSUME NEW g \in Groups, BeginGroup(w, g) PROVE Moves(w)
    <2>1. ~[NoPlan EXCEPT !.kind = "group", !.group = g].redraft
      BY DEF NoPlan
    <2>2. QED
      BY <1>2, <2>1, <1>b DEF BeginGroup
  <1>3. ASSUME NEW g \in Groups, NEW nodes \in SUBSET Agents, BeginRegroup(w, g, nodes) PROVE Moves(w)
    <2>1. ~[NoPlan EXCEPT !.kind = "regroup", !.group = g, !.nodes = nodes].redraft
      BY DEF NoPlan
    <2>2. QED
      BY <1>3, <2>1, <1>b DEF BeginRegroup
  <1>4. ASSUME NEW a \in Agents, BeginPublish(w, a) PROVE Moves(w)
    <2>1. ~NoPlan.redraft
      BY DEF NoPlan
    <2>2. QED
      BY <1>4, <2>1, <1>b DEF BeginPublish
  <1>5. ASSUME NEW a \in Agents, Register(w, a) PROVE Moves(w)
    <2>1. [Idle EXCEPT !.pc = "enqueue", !.todo = {a}].pc = "enqueue"
      BY DEF Idle
    <2>2. QED
      BY <1>5, <2>1, GotoLands DEF Register, Moves, Leaves
  <1>6. CASE CronTick(w)
    <2>1. PICK P \in SUBSET Queued :
            Goto(w, [Idle EXCEPT !.pc = "loop", !.cron = TRUE, !.todo = P,
                       !.op = [a \in Agents |-> IF a \in P THEN row[a].op ELSE 0]])
      BY <1>6 DEF CronTick
    <2>2. [Idle EXCEPT !.pc = "loop", !.cron = TRUE, !.todo = P,
             !.op = [a \in Agents |-> IF a \in P THEN row[a].op ELSE 0]].pc = "loop"
      BY DEF Idle
    <2>3. QED
      BY <2>1, <2>2, GotoLands DEF Moves, Leaves
  <1>7. CASE Crash(w)
    BY <1>7, ExitsLand DEF Crash
  <1>8. CASE D1Error(w)
    BY <1>8, ExitsLand DEF D1Error
  <1>9. QED
    BY <1>1, <1>2, <1>3, <1>4, <1>5, <1>6, <1>7, <1>8 DEF Request

\* Every step moves at most one invocation, to one of these places.
LEMMA NextMoves ==
  ASSUME TypeOK, [Next]_vars
  PROVE  work' = work \/ \E w \in Invocations : Moves(w)
  <1>1. ASSUME NEW w \in Invocations, Step(w) PROVE Moves(w)
    BY <1>1, StepMoves
  <1>2. ASSUME NEW w \in Invocations, Request(w) \/ CronTick(w) \/ Crash(w) \/ D1Error(w)
        PROVE  Moves(w)
    BY <1>2, OthersMove
  <1>3. ASSUME NEW a \in Agents, RollbackAgent(a) \/ DeleteVps(a) PROVE work' = work
    BY <1>3 DEF RollbackAgent, DeleteVps
  <1>4. QED
    BY <1>1, <1>2, <1>3 DEF Next, vars

-----------------------------------------------------------------------------
(***************************************************************************)
(* One invocation at a time.  When requests and Cron take turns, what an   *)
(* invocation has read stays as it was until it sets the target, so every  *)
(* step points freshly.                                                    *)
(***************************************************************************)
Alone == \A v, w \in Invocations : v = w

TurnInv ==
  \A w \in Invocations : work[w].pc \in {"insert", "point"} =>
    /\ work[w].cur \in work[w].todo
    /\ work[w].cur \in Installed => work[w].snap = Config(work[w].cur)

\* Only a read brings the invocation here, and nothing changes until it goes on.
LEMMA TurnInvStep ==
  ASSUME Alone, IInv, TurnInv, [Next]_vars
  PROVE  TurnInv'
  <1>t. TypeOK
    BY DEF IInv
  <1>1. ASSUME NEW w \in Invocations, Moves(w) PROVE TurnInv'
    <2>1. CASE work'[w].pc \notin {"insert", "point"}
      BY <2>1 DEF Alone, TurnInv
    <2>2. CASE Reads(w)
      <3>1. \A a : Config(a)' = Config(a)
        BY <2>2 DEF Reads, Config
      <3>2. QED
        BY <2>2, <3>1 DEF Alone, TurnInv, Reads
    <2>3. CASE Stores(w)
      <3>1. Installed' = Installed /\ \A a : Config(a)' = Config(a)
        BY <2>3 DEF Stores, Config, Installed
      <3>2. QED
        BY <2>3, <3>1 DEF Alone, TurnInv, Stores
    <2>4. QED
      BY <1>1, <2>1, <2>2, <2>3 DEF Moves, Starts, Finds, Leaves
  <1>2. ASSUME work' = work, Installed' \subseteq Installed, \A a \in Installed' : Config(a)' = Config(a)
        PROVE  TurnInv'
    BY <1>2 DEF TurnInv
  <1>3. ASSUME NEW a \in Agents, RollbackAgent(a) PROVE TurnInv'
    BY <1>2, <1>3 DEF RollbackAgent, tables, Installed, Config
  <1>4. ASSUME NEW a \in Agents, DeleteVps(a) PROVE TurnInv'
    <2>1. work' = work /\ Installed' \subseteq Installed \ {a}
      BY <1>4, <1>t DEF DeleteVps, Installed, TypeOK
    <2>2. ASSUME NEW b \in Installed' PROVE Config(b)' = Config(b)
      <3>1. /\ UNCHANGED <<nodeVer, groupVer>> /\ b # a
            /\ \A g \in Groups : members'[g] = members[g] \ {a}
        BY <1>4, <2>1 DEF DeleteVps
      <3>2. {h \in Groups : b \in members'[h]} = {h \in Groups : b \in members[h]}
        BY <3>1
      <3>3. QED
        BY <3>1, <3>2 DEF Config
    <2>3. QED
      BY <1>2, <2>1, <2>2
  <1>5. CASE UNCHANGED vars
    BY <1>2, <1>5 DEF vars, Installed, Config
  <1>6. ASSUME NEW w \in Invocations, Step(w) \/ Request(w) \/ CronTick(w) \/ Crash(w) \/ D1Error(w)
        PROVE  TurnInv'
    BY <1>1, <1>6, <1>t, StepMoves, OthersMove
  <1>7. QED
    BY <1>3, <1>4, <1>5, <1>6 DEF Next

LEMMA TurnInvCorrect ==
  ASSUME Alone
  PROVE  Spec => []TurnInv
  <1>1. Init => TurnInv
    BY DEF Init, Idle, TurnInv
  <1>2. QED
    BY <1>1, TurnInvStep, IInvCorrect, PTL DEF Spec

\* The step that sets the target is then a fresh one.
LEMMA TurnPointsFreshly == TurnInv => FreshPoints
  BY DEF TurnInv, FreshPoints, PointAgent

\* Invocations that take turns point freshly.
LEMMA TurnsPointFreshly ==
  ASSUME Alone
  PROVE  Spec => [][FreshPoints]_vars
  BY TurnPointsFreshly, TurnInvCorrect, PTL

\* While requests and Cron take turns and nobody rolls back, an agent without a
\* queue row has a target built from its present configuration (TargetIsCurrent),
\* for any number of agents and groups, whatever crashes, errors and deletions.
THEOREM TargetsAreCurrent ==
  ASSUME Alone
  PROVE  Spec => [](rollbacks = 0 => TargetIsCurrent)
  BY TurnsPointFreshly, FreshTargetsAreCurrent, PTL
=============================================================================

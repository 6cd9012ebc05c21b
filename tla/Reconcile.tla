------------------------------ MODULE Reconcile ------------------------------
(***************************************************************************)
(* Publishing of configurations in the control-plane Worker (src/api.ts).  *)
(*                                                                         *)
(* D1 is the only shared state.  A request or a Cron tick is an invocation *)
(* whose awaits interleave with those of every other invocation, so every  *)
(* D1 call is one action here; a D1 batch is one transaction and therefore *)
(* one action.  An invocation can die at any await (Crash) and Cron sees   *)
(* transient D1 errors (D1Error).                                          *)
(*                                                                         *)
(* A managed VPS has one node row and, once registered, one agent row; the *)
(* two share the name a \in Agents.  What the compiler turns into a        *)
(* sing-box configuration is abstracted to version numbers: nodeVer counts *)
(* the changes of a node and its profile, groupVer those of a subscription *)
(* group and its clients.                                                  *)
(***************************************************************************)
EXTENDS Naturals, FiniteSets

CONSTANTS
  Agents,       \* managed VPS nodes and the agents that serve them
  Groups,       \* subscription groups
  Invocations,  \* Worker invocations that may be in flight at one time
  Broken,       \* agents whose stored profile the compiler rejects
  None,         \* no agent, no group
  CronLimit,    \* rows one Cron tick takes (4 in the code)
  MaxAffected,  \* agents one update may queue (8 in the code)
  MaxOps,       \* bound: no new request once this many operations exist
  MaxFaults,    \* bound: crashes and D1 errors
  MaxRollbacks  \* bound: manual rollbacks

ASSUME ConstantsAssumption ==
  /\ None \notin Agents \cup Groups
  /\ Broken \subseteq Agents
  /\ CronLimit \in Nat \ {0}
  /\ MaxAffected \in Nat
  /\ MaxOps \in Nat /\ MaxFaults \in Nat /\ MaxRollbacks \in Nat

VARIABLES
  stage,        \* stage[a]: "new" (no agent yet), "installed", "gone"
  nodeVer,      \* nodeVer[a]: version of the node row and its profile
  members,      \* members[g]: nodes of the group (subscription_group_nodes)
  groupVer,     \* groupVer[g]: version of the group's clients and flags
  draft,        \* draft[a]: nodes.draft
  desired,      \* desired[a]: agents.desired_revision, 0 when NULL
  revisions,    \* rows of the revisions table
  lastRev,      \* AUTOINCREMENT counter of the revisions table
  row,          \* row[a]: the agent's row of reconcile_queue, or NoRow
  older,        \* <<a, b>>: the row of a has the older updated_at
  lastOp,       \* operation ids handed out so far (randomUuid)
  work,         \* work[w]: control state and locals of invocation w
  missed,       \* history: agents whose configuration a commit changed
                \* without queueing them, and not queued since
  faults,       \* faults used so far
  rollbacks     \* rollbacks used so far

vars == <<stage, nodeVer, members, groupVer, draft, desired, revisions, lastRev,
          row, older, lastOp, work, missed, faults, rollbacks>>

tables   == <<stage, nodeVer, members, groupVer, draft>>
counters == <<faults, rollbacks>>

-----------------------------------------------------------------------------
(* Data                                                                     *)

Configs == [node : Nat, groups : SUBSET (Groups \X Nat)]
NoConfig == [node |-> 0, groups |-> {}]

\* What createRevisionForAgent would compile for agent a from the tables.
Config(a) ==
  [node   |-> nodeVer[a],
   groups |-> {<<g, groupVer[g]>> : g \in {h \in Groups : a \in members[h]}}]

Rows  == [op : Nat, target : Nat]
NoRow == [op |-> 0, target |-> 0]

Installed == {a \in Agents : stage[a] = "installed"}
Queued    == {a \in Agents : row[a] # NoRow}

Revisions == [id : Nat, agent : Agents, built : Configs]
Built(a)  == {r \in revisions : r.agent = a}

\* The change a request has decided on and not yet committed.
Plans  == [kind : {"none", "node", "group", "regroup"},
           nodes : SUBSET Agents, group : Groups \cup {None}, redraft : BOOLEAN]
NoPlan == [kind |-> "none", nodes |-> {}, group |-> None, redraft |-> FALSE]

\* Places an invocation can wait at: each names the D1 call that comes next.
Places == {"idle", "found", "commit", "enqueue", "loop",
           "insert", "point", "finish", "failed"}

Idle == [pc |-> "idle", cron |-> FALSE, todo |-> {}, cur |-> None,
         op |-> [a \in Agents |-> 0], snap |-> NoConfig, rev |-> 0,
         plan |-> NoPlan]

Works == [pc : Places, cron : BOOLEAN, todo : SUBSET Agents,
          cur : Agents \cup {None}, op : [Agents -> Nat], snap : Configs,
          rev : Nat, plan : Plans]

TypeOK ==
  /\ stage \in [Agents -> {"new", "installed", "gone"}]
  /\ nodeVer \in [Agents -> Nat]
  /\ members \in [Groups -> SUBSET Agents]
  /\ groupVer \in [Groups -> Nat]
  /\ draft \in [Agents -> BOOLEAN]
  /\ desired \in [Agents -> Nat]
  /\ revisions \in SUBSET Revisions
  /\ lastRev \in Nat
  /\ row \in [Agents -> Rows]
  /\ older \in SUBSET (Agents \X Agents)
  /\ lastOp \in Nat
  /\ work \in [Invocations -> Works]
  /\ missed \in SUBSET Agents
  /\ faults \in Nat
  /\ rollbacks \in Nat

\* Some agents have registered and wait for their first revision, the others
\* have only been created; groups may already list any of them.
Init ==
  /\ stage \in [Agents -> {"new", "installed"}]
  /\ nodeVer = [a \in Agents |-> 0]
  /\ members \in [Groups -> SUBSET Agents]
  /\ groupVer = [g \in Groups |-> 0]
  /\ draft = [a \in Agents |-> TRUE]
  /\ desired = [a \in Agents |-> 0]
  /\ revisions = {}
  /\ lastRev = 0
  /\ row = [a \in Agents |-> IF stage[a] = "installed"
                               THEN [op |-> 1, target |-> 0] ELSE NoRow]
  /\ older = {}
  /\ lastOp = 1
  /\ work = [w \in Invocations |-> Idle]
  /\ missed = {}
  /\ faults = 0
  /\ rollbacks = 0

-----------------------------------------------------------------------------
(* reconcile_queue                                                          *)

\* updated_at := now for the rows in S; rows written together tie.
Touched(S) == {p \in older : p[1] \notin S /\ p[2] \notin S} \cup ((Queued \ S) \X S)
Forgotten(S) == {p \in older : p[1] \notin S /\ p[2] \notin S}

\* Mutant of Enqueue: DO UPDATE leaves operation_id as it is.
EnqueueKeepingOperation(S, op) ==
  /\ row' = [a \in Agents |->
       IF a \notin S THEN row[a]
       ELSE [op |-> IF row[a] = NoRow THEN op ELSE row[a].op, target |-> 0]]
  /\ older' = Touched(S)

\* enqueueReconcileStatement: the upsert restarts the row under a new operation.
Enqueue(S, op) ==
  /\ row' = [a \in Agents |-> IF a \in S THEN [op |-> op, target |-> 0] ELSE row[a]]
  /\ older' = Touched(S)

\* Mutant of Finished: the DELETE does not compare the operation.
FinishedBlindly(r, op, rev) == NoRow

\* The two statements of finishReconcile on one row: claim the target of the
\* operation if it has none, then delete the row if it carries this target.
Claimed(r, op, rev) ==
  IF r.op = op /\ r.target = 0 THEN [r EXCEPT !.target = rev] ELSE r
Finished(r, op, rev) ==
  LET c == Claimed(r, op, rev)
  IN  IF c.op = op /\ c.target = rev THEN NoRow ELSE c

-----------------------------------------------------------------------------
(* Steps of an invocation                                                   *)

Goto(w, new) == work' = [work EXCEPT ![w] = new]
Stop(w) == Goto(w, Idle)

\* An admin request starts with the SELECT that finds the agents it affects.
Begin(w, affected, place, plan) ==
  /\ work[w].pc = "idle"
  /\ lastOp < MaxOps
  /\ Goto(w, [Idle EXCEPT !.pc = place, !.todo = affected, !.plan = plan])
  /\ UNCHANGED <<tables, desired, revisions, lastRev, row, older, lastOp, missed, counters>>

\* updateVps and the retiring deleteVps (redraft), setEnabled on a node (not).
BeginNode(w, a, redraft) ==
  /\ stage[a] # "gone"
  /\ Begin(w, {a} \cap Installed, "commit",
           [NoPlan EXCEPT !.kind = "node", !.nodes = {a}, !.redraft = redraft])

\* A change of the group's clients or of its flags: addSubscriptionClient,
\* deleteSubscription, deleteClient and setEnabled on groups, clients, subscriptions.
BeginGroup(w, g) ==
  Begin(w, members[g] \cap Installed, "commit",
        [NoPlan EXCEPT !.kind = "group", !.group = g])

\* updateSubscriptionGroup; with no members before or after it is
\* createSubscriptionGroup and deleteSubscriptionGroup.
BeginRegroup(w, g, nodes) ==
  /\ Cardinality(nodes) <= MaxAffected
  /\ Begin(w, members[g] \cap Installed, "found",
           [NoPlan EXCEPT !.kind = "regroup", !.group = g, !.nodes = nodes])

\* Its second SELECT: the chosen nodes must exist and their agents are added.
FindNodes(w) ==
  /\ work[w].pc = "found"
  /\ IF \E a \in work[w].plan.nodes : stage[a] = "gone"
       THEN Stop(w)
       ELSE Goto(w, [work[w] EXCEPT !.pc = "commit",
                       !.todo = @ \cup (work[w].plan.nodes \cap Installed)])
  /\ UNCHANGED <<tables, desired, revisions, lastRev, row, older, lastOp, missed, counters>>

\* publishAgent and publishVps: no change, straight to publishAgents.
BeginPublish(w, a) ==
  /\ a \in Installed
  /\ Begin(w, {a}, "enqueue", NoPlan)

\* A batch that queues a deleted agent or binds a deleted node breaks a foreign
\* key and changes nothing; one that affects too many agents is never sent.
Committable(w) ==
  /\ work[w].todo \subseteq Installed
  /\ Cardinality(work[w].todo) <= MaxAffected
  /\ work[w].plan.kind = "regroup" => \A a \in work[w].plan.nodes : stage[a] # "gone"

Refuse(w) ==
  /\ work[w].pc = "commit" /\ ~Committable(w)
  /\ Stop(w)
  /\ UNCHANGED <<tables, desired, revisions, lastRev, row, older, lastOp, missed, counters>>

\* Mutant of ApplyPlan: the node is not a draft while its edit is published.
ApplyPlanDraftless(p) ==
  /\ nodeVer' = [a \in Agents |->
       IF p.kind = "node" /\ a \in p.nodes THEN nodeVer[a] + 1 ELSE nodeVer[a]]
  /\ groupVer' = [g \in Groups |->
       IF p.kind \in {"group", "regroup"} /\ g = p.group THEN groupVer[g] + 1 ELSE groupVer[g]]
  /\ members' = [g \in Groups |->
       IF p.kind = "regroup" /\ g = p.group THEN p.nodes ELSE members[g]]
  /\ UNCHANGED draft

ApplyPlan(p) ==
  /\ nodeVer' = [a \in Agents |->
       IF p.kind = "node" /\ a \in p.nodes THEN nodeVer[a] + 1 ELSE nodeVer[a]]
  /\ draft' = [a \in Agents |-> draft[a] \/ (p.redraft /\ a \in p.nodes)]
  /\ groupVer' = [g \in Groups |->
       IF p.kind \in {"group", "regroup"} /\ g = p.group THEN groupVer[g] + 1 ELSE groupVer[g]]
  /\ members' = [g \in Groups |->
       IF p.kind = "regroup" /\ g = p.group THEN p.nodes ELSE members[g]]

\* The batch with the change and the queue rows of the agents read before.
Commit(w) ==
  /\ work[w].pc = "commit" /\ Committable(w)
  /\ ApplyPlan(work[w].plan)
  /\ lastOp' = lastOp + 1
  /\ Enqueue(work[w].todo, lastOp + 1)
  /\ missed' = (missed \cup {a \in Installed : Config(a)' # Config(a)}) \ work[w].todo
  /\ IF work[w].todo = {} THEN Stop(w)
     ELSE Goto(w, [work[w] EXCEPT !.pc = "enqueue", !.plan = NoPlan])
  /\ UNCHANGED <<stage, desired, revisions, lastRev, counters>>

\* registerAgent: the batch makes the agent; only publishAgents, its next call,
\* queues it.
Register(w, a) ==
  /\ work[w].pc = "idle" /\ stage[a] = "new" /\ lastOp < MaxOps
  /\ stage' = [stage EXCEPT ![a] = "installed"]
  /\ missed' = missed \cup {a}
  /\ Goto(w, [Idle EXCEPT !.pc = "enqueue", !.todo = {a}])
  /\ UNCHANGED <<nodeVer, members, groupVer, draft, desired, revisions, lastRev, row,
                 older, lastOp, counters>>

\* publishAgents, first statement: queue the agents under an operation of its own.
EnqueueOwn(w) ==
  /\ work[w].pc = "enqueue"
  /\ IF work[w].todo \subseteq Installed
       THEN /\ lastOp' = lastOp + 1
            /\ Enqueue(work[w].todo, lastOp + 1)
            /\ missed' = missed \ work[w].todo
            /\ Goto(w, [work[w] EXCEPT !.pc = "loop",
                                       !.op = [a \in Agents |-> lastOp + 1]])
       ELSE /\ Stop(w)
            /\ UNCHANGED <<lastOp, row, older, missed>>
  /\ UNCHANGED <<tables, desired, revisions, lastRev, counters>>

\* reconcilePending: a Cron tick takes the CronLimit rows with the oldest updated_at.
Oldest(P) ==
  /\ P \subseteq Queued
  /\ Cardinality(P) = (IF Cardinality(Queued) < CronLimit THEN Cardinality(Queued)
                                                          ELSE CronLimit)
  /\ \A p \in P, q \in Queued \ P : <<q, p>> \notin older

CronTick(w) ==
  /\ work[w].pc = "idle" /\ Queued # {}
  /\ \E P \in SUBSET Queued :
       /\ Oldest(P)
       /\ Goto(w, [Idle EXCEPT !.pc = "loop", !.cron = TRUE, !.todo = P,
                               !.op = [a \in Agents |-> IF a \in P THEN row[a].op ELSE 0]])
  /\ UNCHANGED <<tables, desired, revisions, lastRev, row, older, lastOp, missed, counters>>

\* Mutant of Throw: Cron swallows the error and settles the row.
ThrowIgnored(w, a) ==
  IF work[w].cron THEN Goto(w, [work[w] EXCEPT !.pc = "finish", !.cur = a])
                  ELSE Stop(w)

\* An error inside the loop: Cron records it and goes on, publishAgents rethrows.
Throw(w, a) ==
  IF work[w].cron THEN Goto(w, [work[w] EXCEPT !.pc = "failed", !.cur = a])
                  ELSE Stop(w)

\* createRevisionForAgent, first batch: one consistent read, then compile.
ReadConfig(w, a) ==
  /\ work[w].pc = "loop" /\ a \in work[w].todo
  /\ IF a \in Installed /\ a \notin Broken
       THEN Goto(w, [work[w] EXCEPT !.pc = "insert", !.cur = a, !.snap = Config(a)])
       ELSE Throw(w, a)
  /\ UNCHANGED <<tables, desired, revisions, lastRev, row, older, lastOp, missed, counters>>

\* Mutant of InsertRevision: ids are reused instead of counted up.
InsertRevisionReusingId(w) ==
  /\ work[w].pc = "insert"
  /\ IF work[w].cur \in Installed
       THEN /\ revisions' = revisions \cup
                 {[id |-> lastRev + 1, agent |-> work[w].cur, built |-> work[w].snap]}
            /\ Goto(w, [work[w] EXCEPT !.pc = "point", !.rev = lastRev + 1])
       ELSE /\ Throw(w, work[w].cur)
            /\ UNCHANGED revisions
  /\ UNCHANGED <<tables, desired, lastRev, row, older, lastOp, missed, counters>>

\* INSERT INTO revisions; a deleted agent breaks the foreign key.
InsertRevision(w) ==
  /\ work[w].pc = "insert"
  /\ IF work[w].cur \in Installed
       THEN /\ lastRev' = lastRev + 1
            /\ revisions' = revisions \cup
                 {[id |-> lastRev + 1, agent |-> work[w].cur, built |-> work[w].snap]}
            /\ Goto(w, [work[w] EXCEPT !.pc = "point", !.rev = lastRev + 1])
       ELSE /\ Throw(w, work[w].cur)
            /\ UNCHANGED <<lastRev, revisions>>
  /\ UNCHANGED <<tables, desired, row, older, lastOp, missed, counters>>

\* Mutant of PointAgent: only a missing target is set.
PointAgentOnce(w) ==
  LET a == work[w].cur
  IN  /\ work[w].pc = "point"
      /\ desired' = [desired EXCEPT ![a] =
                       IF @ = 0 /\ a \in Installed THEN work[w].rev ELSE @]
      /\ draft' = [draft EXCEPT ![a] = @ /\ a \notin Installed]
      /\ Goto(w, [work[w] EXCEPT !.pc = "finish"])
      /\ UNCHANGED <<stage, nodeVer, members, groupVer, revisions, lastRev, row, older,
                     lastOp, missed, counters>>

\* Last batch of createRevisionForAgent: the target is this revision, whatever
\* it was before, and the node is no draft any more.
PointAgent(w) ==
  LET a == work[w].cur
  IN  /\ work[w].pc = "point"
      /\ IF a \in Installed
           THEN /\ desired' = [desired EXCEPT ![a] = work[w].rev]
                /\ draft' = [draft EXCEPT ![a] = FALSE]
           ELSE UNCHANGED <<desired, draft>>
      /\ Goto(w, [work[w] EXCEPT !.pc = "finish"])
      /\ UNCHANGED <<stage, nodeVer, members, groupVer, revisions, lastRev, row, older,
                     lastOp, missed, counters>>

\* The loop is done with agent a.
NextAgent(w, a) ==
  IF work[w].todo = {a} THEN Stop(w)
  ELSE Goto(w, [work[w] EXCEPT !.pc = "loop", !.todo = @ \ {a}, !.cur = None,
                               !.snap = NoConfig, !.rev = 0])

FinishReconcile(w) ==
  LET a == work[w].cur
      r == Finished(row[a], work[w].op[a], work[w].rev)
  IN  /\ work[w].pc = "finish"
      /\ row' = [row EXCEPT ![a] = r]
      /\ older' = IF r = NoRow THEN Forgotten({a}) ELSE older
      /\ NextAgent(w, a)
      /\ UNCHANGED <<tables, desired, revisions, lastRev, lastOp, missed, counters>>

\* Mutant of RecordFailure: updated_at is left as it is.
RecordFailureInPlace(w) ==
  /\ work[w].pc = "failed"
  /\ NextAgent(w, work[w].cur)
  /\ UNCHANGED <<tables, desired, revisions, lastRev, row, older, lastOp, missed, counters>>

\* The catch block of reconcilePending: attempts, last_error and updated_at of
\* whatever row the agent has now.
RecordFailure(w) ==
  LET a == work[w].cur
  IN  /\ work[w].pc = "failed"
      /\ older' = IF a \in Queued THEN Touched({a}) ELSE older
      /\ NextAgent(w, a)
      /\ UNCHANGED <<tables, desired, revisions, lastRev, row, lastOp, missed, counters>>

-----------------------------------------------------------------------------
(* Faults and single-step requests                                          *)

\* The isolate is evicted, or an admin request dies of a D1 error.
Crash(w) ==
  /\ work[w].pc # "idle" /\ faults < MaxFaults
  /\ faults' = faults + 1
  /\ Stop(w)
  /\ UNCHANGED <<tables, desired, revisions, lastRev, row, older, lastOp, missed, rollbacks>>

\* A D1 call in the loop of Cron rejects.
D1Error(w) ==
  /\ work[w].cron /\ faults < MaxFaults
  /\ \/ /\ work[w].pc = "loop"
        /\ \E a \in work[w].todo : Throw(w, a)
     \/ /\ work[w].pc \in {"insert", "point", "finish"}
        /\ Throw(w, work[w].cur)
  /\ faults' = faults + 1
  /\ UNCHANGED <<tables, desired, revisions, lastRev, row, older, lastOp, missed, rollbacks>>

\* Mutant of RollbackAgent: whether the SELECT found the revision is not checked.
RollbackAgentUnchecked(a) ==
  /\ rollbacks < MaxRollbacks
  /\ IF Built(a) = {} THEN desired' = [desired EXCEPT ![a] = None]
     ELSE \E r \in Built(a) : desired' = [desired EXCEPT ![a] = r.id]
  /\ rollbacks' = rollbacks + 1
  /\ UNCHANGED <<tables, revisions, lastRev, row, older, lastOp, work, missed, faults>>

\* rollbackAgent: any revision of the agent becomes the target again.
RollbackAgent(a) ==
  /\ rollbacks < MaxRollbacks
  /\ \E r \in Built(a) : desired' = [desired EXCEPT ![a] = r.id]
  /\ rollbacks' = rollbacks + 1
  /\ UNCHANGED <<tables, revisions, lastRev, row, older, lastOp, work, missed, faults>>

\* deleteVps with force=true, or of a VPS without an agent: the cascades take its
\* revisions, its queue row and its group memberships.
DeleteVps(a) ==
  /\ stage[a] # "gone"
  /\ stage' = [stage EXCEPT ![a] = "gone"]
  /\ members' = [g \in Groups |-> members[g] \ {a}]
  /\ desired' = [desired EXCEPT ![a] = 0]
  /\ revisions' = revisions \ Built(a)
  /\ row' = [row EXCEPT ![a] = NoRow]
  /\ older' = Forgotten({a})
  /\ missed' = missed \ {a}
  /\ UNCHANGED <<nodeVer, groupVer, draft, lastRev, lastOp, work, counters>>

-----------------------------------------------------------------------------
Step(w) ==
  \/ FindNodes(w) \/ Refuse(w) \/ Commit(w) \/ EnqueueOwn(w)
  \/ \E a \in Agents : ReadConfig(w, a)
  \/ InsertRevision(w) \/ PointAgent(w) \/ FinishReconcile(w) \/ RecordFailure(w)

Request(w) ==
  \/ \E a \in Agents, redraft \in BOOLEAN : BeginNode(w, a, redraft)
  \/ \E g \in Groups : BeginGroup(w, g)
  \/ \E g \in Groups, nodes \in SUBSET Agents : BeginRegroup(w, g, nodes)
  \/ \E a \in Agents : BeginPublish(w, a) \/ Register(w, a)

Next ==
  \/ \E w \in Invocations : Step(w) \/ Request(w) \/ CronTick(w) \/ Crash(w) \/ D1Error(w)
  \/ \E a \in Agents : RollbackAgent(a) \/ DeleteVps(a)

Spec == Init /\ [][Next]_vars

\* Cron fires every five minutes whatever happened before, and a D1 call that
\* was sent settles; nobody promises that an administrator does anything.  The
\* platform starts Cron in an invocation of its own: that Invocations is finite
\* must not let requests keep it out, so the tick is strongly fair.
Fairness ==
  /\ \A w \in Invocations : WF_vars(Step(w))
  /\ SF_vars(\E w \in Invocations : CronTick(w))

FairSpec == Spec /\ Fairness

\* A change of agent a that is in flight towards its revision.
Publishing(w, a) == work[w].cur = a /\ work[w].pc \in {"insert", "point", "finish"}

-----------------------------------------------------------------------------
(* Properties                                                               *)

\* No update is lost by the queue: once the row of an agent is gone, a revision
\* built from the agent's present configuration exists, however crashes, D1
\* errors, Cron ticks and overlapping requests interleaved.  The only exception
\* is an agent that a commit changed without queueing it.
\* (finishReconcile deletes a row only under the operation id it carries.)
NothingLost ==
  \A a \in Installed \ missed :
    row[a] = NoRow => \E r \in Built(a) : r.built = Config(a)

\* A publisher that still holds the operation of the queue row holds a snapshot
\* of the present configuration: every later change restarts the row.
SnapshotFresh ==
  \A w \in Invocations, a \in Queued \ missed :
    Publishing(w, a) /\ row[a].op = work[w].op[a] => work[w].snap = Config(a)

\* The target syncAgent hands out is a revision of the agent that asks, so its
\* SELECT of the configuration always finds it; two revisions never share an id.
TargetIsOwn ==
  /\ \A a \in Agents : desired[a] # 0 => \E r \in Built(a) : r.id = desired[a]
  /\ \A r, s \in revisions : r.id = s.id => r = s

\* With the row gone, the target itself is built from the present configuration
\* (createRevisionForAgent points desired_revision at what it read).
TargetIsCurrent ==
  \A a \in Installed \ missed :
    row[a] = NoRow => \E r \in Built(a) : r.id = desired[a] /\ r.built = Config(a)

\* The same, claimed only while nothing is in flight.
RestingTargetIsCurrent ==
  (\A w \in Invocations : work[w].pc = "idle") => TargetIsCurrent

\* A claim the code does not keep, left for whoever mends updateVps (api.ts:461).
\* No agent is passed over: once nothing is in flight, every commit that changed
\* the configuration of an agent has queued it, or a later one has.
NobodyMissed ==
  (\A w \in Invocations : work[w].pc = "idle") => missed \cap Installed = {}

\* Cron serves every agent it can compile, also behind one that always fails:
\* a failure moves updated_at and with it the row to the end of the order.
QueueServed == \A a \in Agents \ Broken : a \in Queued ~> a \notin Queued

\* Publishing keeps the promise of Publication: an agent is pending while it has a
\* queue row, or was missed by the commit that changed it, and every step of the
\* invocations is a step of the promise or none.
Promise == INSTANCE Publication WITH
  registered <- Installed,
  wanted     <- [a \in Agents |-> Config(a)],
  pending    <- Queued \cup missed,
  built      <- [a \in Agents |-> {r.built : r \in Built(a)}]

PromiseKept == Promise!Spec
=============================================================================

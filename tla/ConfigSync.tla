----------------------------- MODULE ConfigSync -----------------------------
(***************************************************************************)
(* From an edit to the VPS and back: the publishing of Reconcile together  *)
(* with the agents that poll (agent/main.go: run, sync), the handlers that *)
(* serve them (src/api.ts: syncAgent, agentResult), the retirement of a    *)
(* VPS (deleteVps) and the condition under which a subscription offers it. *)
(*                                                                         *)
(* The switch itself is the subject of ReleaseSwitch; here applying a      *)
(* revision succeeds or fails as a whole.  Telemetry and ingress status    *)
(* are left out: they only withhold a node from subscriptions.             *)
(***************************************************************************)
EXTENDS Reconcile

CONSTANTS
  Unfit,        \* versions of a node whose configuration no agent can apply
  MaxTroubles   \* bound: lost and late calls, failing applies, dying agents

ASSUME SyncAssumption == Unfit \subseteq Nat /\ MaxTroubles \in Nat

VARIABLES
  current,      \* current[a]: agents.current_revision, 0 when NULL
  failed,       \* failed[a]: agents.last_error is set
  edited,       \* edited[a]: version of the last commit that set draft (history)
  retired,      \* retired[a]: version of the commit that set retiring, 0 if none
  deleting,     \* agents whose deletion without force has passed its check
  marked,       \* marked[a]: the revision in .revision on the VPS
  doing,        \* doing[a]: what the agent is at, and the revision it was sent
  net,          \* calls of agents under way, in either direction
  troubles      \* troubles used so far

control == <<current, failed, edited, retired, deleting>>
remote  == <<marked, doing, net, troubles>>
syncVars == <<vars, control, remote>>

-----------------------------------------------------------------------------
NoRevision == [id |-> 0, agent |-> None, built |-> NoConfig]
Revised == Revisions \cup {NoRevision}

\* A call on its way to the Worker ("sync", "result"), inside syncAgent ("state")
\* or on its way back ("answer"); live while the agent waits for it.
Calls == [kind : {"sync", "state", "answer", "result"}, agent : Agents,
          rev : Revised, ok : BOOLEAN, live : BOOLEAN]

Sent(kind, a, rev, ok) == [kind |-> kind, agent |-> a, rev |-> rev, ok |-> ok, live |-> TRUE]

Waiting == [pc |-> "idle", got |-> NoRevision]
Doings  == [pc : {"idle", "asked", "apply", "reported"}, got : Revised]

Row(a, id) == CHOOSE r \in Built(a) : r.id = id

SyncTypeOK ==
  /\ TypeOK
  /\ current \in [Agents -> Nat] /\ failed \in [Agents -> BOOLEAN]
  /\ edited \in [Agents -> Nat] /\ retired \in [Agents -> Nat]
  /\ deleting \subseteq Agents
  /\ marked \in [Agents -> Revised] /\ doing \in [Agents -> Doings]
  /\ net \subseteq Calls /\ troubles \in Nat

SyncInit ==
  /\ Init
  /\ current = [a \in Agents |-> 0] /\ failed = [a \in Agents |-> FALSE]
  /\ edited = [a \in Agents |-> 0] /\ retired = [a \in Agents |-> 0]
  /\ deleting = {}
  /\ marked = [a \in Agents |-> NoRevision]
  /\ doing = [a \in Agents |-> Waiting]
  /\ net = {} /\ troubles = 0

-----------------------------------------------------------------------------
(* The control plane                                                        *)

\* Commits that set draft, and of these the one that sets retiring: deleteVps
\* retires a VPS that had an agent when it looked.
Stamped(f, w) == [a \in Agents |-> IF a \in work[w].plan.nodes THEN nodeVer'[a] ELSE f[a]]

Flagged(w) ==
  IF work[w].pc = "commit" /\ lastOp' # lastOp /\ work[w].plan.redraft
    THEN /\ edited' = Stamped(edited, w)
         /\ \/ UNCHANGED retired
            \/ /\ \A a \in work[w].plan.nodes : retired[a] = 0 /\ a \in work[w].todo
               /\ retired' = Stamped(retired, w)
    ELSE UNCHANGED <<edited, retired>>

\* A step of publishing; the batch that points an agent also clears last_error.
Publish(w) ==
  /\ Step(w)
  /\ failed' = [a \in Agents |-> failed[a] /\ ~(work[w].pc = "point" /\ work[w].cur = a)]
  /\ Flagged(w)
  /\ UNCHANGED <<current, deleting, remote>>

Administer(w) ==
  /\ Request(w) \/ Crash(w) \/ D1Error(w)
  /\ UNCHANGED <<control, remote>>

Cron(w) == CronTick(w) /\ UNCHANGED <<control, remote>>

RollBack(a) == RollbackAgent(a) /\ UNCHANGED <<control, remote>>

\* Mutant of CheckDeletion: the revisions are not compared.
CheckDeletionAtOnce(w, a) ==
  /\ work[w].pc = "idle" /\ a \in Installed /\ retired[a] # 0 /\ a \notin deleting
  /\ deleting' = deleting \cup {a}
  /\ UNCHANGED <<vars, current, failed, edited, retired, remote>>

\* deleteVps of a retiring VPS without force, the SELECT and its check.
CheckDeletion(w, a) ==
  /\ work[w].pc = "idle" /\ a \in Installed /\ retired[a] # 0 /\ a \notin deleting
  /\ current[a] = desired[a]
  /\ deleting' = deleting \cup {a}
  /\ UNCHANGED <<vars, current, failed, edited, retired, remote>>

\* The batch of deleteVps, after that check or with force.
Delete(a) ==
  /\ DeleteVps(a)
  /\ current' = [current EXCEPT ![a] = 0] /\ failed' = [failed EXCEPT ![a] = FALSE]
  /\ deleting' = deleting \ {a}
  /\ UNCHANGED <<edited, retired, remote>>

-----------------------------------------------------------------------------
(* The agent                                                                *)

Turn(a, pc, got) == doing' = [doing EXCEPT ![a] = [pc |-> pc, got |-> got]]

Poll(a) ==
  /\ a \in Installed /\ doing[a].pc = "idle"
  /\ Turn(a, "asked", NoRevision)
  /\ net' = net \cup {Sent("sync", a, marked[a], TRUE)}
  /\ UNCHANGED <<vars, control, marked, troubles>>

\* The answer names a revision unless the control plane believes it is applied.
Receive(a) ==
  \E m \in net :
    /\ m.kind = "answer" /\ m.agent = a
    /\ net' = net \ {m}
    /\ IF m.rev \in {NoRevision, marked[a]} THEN Turn(a, "idle", NoRevision)
                                            ELSE Turn(a, "apply", m.rev)
    /\ UNCHANGED <<vars, control, marked, troubles>>

\* apply, and the call that reports its result.
Applied(a, ok) ==
  /\ doing[a].pc = "apply"
  /\ marked' = [marked EXCEPT ![a] = IF ok THEN doing[a].got ELSE @]
  /\ Turn(a, "reported", NoRevision)
  /\ net' = net \cup {Sent("result", a, doing[a].got, ok)}
  /\ UNCHANGED <<vars, control>>

Apply(a) == Applied(a, doing[a].got.built.node \notin Unfit) /\ UNCHANGED troubles

-----------------------------------------------------------------------------
(* The handlers of the agent's calls                                        *)

\* A call that ends: the agent that waits for it sleeps until the next poll.
Ends(m) == IF m.live THEN Turn(m.agent, "idle", NoRevision) ELSE UNCHANGED doing

\* requireAgent: the agent's row and with it its token are gone.
Reject(m) ==
  /\ m.kind \in {"sync", "state", "result"} /\ m.agent \notin Installed
  /\ net' = net \ {m} /\ Ends(m)
  /\ UNCHANGED <<vars, control, marked, troubles>>

\* Mutant of StoreReport: whether the report names a revision is not asked.
StoreReportUnchecked(m) ==
  LET a == m.agent
  IN  /\ m.kind = "sync" /\ a \in Installed
      /\ current' = [current EXCEPT ![a] = IF m.rev.id = 0 THEN None ELSE m.rev.id]
      /\ net' = (net \ {m}) \cup {[m EXCEPT !.kind = "state"]}
      /\ UNCHANGED <<vars, failed, edited, retired, deleting, marked, doing, troubles>>

\* syncAgent, the batch: the reported revision, if it is one of the agent.
StoreReport(m) ==
  LET a == m.agent
  IN  /\ m.kind = "sync" /\ a \in Installed
      /\ current' = [current EXCEPT ![a] =
                       IF \E r \in Built(a) : r.id = m.rev.id THEN m.rev.id ELSE @]
      /\ net' = (net \ {m}) \cup {[m EXCEPT !.kind = "state"]}
      /\ UNCHANGED <<vars, failed, edited, retired, deleting, marked, doing, troubles>>

\* syncAgent, the SELECTs after it; nobody reads the answer to a dead call.
AnswerState(m) ==
  LET a == m.agent
      told == IF desired[a] \in {0, current[a]} THEN NoRevision ELSE Row(a, desired[a])
  IN  /\ m.kind = "state" /\ a \in Installed
      /\ net' = (net \ {m}) \cup (IF m.live THEN {Sent("answer", a, told, TRUE)} ELSE {})
      /\ UNCHANGED <<vars, control, marked, doing, troubles>>

\* Mutant of StoreResult: a success counts although the target has moved.
StoreResultAnyway(m) ==
  LET a == m.agent
  IN  /\ m.kind = "result" /\ a \in Installed
      /\ IF m.ok THEN /\ current' = [current EXCEPT ![a] = desired[a]]
                      /\ failed' = [failed EXCEPT ![a] = FALSE]
                 ELSE failed' = [failed EXCEPT ![a] = TRUE] /\ UNCHANGED current
      /\ net' = net \ {m} /\ Ends(m)
      /\ UNCHANGED <<vars, edited, retired, deleting, marked, troubles>>

\* Mutant of StoreResult: whether the revision was applied is not asked.
StoreResultEither(m) ==
  LET a == m.agent
  IN  /\ m.kind = "result" /\ a \in Installed
      /\ failed' = [failed EXCEPT ![a] = ~m.ok]
      /\ current' = [current EXCEPT ![a] = IF desired[a] = m.rev.id THEN m.rev.id ELSE @]
      /\ net' = net \ {m} /\ Ends(m)
      /\ UNCHANGED <<vars, edited, retired, deleting, marked, troubles>>

\* agentResult: a success counts while its revision is the target, a failure always.
StoreResult(m) ==
  LET a == m.agent
  IN  /\ m.kind = "result" /\ a \in Installed
      /\ IF ~m.ok THEN failed' = [failed EXCEPT ![a] = TRUE] /\ UNCHANGED current
         ELSE IF desired[a] = m.rev.id
           THEN /\ current' = [current EXCEPT ![a] = m.rev.id]
                /\ failed' = [failed EXCEPT ![a] = FALSE]
           ELSE UNCHANGED <<current, failed>>
      /\ net' = net \ {m} /\ Ends(m)
      /\ UNCHANGED <<vars, edited, retired, deleting, marked, troubles>>

-----------------------------------------------------------------------------
(* Troubles                                                                 *)

Trouble == troubles < MaxTroubles /\ troubles' = troubles + 1

\* A call or its answer is lost, or its invocation dies.
Lose(m) ==
  /\ Trouble
  /\ net' = net \ {m} /\ Ends(m)
  /\ UNCHANGED <<vars, control, marked>>

\* The agent stops waiting, by its timeout of 20 s or because it died; what it
\* sent stays under way.  An apply that was cut short has finished or has not.
GiveUp(a) ==
  /\ Trouble
  /\ doing[a].pc # "idle"
  /\ Turn(a, "idle", NoRevision)
  /\ net' = {[m EXCEPT !.live = m.live /\ m.agent # a] :
               m \in {n \in net : n.agent # a \/ n.kind # "answer"}}
  /\ \/ UNCHANGED marked
     \/ /\ doing[a].pc = "apply" /\ doing[a].got.built.node \notin Unfit
        /\ marked' = [marked EXCEPT ![a] = doing[a].got]
  /\ UNCHANGED <<vars, control>>

\* An apply fails for a passing reason.
Stumble(a) == Trouble /\ Applied(a, FALSE)

-----------------------------------------------------------------------------
Serve(m)     == StoreReport(m) \/ AnswerState(m) \/ StoreResult(m) \/ Reject(m)
AgentStep(a) == Poll(a) \/ Receive(a) \/ Apply(a)

SyncNext ==
  \/ \E w \in Invocations :
       \/ Publish(w) \/ Administer(w) \/ Cron(w)
       \/ \E a \in Agents : CheckDeletion(w, a)
  \/ \E a \in Agents :
       AgentStep(a) \/ GiveUp(a) \/ Stumble(a) \/ RollBack(a) \/ Delete(a)
  \/ \E m \in net : Serve(m) \/ Lose(m)

SyncSpec == SyncInit /\ [][SyncNext]_syncVars

\* As in Reconcile; the agent polls for ever and a call that arrives is served.
SyncFairness ==
  /\ \A w \in Invocations : WF_syncVars(Publish(w))
  /\ SF_syncVars(\E w \in Invocations : Cron(w))
  /\ \A a \in Agents : WF_syncVars(AgentStep(a))
  /\ \A a \in Agents : WF_syncVars(\E m \in net : m.agent = a /\ m.live /\ Serve(m))

SyncFairSpec == SyncSpec /\ SyncFairness

-----------------------------------------------------------------------------
(* Properties                                                               *)

\* subscription: its conditions on revisions, draft and retiring.
Offered(a) ==
  /\ a \in Installed /\ retired[a] = 0 /\ ~draft[a]
  /\ current[a] # 0 /\ current[a] = desired[a]

\* A VPS that subscriptions offer has applied its target: no lost, late or repeated
\* call makes the control plane believe in a revision that the VPS does not have.
\* A rollback by hand can bring back a target that a late call still reports.
OfferedIsApplied ==
  rollbacks = 0 => \A a \in Agents : Offered(a) => marked[a].id = desired[a]

\* Subscriptions are rendered from the node as it is now; a VPS is offered only
\* once it runs a configuration with the last edit of its settings.  A rollback by
\* hand moves the target and leaves draft alone.
OfferedHasEdit ==
  rollbacks = 0 => \A a \in Agents : Offered(a) => Row(a, desired[a]).built.node >= edited[a]

\* Without force a VPS is deleted only when it runs a configuration without users,
\* the bootstrap one or one built after it was retired.
RetirementIsSafe ==
  \A a \in deleting : marked[a] = NoRevision \/ marked[a].built.node >= retired[a]

\* The same while no invocation of the Worker died and no target was rolled back.
CarefulRetirement == faults = 0 /\ rollbacks = 0 => RetirementIsSafe

\* An edit reaches the VPS: once the configuration of an agent is settled, and can
\* be applied, the VPS runs it for good and the control plane knows.
EditsArrive ==
  \A a \in Agents :
    <>[](rollbacks = 0 /\ a \in Installed /\ a \notin missed /\ nodeVer[a] \notin Unfit) =>
      <>[](marked[a].built = Config(a) /\ current[a] = marked[a].id)

\* A claim the code does not keep, left for whoever mends agentResult (api.ts:914).
\* An error of an agent does not outlive its cause: when the target is applied and
\* known to be for good, last_error is cleared.
ErrorsClear ==
  \A a \in Agents :
    <>[](a \in Installed /\ marked[a].id = desired[a] /\ current[a] = desired[a])
      => <>[](~failed[a])
=============================================================================

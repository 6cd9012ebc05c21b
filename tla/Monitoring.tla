------------------------------ MODULE Monitoring ------------------------------
(***************************************************************************)
(* What the administrator is told about one installed VPS: last_seen,      *)
(* last_error, install_stage and the three alerts that Cron (scheduled in  *)
(* src/index.ts) opens and resolves, while edits are published, fail and   *)
(* are retried and the agent falls silent and returns.                     *)
(*                                                                         *)
(* Time is coarse: last_seen is within the five minutes or older.  The     *)
(* steps inside createRevisionForAgent and inside the agent's apply are in *)
(* Reconcile and ReleaseSwitch; here each is taken at once.                *)
(***************************************************************************)
EXTENDS Naturals

CONSTANTS
  None,
  MaxEdits,    \* bound: updateVps and setEnabled requests
  MaxOutages,  \* bound: times the agent falls silent
  MaxFaults    \* bound: D1 errors, requests that die, results lost or late, upgrades

VARIABLES
  profile,   \* the stored profile: good, or agent or compiler will refuse it
  enabled, draft,
  queue,     \* the row of reconcile_queue: [op, attempts, fails]; fails is history
  ops,       \* operation ids given out
  handler,   \* the request that is in publishAgents, with its operation
  cron,      \* where the running invocation of scheduled is
  desired,   \* agents.desired_revision, with what the agent will make of it
  current,   \* agents.current_revision
  seen,      \* agents.last_seen: "never", "recent" or "old"
  lastError, \* agents.last_error is set
  stage,     \* nodes.install_stage
  alerts,    \* status of each alert
  up, applied,  \* the agent runs and reaches the Worker; the revision it runs
  late,      \* a failure report is still on its way
  muddled,   \* history: last_error is of a failure report that came after the success,
             \* or the success that would mend it was lost
  edits, outages, faults

row     == <<profile, enabled, draft>>
publish == <<queue, ops, handler, cron>>
agents  == <<desired, current, seen, lastError, stage>>
machine == <<up, applied, late, muddled>>
bounds  == <<edits, outages, faults>>
vars    == <<row, publish, agents, alerts, machine, bounds>>

-----------------------------------------------------------------------------
PROFILES == {"good", "unappliable", "uncompilable"}
KINDS == {"agent_offline", "config_failed", "reconcile_failed"}
STAGES == {"registered", "online", "upgrading", "upgraded", "failed"}

Rest == [at |-> "idle", op |-> 0]
Maintaining == [at |-> "maintain", op |-> 0]

Init ==
  /\ profile = "good" /\ enabled = TRUE /\ draft = FALSE
  /\ queue = None /\ ops = 0 /\ handler = Rest /\ cron = Rest
  /\ desired = [rev |-> 1, works |-> TRUE] /\ current = 0
  /\ seen = "never" /\ lastError = FALSE /\ stage = "registered"
  /\ alerts = [k \in KINDS |-> "none"]
  /\ up = TRUE /\ applied = 0 /\ late = FALSE /\ muddled = FALSE
  /\ edits = 0 /\ outages = 0 /\ faults = 0

Fault == faults < MaxFaults /\ faults' = faults + 1

-----------------------------------------------------------------------------
(* Edits and their publication                                              *)

\* Mutant of Enqueued: the upsert leaves attempts as they are.
EnqueuedOnTop(op) == [op |-> op, attempts |-> IF queue = None THEN 0 ELSE queue.attempts, fails |-> 0]

\* enqueueReconcileStatement replaces the row.
Enqueued(op) == [op |-> op, attempts |-> 0, fails |-> 0]

\* updateVps stores a profile, setEnabled the flag; both enqueue the agent.
Edit(new, flag) ==
  /\ handler = Rest /\ edits < MaxEdits /\ edits' = edits + 1
  /\ \/ profile' = new /\ draft' = TRUE /\ UNCHANGED enabled
     \/ enabled' = flag /\ flag # enabled /\ UNCHANGED <<profile, draft>>
  /\ queue' = Enqueued(ops + 1) /\ ops' = ops + 1 /\ handler' = [at |-> "enqueue", op |-> 0]
  /\ UNCHANGED <<cron, agents, alerts, machine, outages, faults>>

\* publishAgents enqueues again, under an operation of its own.
Enqueue ==
  /\ handler.at = "enqueue"
  /\ queue' = Enqueued(ops + 1) /\ ops' = ops + 1 /\ handler' = [at |-> "publish", op |-> ops + 1]
  /\ UNCHANGED <<row, cron, agents, alerts, machine, bounds>>

\* createRevisionForAgent and finishReconcile of the operation op.  The error of
\* the revision before goes with it.
Published(op) ==
  /\ profile # "uncompilable"
  /\ desired' = [rev |-> desired.rev + 1, works |-> profile = "good"]
  /\ lastError' = FALSE /\ muddled' = FALSE
  /\ draft' = FALSE
  /\ queue' = IF queue # None /\ queue.op = op THEN None ELSE queue

\* The request goes on; whatever fails in it leaves the row to Cron.
PublishNow ==
  /\ handler.at = "publish" /\ handler' = Rest
  /\ Published(handler.op)
  /\ UNCHANGED <<profile, enabled, ops, cron, current, seen, stage, alerts, up, applied, late, bounds>>

HandlerEnds ==
  /\ handler # Rest /\ handler' = Rest
  /\ (profile = "uncompilable" /\ handler.at = "publish" /\ UNCHANGED faults) \/ Fault
  /\ UNCHANGED <<row, queue, ops, cron, agents, alerts, machine, edits, outages>>

-----------------------------------------------------------------------------
(* Cron                                                                     *)

\* reconcilePending selects the row.
CronReads ==
  /\ cron = Rest
  /\ cron' = IF queue = None THEN Maintaining ELSE [at |-> "reconcile", op |-> queue.op]
  /\ UNCHANGED <<row, queue, ops, handler, agents, alerts, machine, bounds>>

CronPublishes ==
  /\ cron.at = "reconcile" /\ cron' = Maintaining
  /\ Published(cron.op)
  /\ UNCHANGED <<profile, enabled, ops, handler, current, seen, stage, alerts, up, applied, late, bounds>>

\* RecordFailure: the row is found by its agent, whatever its operation is now.
CronFails ==
  /\ cron.at = "reconcile" /\ cron' = Maintaining
  /\ (profile = "uncompilable" /\ UNCHANGED faults) \/ Fault
  /\ queue' = IF queue = None THEN None
              ELSE [queue EXCEPT !.attempts = IF @ < 3 THEN @ + 1 ELSE @,
                                 !.fails = IF @ < 3 /\ queue.op = cron.op THEN @ + 1 ELSE @]
  /\ UNCHANGED <<row, ops, handler, agents, alerts, machine, edits, outages>>

\* Mutant of Silent: last_seen of a new agent is NULL, which compares as false.
SilentSince == enabled /\ seen = "old"

Silent == enabled /\ seen # "recent"

\* Mutant of Resolves: an offline alert is resolved only while the VPS is enabled.
ResolvesEnabled(kind) ==
  CASE kind = "agent_offline" -> seen = "recent" /\ enabled
    [] kind = "config_failed" -> ~lastError
    [] OTHER -> queue = None

Opens(kind) ==
  CASE kind = "agent_offline" -> Silent
    [] kind = "config_failed" -> lastError
    [] OTHER -> queue # None /\ queue.attempts >= 3

Resolves(kind) ==
  CASE kind = "agent_offline" -> seen = "recent"
    [] kind = "config_failed" -> ~lastError
    [] OTHER -> queue = None

\* The batch of scheduled: each kind is opened, then resolved.
Maintain ==
  /\ cron.at = "maintain" /\ cron' = Rest
  /\ alerts' = [k \in KINDS |-> IF Opens(k) THEN "open"
                                ELSE IF alerts[k] = "open" /\ Resolves(k) THEN "resolved" ELSE alerts[k]]
  /\ UNCHANGED <<row, queue, ops, handler, agents, machine, bounds>>

-----------------------------------------------------------------------------
(* The agent                                                                *)

\* What syncAgent stores of a report.
Heard ==
  /\ seen' = "recent"
  /\ stage' = IF stage = "failed" THEN stage ELSE "online"

\* A poll without news, or whose answer is lost.
Sync ==
  /\ up /\ Heard /\ current' = applied
  /\ (desired.rev = applied /\ UNCHANGED faults) \/ Fault
  /\ UNCHANGED <<row, publish, desired, lastError, alerts, machine, edits, outages>>

\* Mutant of Result: current_revision is set whatever the outcome.
ResultBlind(success) == current' = desired.rev /\ lastError' = ~success

\* agentResult, after syncAgent stored the revision that ran before.
Result(success) == current' = (IF success THEN desired.rev ELSE applied) /\ lastError' = ~success

\* The agent applies the desired revision, and reports it or fails to.
Applies ==
  /\ up /\ Heard /\ desired.rev # applied /\ desired.works
  /\ applied' = desired.rev
  /\ \/ Result(TRUE) /\ muddled' = FALSE /\ UNCHANGED faults
     \/ current' = applied /\ muddled' = lastError /\ UNCHANGED lastError /\ Fault
  /\ UNCHANGED <<row, publish, desired, alerts, up, late, edits, outages>>

\* It fails to apply it; the report may be lost, or be late.
Refuses ==
  /\ up /\ Heard /\ desired.rev # applied /\ ~desired.works
  /\ \/ Result(FALSE) /\ UNCHANGED <<late, faults>>
     \/ current' = applied /\ late' \in BOOLEAN /\ UNCHANGED lastError /\ Fault
  /\ UNCHANGED <<row, publish, desired, alerts, up, applied, muddled, edits, outages>>

LateResult ==
  /\ late /\ late' = FALSE
  /\ lastError' = TRUE
  /\ muddled' = (muddled \/ applied = desired.rev)
  /\ UNCHANGED <<row, publish, desired, current, seen, stage, alerts, up, applied, bounds>>

AgentStops ==
  /\ up /\ up' = FALSE
  /\ outages < MaxOutages /\ outages' = outages + 1
  /\ UNCHANGED <<row, publish, agents, alerts, applied, late, muddled, edits, faults>>

AgentReturns ==
  /\ ~up /\ up' = TRUE
  /\ UNCHANGED <<row, publish, agents, alerts, applied, late, muddled, bounds>>

\* Five minutes without a report.
TimePasses ==
  /\ ~up /\ seen = "recent" /\ seen' = "old"
  /\ UNCHANGED <<row, publish, desired, current, lastError, stage, alerts, machine, bounds>>

\* installEvent of an upgrade.
installEvent(new) ==
  /\ Fault /\ stage' = new
  /\ UNCHANGED <<row, publish, desired, current, seen, lastError, alerts, machine, edits, outages>>

Poll == Sync \/ Applies \/ Refuses
Cron == CronReads \/ CronPublishes \/ CronFails \/ Maintain

Next ==
  \/ \E new \in PROFILES, flag \in BOOLEAN : Edit(new, flag)
  \/ Enqueue \/ PublishNow \/ HandlerEnds
  \/ CronReads \/ CronPublishes \/ CronFails \/ Maintain
  \/ Sync \/ Applies \/ Refuses \/ LateResult
  \/ AgentStops \/ AgentReturns \/ TimePasses
  \/ \E new \in {"upgrading", "upgraded", "failed"} : installEvent(new)

\* Cron runs every five minutes, an agent that is up polls every minute and
\* time passes; requests are answered or die.
Fairness ==
  /\ WF_vars(Cron) /\ WF_vars(Poll) /\ WF_vars(TimePasses)
  /\ WF_vars(Enqueue \/ PublishNow \/ HandlerEnds)

Spec == Init /\ [][Next]_vars /\ Fairness

-----------------------------------------------------------------------------
(* Properties                                                               *)

\* The condition of subscription on this node.
Offered == enabled /\ ~draft /\ seen = "recent" /\ current = desired.rev

\* Types, and that D1 never believes a VPS to be further than it is.
TypeOK ==
  /\ profile \in PROFILES /\ {enabled, draft, lastError, up, late, muddled} \subseteq BOOLEAN
  /\ queue # None => queue.attempts \in 0..3 /\ queue.op \in 1..ops
  /\ cron.at \in {"idle", "reconcile", "maintain"}
  /\ seen \in {"never", "recent", "old"} /\ stage \in STAGES
  /\ alerts \in [KINDS -> {"none", "open", "resolved"}]
  /\ current \in 0..applied /\ applied \in 0..desired.rev

\* attempts counts the failures of the present operation; a failure of an older
\* one can be booked on it, but only one (api.ts:243 and 311).
AttemptsEarned == queue # None => queue.attempts <= queue.fails + 1

\* What goes wrong and stays wrong is alerted for good from some time on
\* (production-runbook.md:41), though each publish resolves the alert of a failed
\* configuration (api.ts:279): an enabled VPS whose agent is silent, also one that
\* never polled; a revision the agent refuses; a profile that cannot be published.
LastingTrouble ==
  \/ enabled /\ ~up
  \/ up /\ ~desired.works /\ desired.rev # applied
  \/ profile = "uncompilable" /\ draft
TroubleIsAlerted == <>[]LastingTrouble => <>[](\E k \in KINDS : alerts[k] = "open")

\* When the agent is back, reaches the Worker and can run what is stored, all
\* alerts are resolved, the VPS is offered again unless it is disabled, and the
\* stage is settled.  Excepted is an error that only the next publish clears: a
\* failure reported after the success (api.ts:914 looks at no revision), or one
\* whose mending success was lost (api.ts:279, 907).
Calm == /\ \A k \in KINDS : alerts[k] # "open"
        /\ enabled => Offered
        /\ stage \in {"online", "failed"}
CalmReturns == <>[](up /\ profile = "good" /\ ~muddled) => <>[]Calm
=============================================================================

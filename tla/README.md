# A TLA+ model of NodeManage

NodeManage manages sing-box servers ("VPS nodes") from one Cloudflare Worker
with a D1 (SQLite) database; a Go agent on every VPS polls the Worker, applies
the configuration it is sent and reports the result. This directory holds TLA+
modules translated from that source, TLC configurations that check them on
small instances, and TLAPS proofs of the results that matter most. Paths are
relative to the repository root.

## 1. The system

### 1.1 Parts and their state

| Part | Code | State it keeps | Modelled in |
|---|---|---|---|
| Admin handlers, publishing | `src/api.ts` 224-316, 364-466, 508-693, 771-795 | D1: `nodes`, `agents.desired_revision`, groups, `revisions`, `reconcile_queue` | Reconcile, Publication |
| Agent endpoints | `src/api.ts` 836-917 | D1: `agents.current_revision`, `last_error` | ConfigSync |
| Tickets and registration | `src/api.ts` 318-328, 468-473, 695-769 | D1: `install_tickets`, `agents`, `nodes.agent_id` | Enrollment |
| VPS create, edit, install command | `src/api.ts` 86-222, 364-473 | D1: `nodes`, `profiles` | Deployment, Profiles |
| Profiles: rules and compiler | `src/domain.ts` | pure | Profiles |
| Cron, every 5 minutes | `src/index.ts` 36-61 | D1: `alerts` | reconciling in Reconcile, alerts in Monitoring |
| Install stage and events | `src/api.ts` 806-834, 885-888 | D1: `nodes.install_stage` | Monitoring |
| Subscriptions | `src/api.ts` 919-944, `src/subscriptions.ts` | none | entries in Profiles; who is offered in ConfigSync, Deployment, MinimalVps, Monitoring |
| Agent: switching releases | `agent/main.go` 226-467 | `current` and `previous` links, release directories, `.revision` | ReleaseSwitch |
| Agent: poll loop | `agent/main.go` 151-288 | none across polls | ConfigSync, ReleaseSwitch |
| Installer: registration | `agent/installer.go` 608-680 | claim file, agent configuration | Enrollment |
| Installer: repair | `agent/installer.go` 346-361 | the release links | ReleaseSwitch |
| Installer: upgrade | `agent/installer.go` 388-520 | executables, services | cloudflared and the restarts in Upkeep; backups not modelled |
| Installer: install, uninstall | `agent/installer.go` | executables, services | not modelled |
| Minimal VPS | `src/api.ts` 330-362, 399-427, 475-506, `src/minimal-install.ts` | D1: `nodes.provisioned_at`, `draft`; the VPS: its configuration | MinimalVps |
| Agent: certificates | `agent/certificate.go`, `agent/main.go` 156-167 | certificate releases, backoff file | Upkeep |
| Agent: tunnel | `agent/tunnel.go` | a cloudflared process and its pid file | Upkeep; probe and router in Deployment, Profiles |
| Administrator sessions, HTTP and crypto helpers, install scripts, admin page, build scripts, vendored QR code | `src/auth.ts`, `src/http.ts`, `src/crypto.ts`, `src/install.ts`, `public/`, `scripts/` | none, or a signed cookie | not modelled |

### 1.2 How they interact

An administrator's request commits its change and a `reconcile_queue` row per
affected agent in one D1 batch (a batch is one transaction), then publishes in
the same invocation: for each agent it reads the configuration, inserts a
revision, points `desired_revision` at it and deletes the queue row, one D1 call
after the other. Cron does the same for rows that are left. An agent polls
every 60 seconds: it reports the revision in its `.revision` file, is sent the
target if the control plane believes in another one, applies it and reports the
result. A subscription offers a VPS when its `current_revision` equals its
`desired_revision` and it is neither a draft nor retiring. An installer
registers with a ticket and a claim it keeps on disk, so that it may repeat a
request whose answer it has lost.

Before it polls, the agent renews the certificates listed beside the running
release, restarts sing-box if one changed, and starts cloudflared unless the
process named in its pid file still is one. What it listens on is compiled from
the profile; what clients dial is rendered from the same profile by other code.
The install command fixes mode, ingress and tunnel of the VPS, and later edits
must keep to them. A minimal VPS has no agent: a script installs it once and
reports once.

### 1.3 What is hard

* **Interleaving.** Two invocations of the Worker overlap between any two D1
  calls: publishers of one agent, registrations under one or two tickets, a
  deletion and a registration.
* **Stale reads.** Agents affected by an edit, the snapshot of a configuration
  and the agent a node had are read before the batch that relies on them.
* **Crashes.** An invocation may end at any D1 call; the agent and its VPS may
  stop between any two system calls of a switch; an installer may die anywhere.
* **Messages.** Requests and answers are lost, late or repeated; a report may
  arrive after the target has moved.
* **Failing steps.** One call of a sequence fails after others have changed
  links, directories or rows; a restart fails, and so may that of the rollback.
* **Liveness.** Every edit must reach its VPS, although Cron takes four rows at a
  time and some profiles never compile; alerts must come, and go.
* **Two sides of one text.** Server and clients are configured by different
  functions, per type, ingress and format; what validation lets pass, both must
  be able to run.
* **Processes.** A pid file outlives its process, and a process its parent; an
  upgrade and the loop of the agent handle the same cloudflared.

`PROJECT.json` lists each hazard at its line with the properties about it.

## 2. The modules

Each module names the code it models in its header, and `PROJECT.json` maps each
definition to its lines. Operators whose comment says "Mutant of ..." are
plausible bugs; no action uses them. For every property there is one that
breaks it.

### 2.1 Publication: what publishing promises

A queue row is a promise: the change that made it is not forgotten before a
revision that contains it exists. State: the present version of every agent's
configuration, the newest version in a revision, and whether the promise is
pending. Changing makes it pending, building a revision covers the present
version, and settling is allowed only when it is covered. It says nothing of
invocations, operations, snapshots or D1 calls.

### 2.2 Reconcile: publishing in D1

State: the rows that matter (`stage`, `draft`, `desired`, group membership, the
queue, the revisions) and one `work` record per Worker invocation with its place
between two D1 calls. A configuration is abstracted to the version numbers of
its inputs: the node's own, and those of its groups. Every commit takes a fresh
`lastOp`, the model of `crypto.randomUUID()`.

Actions: `BeginNode`, `BeginGroup`, `BeginRegroup`, `FindNodes`, `BeginPublish`
(what a request reads before its commit), `Commit` or `Refuse` (too many
agents), `Register`, `EnqueueOwn`, `CronTick`, then `ReadConfig`,
`InsertRevision`, `PointAgent`, `FinishReconcile` or `RecordFailure` per agent;
`RollbackAgent` and `DeleteVps`; `Crash` and `D1Error` at every place.
`publishAgents` stops at the first error, `reconcilePending` records it and
goes on (`Throw`).

Not kept: what is compiled, telemetry columns, the limits of 200 rows.

### 2.3 ConfigSync: from an edit to the VPS and back

EXTENDS Reconcile with the agents. State of the control plane: `current`,
`failed` (is `last_error` set), the deletions that have passed their check, and
two history variables (`edited`, `retired`). State of the VPS: `marked`
(`.revision`) and `doing` (its place in the poll loop). Between them `net`, the
calls under way in either direction; a call the agent has given up stays there
and may be handled later. `syncAgent` is two actions (`StoreReport`, the batch;
`AnswerState`, the SELECTs), since the target may move in between. Applying is
one step that succeeds or fails: its inside is ReleaseSwitch.

### 2.4 ReleaseSwitch: the A/B switch on one VPS

State: the two release directories and the bootstrap content by what they hold,
the links `current` and `previous` and the runtime path, `.revision`, what
sing-box has loaded, and the locals of `apply`. Every system call that changes
the disk is an action, so that a crash can fall between any two of them;
`CallFails` and `RestartFails` are the error paths. A revision is good, refused by
`sing-box check`, or fails only after its restart (`Valid`, `Runnable`). `Repair`
is `nodemanage-agent repair`. The control plane is reduced to a target that may
change to any revision, and loses answers (`Lost`). The history variable `returned`
says that after a fault the target went back to the revision the control plane last
heard of, for which it sends nothing.

### 2.5 Enrollment: tickets, claims and registrations

State: ticket, agent and node rows, one `job` per handler under way, one `run`
per installer, claim and configuration files, and the messages between them.
Handlers read and write in the steps of `registerAgent`: select the ticket, claim
it, select an existing agent, select the old agent, and the batch. Installers
repeat a request while it fails (`MaxTries`), keep their claim on disk, and may
die between any two steps.

### 2.6 Profiles: what both sides make of a protocol

Pure operators, no variables. A protocol is type, port, edge port, path and
domain. One half is the rules of `src/domain.ts` and `src/api.ts` 123-201 (which
ports and types go together, which need root, which need a certificate), the other
`compileServerProfiles` against the renderers of `src/subscriptions.ts`, both
reduced to a `Shape` (protocol, login, security, transport) and an address.
`ReachesDirect` and `ReachesTunnel` say when a client gets through; they stand for
sing-box, cloudflared and Cloudflare's edge and are external.

### 2.7 Deployment: one VPS from its form to its clients

EXTENDS Profiles. State: the node with its profile, the install commands that
are about, the agents by their ids and the revisions and the queue row of the present
one, one `job` per `updateVps` or `registerAgent` between two of its D1 calls, and
the machine with what the command line fixed, the running revision, the
certificates and the list the agent renews. An update remembers the agent it saw:
its batch queues that one, and fails on the foreign key if it has been deleted
(`RefuseUpdate`). A registration replaces agent, revisions and queue row in one
batch (`WriteRegister`) and queues the new agent in a later call
(`EnqueueRegistered`); a request may die between any two (`Die`). Publication and a
whole poll (probe, `syncAgent`, apply, result) are one step each here, Reconcile and
ConfigSync having them in pieces: the stale target of `reconcile_stale_target` is
outside what `OfferedReaches` says. So is a quick tunnel that is started
again under another name, for that name is a constant. A new installation starts
without certificates, as on a wiped machine. The history variables `overlapped`,
`lost`, `fresh` and `rolledBack` name the exceptions of the properties.

### 2.8 MinimalVps: a VPS without an agent

State: the node, its tickets, requests between two D1 calls (`updateVps` reads,
writes, and then creates a ticket in a second batch; `minimalComplete` reads, and
writes without a condition), the scripts on the VPS, and by mode the configuration
on disk and the one that runs: a script run by root and one run by a user install
side by side and neither stops the other. `Restart` stops the old sing-box first;
the new one may find its port taken or fail, which ends the script or goes
unnoticed. A sing-box may end by itself, a reboot stops all, and a service manager
may start them again (`Starts`) or not. `crossed` and `crowded` remember that two
requests, or two scripts, were at work at one time. A deleted node (`Deleted`) takes its tickets
along; a batch that comes after it changes nothing or fails at a foreign key.

### 2.9 Monitoring: what the administrator is told

State: `last_seen` (recent or older than five minutes), `last_error`,
`install_stage`, the status of each kind of alert, the queue row with its
`attempts`, one request and one Cron invocation between their D1 calls, and the
agent, up or silent. Edits store a good profile, one the agent refuses, or one
that does not compile. Reports may be lost or late. Setting a target clears `last_error`,
as `createRevisionForAgent` does.

### 2.10 Upkeep: the agent's own processes

State: per domain the certificate on disk, the backoff and whether sing-box has
loaded it; the place of the agent in its loop; the pid file, the processes behind
the pids and the place of an upgrade. Between two system calls on the tunnel the
agent or the VPS may die, cloudflared may die, a pid may be given to another
process, and an upgrade may stop the tunnel. `systemd` chooses whether an init
system restarts the agent and ends its children; OpenRC counts as standalone,
for it does neither. A signalled process is gone at once. `missed` and `torn`
remember the cases that section 3.3 names.

### 2.11 MC and proof modules

`MCReconcile`, `MCReleaseSwitch`, `MCEnrollment` and `MCMinimalVps` add symmetry
sets, which only safety runs use; `MCMinimalVps` also lists the runtimes an
administrator chooses (443 for target a, 2008 for a and for b), and
`MCDeployment` the forms that are submitted. `MCConfigSync`, `MCMonitoring` and
`MCUpkeep` only name what a run checks. `ReconcileProofs` (with the refinement of
Publication), `ConfigSyncProofs`, `ReleaseProofs`, `EnrollmentProofs`,
`DeploymentProofs` (with the lemmas about Profiles), `MinimalVpsProofs`,
`MonitoringProofs` and `UpkeepProofs` hold the theorems.

## 3. What is checked

### 3.1 Runs that hold

| Run | Bounds | Shows |
|---|---|---|
| `reconcile_overlap` | 1 agent, 1 group, 2 invocations, 2 operations, 1 crash or error, 1 rollback | no change is forgotten (`NothingLost`), whoever still owns the queue row holds a fresh snapshot (`SnapshotFresh`), targets exist (`TargetIsOwn`), the promise of Publication is kept (`PromiseKept`) |
| `reconcile_alone` | 2 agents, 1 group, 1 invocation at a time, 4 operations, 1 crash, Cron limit 1, one agent that never compiles | without overlap, an agent with no queue row has its present configuration as target (`TargetIsCurrent`); Cron is fair (`QueueServed`) |
| `sync_alone` | 1 agent, 1 invocation at a time, 3 operations, 1 crash, 1 rollback, 1 network or agent trouble, one version that no agent can apply | an offered VPS runs its target (`OfferedIsApplied`) with the last edit (`OfferedHasEdit`); retirement is safe without crashes (`CarefulRetirement`); edits arrive (`EditsArrive`) |
| `release_apply` | 4 revisions (two good, one refused, one failing), 2 faults, 4 targets | only checked configurations are loaded, reports are earned, rollbacks are exact, faultless switches are all or nothing, after one fault an agent comes to run and report a settled target for good, unless the target went back to the revision last reported (`OneFaultConverges`) |
| `enrollment_races` | 2 machines, 2 tickets (one may expire), 2 handlers, 3 claims, 3 installer runs, 1 loss, 1 crash, 1 deletion | one agent and one machine per ticket, credentials that were granted last |
| `enrollment_alone` | 1 machine, 2 tickets, 1 handler, 2 losses, 1 crash, 1 deletion | no orphaned agents; an installer gets its credentials |
| `deployment` | 1 VPS; every type alone, two pairs with Shadowsocks, one or two tunnel protocols, 4 ports, 2 hosts; 7 edits of which 2 are made, 2 handlers, 2 commands, 2 installations, 2 rollbacks | every entry of every format finds its inbound (`OfferedReaches`), inbounds do not collide (`InboundsDisjoint`), the row keeps to what was installed (`StoredFitsAgent`), certificates stay listed (`CertificatesKept`), an installed draft is in the queue or about to be, unless its registration died or an edit was for another agent (`EditsOwed`) |
| `minimal` | 1 VPS, runtimes that differ in port or handshake server, 2 handlers, 2 scripts at a time and in all, 1 edit, 1 more ticket, 1 fault, any restart may fail, any number of reboots | what is offered is installed and nothing else runs in its place (`OfferedIsInstalled`), ok means offered (`ToldIsOffered`) |
| `monitoring` | 1 VPS, 3 kinds of profile, 1 request beside Cron, small budgets of edits, outages and faults | attempts are earned (`AttemptsEarned`), lasting trouble is alerted (`TroubleIsAlerted`), calm returns (`CalmReturns`) |
| `upkeep` | 2 domains, 4 pids, 1 certificate due, 2 revisions, 1 upgrade, 1 fault; with and without systemd | renewed certificates are loaded (`RenewedIsLoaded`), one cloudflared of the right version (`OneTunnel`), the tunnel returns (`TunnelReturns`) |

**Why the bounds suffice.** The races are between two actors and one change or
message, and each run has two of them where the question is one of
overlap. Agents share nothing but the Cron limit and groups; the run that asks
about these has two agents and a limit of one. An A/B switch
knows an old, a new and a spare content; four revisions cover every kind in
every position, and four targets let one revision return after
another. The limits of the budgets (`MaxOps`, `MaxFaults`, `MaxRollbacks`,
`MaxTroubles`, `MaxChanges`, `MaxLosses`, `MaxCrashes`, `MaxDeletes`, `MaxTries`,
`MaxRuns`, `MaxEdits`, `MaxCommands`, `MaxInstalls`, `MaxRollbacks`, `MaxTickets`,
`MaxScripts`, `MaxOutages`, `MaxDue`, `MaxRevisions`, `MaxUpgrades`) stand in guards; `MaxTries` models the installer's own limit with a
smaller number. The theorems of section 4 hold for all values of all of them.
In `deployment` an edit that was checked can be followed by a second one and by a
second installation, which is what the races between the two need; protocols are
judged one by one and in pairs, so that pairs suffice. In `upkeep` one of
each trouble falls into every place of the loop, and two domains let one fail
while the other is renewed.

**Symmetry** is used only in runs without liveness, over handlers, invocations,
tickets, machines and claims that the modules treat alike.

**Deadlock** is switched off where the budgets end all activity, which the real
system may reach as well (no request, an empty queue). `upkeep` checks it: the
agent's loop always has a next step.

### 3.2 Fairness

* A Worker invocation that has begun takes its next D1 call (weak fairness of
  `Publishing` and `Publish`): the runtime drives an awaited call to its end, and
  `Crash` and `D1Error` model when it does not.
* Cron ticks again and again (strong fairness, since in the model an
  invocation must be free to run it): `wrangler.jsonc` schedules it every five
  minutes.
* An agent polls for ever (`run` is an endless loop; a dead one is restarted by
  its init system) and a call that reached the Worker is served.
* In Monitoring an agent that is up polls, time passes for a silent one, Cron
  runs every five minutes, and a request that has begun goes on or ends. That an
  agent comes back is not fair: `TroubleIsAlerted` and `CalmReturns` say what
  follows if it stays away, or stays.
* In Upkeep the loop goes on while the agent runs and an upgrade comes to its end;
  a dead agent is started again only by systemd (`Restart=always`).
  `TunnelReturns` is about an agent that runs again and again.
* Administrators, deletions, rollbacks, faults and losses have no fairness.

### 3.3 Where the code and its documentation disagree

Two runs each state what a document says and end in a counterexample.

* `reconcile_stale_target`: a Cron tick with an old snapshot is overtaken by an
  edit and writes its older revision as target last (`src/api.ts` 280). The queue
  is empty, so nothing repairs it until the next edit.
* `release_wedged`: two crashes leave `current` dangling, and
  `ensureReleaseLayout` then refuses every later apply (`agent/main.go` 449).

Five more claims stand in the modules as properties that no run checks, because
the code does not keep them; naming one in the .cfg given with it shows how.

* `NobodyMissed` (`ReconcileOverlap.cfg` with `MaxRollbacks = 0`): a VPS registers
  between the SELECT that finds the agents of an edit and its commit
  (`src/api.ts` 461), and the edit has no queue row.
* `RetirementIsSafe` (`SyncAlone.cfg`): the request that retires a VPS dies between
  commit and publish (`src/api.ts` 662); a second DELETE finds the revisions equal
  and deletes a VPS that serves its users.
* `ErrorsClear` (`SyncAlone.cfg`): a late report of a failure sets `last_error`
  after the same revision has been applied and confirmed (`src/api.ts` 914), and
  only the next publish (279) or success clears it: until then the `config_failed`
  alert stays open. A success report that is lost after a failure does the same.
  `CalmReturns` excepts both until the next publish or success, and no longer.
* `OldTicketsDead` (`EnrollmentAlone.cfg`): `registerAgent` does not look at
  `used_at`, so a superseded ticket still works for its 15 minutes
  (`src/api.ts` 714).
* `OfferedIsProbed` (`Deployment.cfg`): a poll probes the tunnel of the running
  configuration, reports it as verified, and applies a newer one in the same
  poll; until the next poll subscriptions offer paths that no probe has tried
  (`docs/production-runbook.md` 55).

Met while modelling, without a run of their own:

* Applying a revision whose directory is the running one removes it first
  (`agent/main.go` 369), so `current` dangles until the switch is done.
* An apply repeated after a crash records the release that then fails as
  `previous` (`agent/main.go` 377): its rollback goes back to that release.
* `repair` writes the bootstrap configuration and keeps `.revision`
  (`agent/installer.go` 350), so an agent can report a revision it does not run.
* A `registerAgent` that dies before `publishAgents` leaves an agent without a
  queue row (`src/api.ts` 766); a repeated request is answered from the tables (734)
  and does not queue it either. `EditsOwed` excepts it.
* An agent that crashes between truncating and writing `.revision`
  (`agent/main.go` 391) runs a release it cannot name. If the target goes back to the
  revision the control plane heard of last, it has nothing to send
  (`src/api.ts` 891), and the other one runs on. `OneFaultConverges` excepts it.
* A minimal VPS is offered whether its sing-box runs or not: a failed restart has
  stopped the old one (`src/minimal-install.ts` 103), OpenRC is not asked whether the
  new one runs, and without a service manager nothing starts it after a reboot
  (112). `OfferedIsInstalled` says what is installed, and that no other runtime runs
  in its place.
* `setEnabled` never sets `draft`, and `rollbackAgent` leaves it at 0: a VPS may be
  offered with a configuration that lacks an edit. `OfferedHasEdit` is about the
  commits that do set it, and is stated up to the first rollback.
* `rollbackAgent` of a retiring VPS brings back a target with users, which passes
  the check of the second DELETE (`src/api.ts` 662, 691); `CarefulRetirement`
  excludes it.
* An edit checked while no agent is installed is written after one has
  registered (`src/api.ts` 430, 458): a user agent can be given a profile that
  needs root, and the edit has no queue row. `StoredFitsAgent` excepts
  registrations that cross another request, `EditsOwed` edits that were written for
  another agent than the node's, until the next revision or registration.
* `minimalComplete` writes without looking again at what it read (`src/api.ts`
  500): with a crossing edit the node is offered with a runtime that is not
  installed. When an edit takes the node from root to a user or back, the old
  installation goes on running and may hold the port; the property is about the one
  of the mode the node is offered with.
* A renewed certificate is not loaded if another domain of the pass has none
  (`agent/main.go` 158), if the restart fails (163), if the directory of old ones
  cannot be read (`agent/certificate.go` 291), if the agent dies before the
  restart, or if the revision that asked for it is refused; it is loaded at the
  next restart of sing-box, whoever causes it.
* An agent that dies between starting cloudflared and writing its pid leaves a
  second one (`agent/tunnel.go` 87), unless systemd ends it; so does an upgrade that
  stops the tunnel while the loop starts one. An upgrade that fails at sing-box has
  replaced cloudflared and does not restart it (`agent/installer.go` 488): the next
  upgrade finds equal versions, and the old process goes on.
* `stopTunnel` signals the process in the pid file whatever it is
  (`agent/tunnel.go` 46). `uninstall` does not call it.
* A direct profile on TCP port 80 passes validation beside certificates whose
  issue needs that port, and two VPSes of one name get the same tags in a
  subscription. Neither is modelled.

## 4. What is proved

TLAPS proves each of these for every value of the constants. Assumed are the
named `ASSUME`s about constants in the modules, which TLC evaluates. Three
theorems also assume `Alone`: the set of invocations that may be in flight at one
time has one member at most. Three others are about every behaviour, overlapping
or not, in which a certain step is never taken: setting a target from a
configuration that has changed since it was read (`[][FreshPoints]_vars`).
Every safety property that a run checks has its theorem.

| Theorem | Says |
|---|---|
| `ReconcileProofs!TypeCorrect` | `[]TypeOK` |
| `ReconcileProofs!OperationPinsSnapshot` | `[]SnapshotFresh`, any number of overlapping publishers |
| `ReconcileProofs!UpdatesAreNotLost` | `[]NothingLost` |
| `ReconcileProofs!TargetsExist` | `[]TargetIsOwn` |
| `ReconcileProofs!PublicationRefined` | Reconcile implements Publication |
| `ReconcileProofs!FreshTargetsAreCurrent` | `[](rollbacks = 0 => TargetIsCurrent)`, any overlap in which targets are set fresh |
| `ReconcileProofs!TargetsAreCurrent` | `[](rollbacks = 0 => TargetIsCurrent)`, one invocation at a time |
| `ConfigSyncProofs!DeliveryIsPublishing` | a behaviour of ConfigSync is one of Reconcile |
| `ConfigSyncProofs!DeliveryTypes` | `[]SyncTypeOK` |
| `ConfigSyncProofs!OfferedHasApplied` | `[]OfferedIsApplied`, any number of overlapping publishers |
| `ConfigSyncProofs!FreshTargetsHaveEdits` | `[]OfferedHasEdit`, any overlap in which targets are set fresh |
| `ConfigSyncProofs!SettledVpsRunsPresent` | `[]SettledRunsPresent`: a settled VPS runs what the tables stand for now; any overlap in which targets are set fresh |
| `ConfigSyncProofs!OfferedHasLastEdit` | `[]OfferedHasEdit`, one invocation at a time |
| `ConfigSyncProofs!RetirementsAreCareful` | `[]CarefulRetirement`, one invocation at a time |
| `ReleaseProofs!TypeCorrect`, `ChecksAreNotSkipped`, `ReportsAreEarned`, `RollbackIsExact`, `SwitchIsAtomic` | the safety properties of the switch |
| `EnrollmentProofs!TypeCorrect`, `TicketsMakeOneAgent`, `TicketsServeOneHost`, `CredentialsLast`, `SequentialLeavesNoOrphans` | the safety properties of registration |
| `DeploymentProofs!TypeCorrect`, `PortsNeverMeet`, `LocksAreEnough`, `CertificatesStayListed`, `DraftsAreOwed`, `EntriesReach` | all properties of Deployment, for any set of bodies that the parsers let through |
| `MinimalVpsProofs!Typed`, `OfferedInstalled`, `ToldOffered` | all properties of MinimalVps |
| `MonitoringProofs!TypeCorrect`, `AttemptsCount` | the invariants of Monitoring |
| `UpkeepProofs!CertificatesLoaded`, `TunnelIsOne` | the invariants of Upkeep |

**Reconcile.** `SnapshotFresh` is not inductive: a queue row could carry an
operation that a later commit draws again, and then an old snapshot would own the
row. `OpsBelow` says that every operation in a row or in an invocation is below
`lastOp`, so a fresh one pins nothing older. `NothingLost` then follows at the one
step that deletes a row, `FinishReconcile`: its operation still owns the row, so
its snapshot is the present configuration, and the revision built of it exists.
`TargetIsCurrent` is false of overlapping publishers (`reconcile_stale_target`), and
the theorems say what makes it so. In the counterexample `PointAgent` sets the target to a revision
of a configuration that was changed after it was read. `FreshPoints` says that no
step does that; it leaves open how invocations overlap, and under it the
claim holds. It is not inductive: a publisher may delete the row after another one
has replaced its target. `HeldIsCurrent` says that as long as it holds the operation of the row,
the target, whoever set it, is current; every commit ends that by drawing a new
operation. Under `Alone` nothing changes between read and point (`TurnInv`), so
every point is fresh and `TargetsAreCurrent` follows. This one step is what a repair of
`createRevisionForAgent` has to prevent.
For `TargetIsOwn` an invocation between insert and point must hold a row of its
own agent, and ids stay unique because a new one exceeds `lastRev`.

**Publication.** The mapping reads "covered" off the revisions and "pending" off
the queue. Each action of Reconcile is a step of Publication or leaves the mapped
variables alone; `FinishReconcile` uses `NothingLost`'s strengthening.

**ConfigSync.** SyncSpec implies Reconcile's Spec, so its invariants carry over.
`OfferedIsApplied` needs three facts about the past. `OneCall`: an agent has at most one
live call and waits for no other, so it never applies while an answer is
on its way. `Unseen`: until the first rollback a target that is still to be set
was never sent to, marked by, or reported for the agent; ids only grow. So a late call can
only speak of targets that were, and moves `current` to the present one only if the claim is true (`Truthful`). After a
rollback an old report may name the present target again: the property really
ends there, and says so.

The other two compare what the VPS runs with versions of its node, so a revision
must still be known by its id when it has travelled: whatever an agent has marked,
applies or is told is the row of that id, or a row that has been deleted
(`Genuine`), and none is of a profile that does not compile. When targets are set
fresh, whoever clears `draft` sets a target with the last edit (`DraftsLast`), which
is `OfferedHasEdit`. As soon as the queue is done with a VPS and the two ids agree,
the present configuration, the target and the revision that the VPS has marked are the
same (`SettledRunsPresent`): that joins `TargetIsCurrent`, `Truthful` and `Genuine` and is the
safety half of `EditsArrive`.

For `CarefulRetirement`, a retired VPS has a target without users or the request that
retired it is still publishing it (`RetiredServed`): the plan of that request names one
node and queues its agent (`PlansOneNode`), and the request stops only by pointing it
or by dying, which the property excepts. Here `Alone` is needed for more than fresh
targets: the check of the second DELETE must run when no publisher does, so the target
has been reached; by `Truthful` it is applied and nothing else is on its way to the
VPS, and until the deletion only the target can be sent (`DeletingSafely`).

**ReleaseSwitch.** The invariant ties each place of `apply` to what the directory
under construction and the links hold; `CheckedOnly` adds that whatever is
reachable through the runtime path, or may become so by a rollback, passed its checks.

**Enrollment.** The invariant follows a claim from the installer's disk through
messages and jobs to the ticket and the agent row: each names the same agent,
`Id(ticket, claim)`, and a claim lies on one machine only. `NoOrphans` has the premise of
a single handler; with two it is false (hazards at `src/api.ts` 650 and 735).

**Deployment.** Half of the proof is about single bodies: what
`DeploymentPortsValid` accepts gives inbounds that can all be listened for
(`PortsDisjoint`), and in each format a client speaks the language of its inbound,
through the tunnel too (`DirectShapes`, `TunnelShapes`). The forms are a constant, of
which `ConstantsAssumption` says what the parsers let through: known policies, modes
and types, ports from 1 to 65535, a tunnel kind exactly with a tunnel. The other half follows checked bodies through time. A request
writes what it validated against a row it read earlier. Unless a
registration crossed it, the agent is the one it saw (`SeenAgent`) and the row it
saw fits that agent (`SeenFits`); as validation lets no installed VPS change what
its command fixed, what it writes fits as well (`NodeFits`). `EditsOwed` follows the
registration from its batch to the queue row: a draft without a row is that of a
job still to write it (`Enqueuing`), or `lost`, which only `Die` and an update for an
agent it had not seen make true. `CertificatesKept` and `OfferedReaches`
need that the desired revision is built of the row while no draft is open
(`NewestIsRow`), and the quick tunnel that its verified name is in the row
(`QuickKnown`).

**MinimalVps.** `OfferedIsInstalled` depends on what is still under way. While
no writes crossed and scripts did not meet, a script with an unused ticket was fetched
for the row as it is, or the batch that uses up its ticket is still to come
(`TicketFresh`); the same holds of a report between its SELECT and its batch
(`CompleteFresh`), whose write would then meet that batch. What a script put on disk it has started or
stopped before it reports, and nothing but scripts writes the files (`Holds`): so in
each mode what runs is what the last script installed, or nothing, however restarts
fail. Steps that leave a mode alone keep it (`Same`). An edit judges what
changed from a row nobody has written since (`ReadFresh`); that equal ports and
handshake servers are equal runtimes, and that a row is no mark of its absence, is
`ConstantsAssumption`.

**Monitoring.** `AttemptsEarned` needs that an invocation which may book a failure
on an operation it did not read has not done so yet (`Booked`).

**Upkeep.** What sing-box lacks was renewed in the pass that is under way or in one that gave
up (`Lacking`), and `changed` is FALSE outside of passes. A cloudflared that runs
is in the pid file or is the one just started (`Known`), and `ensureTunnel` starts one
only when there is no file (`FileGone`).

**Only model-checked.** Liveness (`QueueServed`, `OneFaultConverges`,
`EnrollmentCompletes`, `EditsArrive`, `TroubleIsAlerted`, `CalmReturns`,
`TunnelReturns`), as TLAPS proves neither fairness arguments nor ENABLED. What the
cardinality bounds (`CronLimit`, `MaxAffected`) are for is liveness and request
size, and no theorem depends on their values.

## 5. What is not modelled, and the plan

Not modelled because there is little state to check: sessions, parsing, the
text around the entries of a subscription, install scripts, most of the admin
page, telemetry. Their outputs enter the models, where they matter, as versions
or as free choices. Third-party and generated code is left out. Of the installer,
downloads, backups, service files and `uninstall` are sequences of file
operations that nothing runs beside; the limits of 200 nodes and groups, the
rate limit and the deletion of old rows are left out.

Smaller simplifications: Enrollment's `DeleteBatch` does not fail on revisions that an
orphaned agent still has (`src/api.ts` 666); in Reconcile `DeleteVps` and
`RollbackAgent` take their SELECTs and their batch as one step, and `Register` does not
replace an agent, which Enrollment and Deployment model.

Next are, in this order:

1. Theorems like those under `FreshPoints` for the other claims that hold only
   without overlap: the steps that `CarefulRetirement` and the `NoOrphans` of
   Enrollment need to be excluded.
2. The invariants on which the liveness properties rest (who still owes a step when
   nothing is settled), as safety theorems of their own.

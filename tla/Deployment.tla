------------------------------ MODULE Deployment ------------------------------
(***************************************************************************)
(* One managed VPS from createVps to the entries its clients get: what the *)
(* administrator may submit (createVps, updateVps), the install commands   *)
(* handed out, registerAgent, publication, the agent's poll with its       *)
(* tunnel probe and its apply, rollbackAgent and the subscription.         *)
(*                                                                         *)
(* updateVps and registerAgent read the node in one D1 call and write it   *)
(* in a later one, and registerAgent writes its queue row in a third; each *)
(* call is an action, and a request may die between any two.  Publication  *)
(* and the messages of a poll are taken in one step here: modules          *)
(* Reconcile and ConfigSync look into those.                               *)
(***************************************************************************)
EXTENDS Profiles, Sequences

CONSTANTS
  Bodies,        \* what createVps may be asked for
  Edits,         \* what updateVps may be asked for
  Handlers,      \* updateVps and registerAgent requests worked on at one time
  QuickHost,     \* the name Cloudflare gives a quick tunnel
  None,
  MaxEdits,      \* bound: updateVps requests
  MaxCommands,   \* bound: tickets created after the first
  MaxInstalls,   \* bound: registrations
  MaxRollbacks   \* bound: rollbackAgent requests

VARIABLES
  \* D1
  node,       \* the row of nodes with its profile
  commands,   \* install commands that may still be run, as showInstall printed them
  revisions,  \* rows of revisions of the present agent
  agents,     \* ids of the rows of agents
  agent,      \* nodes.agent_id, 0 for NULL
  desired,    \* agents.desired_revision of that agent, 0 for NULL
  owed,       \* that agent has a row in reconcile_queue
  job,        \* job[h]: an updateVps or registerAgent request between D1 calls
  \* the VPS
  machine,    \* the installed agent with its sing-box and its certificates
  \* history and bounds
  overlapped, \* a registration was worked on together with another request
  lost,       \* nobody is told of the newest configuration: see WriteUpdate and Die
  rolledBack, \* the desired revision was set by rollbackAgent
  fresh,      \* the agent was installed by a command that matched the node
  probed,     \* what the last poll probed with success
  edits, issues, installs, rollbacks

tables  == <<node, commands, revisions, agents, agent, desired, owed>>
history == <<overlapped, lost, rolledBack, fresh, probed>>
bounds  == <<edits, issues, installs, rollbacks>>
vars    == <<tables, job, machine, history, bounds>>

-----------------------------------------------------------------------------
(* Types                                                                    *)

Modes == {"system", "user"}
Policies == Modes \cup {"auto"}
Ingresses == {"direct", "cloudflare_tunnel"}
Kinds == {"none", "quick", "named"}
PortNumbers == 1..65535
Hosts == {b.host : b \in Bodies \cup Edits} \cup {"", QuickHost}
Paths == {p.path : p \in UNION {b.protocols : b \in Bodies \cup Edits}} \cup {""}

\* What the parsers let through of a request: deploymentPolicy, ingressMode,
\* tunnelKind and the ports of parseProfileSettings.
Requests ==
  [policy : Policies, ingress : Ingresses, kind : Kinds, host : Hosts, origin : Nat,
   protocols : SUBSET [type : PROFILE_TYPES, port : PortNumbers, edge : Nat, path : Paths]]

Protocols ==
  [type : PROFILE_TYPES, port : PortNumbers, edge : Nat, path : Paths, domain : Domains \cup {""}]
Rows ==
  [policy : Policies, ingress : Ingresses, kind : Kinds, host : Hosts, origin : Nat,
   protocols : SUBSET Protocols, mode : Modes,
   status : {"configured", "pending", "connected", "verified"}, draft : BOOLEAN]
Commands == [policy : Policies, ingress : Ingresses, kind : Kinds, origin : Nat, host : Hosts]
Machines ==
  [mode : Modes, ingress : Ingresses, kind : Kinds, origin : Nat, host : Hosts, running : Nat,
   certificates : SUBSET (Domains \cup {""}), required : SUBSET (Domains \cup {""})]
Jobs ==
  [op : {"idle"}]
    \cup [op : {"update"}, body : Edits, row : Rows, agent : Nat]
    \cup [op : {"register"}, command : Commands, mode : Modes, id : Nat \ {0}, old : Nat]
    \cup [op : {"enqueue"}, agent : Nat \ {0}]

\* A tunnel has a kind and a direct entry has none.
ASSUME ConstantsAssumption ==
  /\ Bodies \cup Edits \subseteq Requests
  /\ \A body \in Bodies \cup Edits : Tunnelled(body.ingress) <=> body.kind # "none"
  /\ None \notin Rows \cup Machines

-----------------------------------------------------------------------------
(* The node row                                                             *)

\* deployment_mode before an agent decides it.
ModeFor(policy, ingress, protocols) ==
  IF policy # "auto" THEN policy
  ELSE IF requiresSystemDeployment(ingress, protocols) THEN "system" ELSE "user"

\* The row createVps and updateVps write for a body; status and mode differ.
Row(body, host, status, mode) ==
  [policy |-> body.policy, ingress |-> body.ingress, kind |-> body.kind, host |-> host,
   origin |-> IF Tunnelled(body.ingress) THEN body.origin ELSE 0,
   protocols |-> submittedProtocols(body, host), mode |-> mode, status |-> status, draft |-> TRUE]

\* showInstall: what of the row the install command repeats.
Command(row) ==
  [policy |-> row.policy, ingress |-> row.ingress, kind |-> row.kind, origin |-> row.origin,
   host |-> IF row.kind = "named" THEN row.host ELSE ""]

\* The row still says what the command said.
Matches(command, row) == command = Command(row)

Revision(row) == [protocols |-> row.protocols, ingress |-> row.ingress]
Inbounds(revision) == compileServerProfiles(revision.protocols, revision.ingress)
DomainsOf(revision) == {in.domain : in \in Inbounds(revision)} \ {""}

NoJob == [op |-> "idle"]
Updating(body, row, seen) == [op |-> "update", body |-> body, row |-> row, agent |-> seen]
Registering(command, mode, id, old) ==
  [op |-> "register", command |-> command, mode |-> mode, id |-> id, old |-> old]
Enqueuing(id) == [op |-> "enqueue", agent |-> id]

Init ==
  /\ node = None /\ commands = {} /\ revisions = <<>>
  /\ agents = {} /\ agent = 0 /\ desired = 0 /\ owed = FALSE
  /\ job = [h \in Handlers |-> NoJob]
  /\ machine = None
  /\ overlapped = FALSE /\ lost = FALSE /\ rolledBack = FALSE /\ fresh = TRUE /\ probed = {}
  /\ edits = 0 /\ issues = 0 /\ installs = 0 /\ rollbacks = 0

-----------------------------------------------------------------------------
(* createVps, updateVps and the install command                             *)

\* A quick tunnel keeps the host the node has; a new node has none.
HostOf(body, present) == IF body.kind = "quick" THEN present ELSE body.host

createVps(body) ==
  /\ node = None
  /\ LET host == IF body.kind = "quick" THEN "" ELSE body.host
         row  == Row(body, host, IF Tunnelled(body.ingress) THEN "pending" ELSE "configured",
                     ModeFor(body.policy, body.ingress, submittedProtocols(body, host)))
     IN  /\ BodyValid(body, host, body.origin)
         /\ node' = row
         /\ commands' = {Command(row)}
  /\ UNCHANGED <<revisions, agents, agent, desired, owed, job, machine, history, bounds>>

\* vpsInstall; the tickets before stay usable, see module Enrollment.
vpsInstall ==
  /\ node # None /\ issues < MaxCommands /\ issues' = issues + 1
  /\ commands' = commands \cup {Command(node)}
  /\ UNCHANGED <<node, revisions, agents, agent, desired, owed, job, machine, history, edits,
                 installs, rollbacks>>

\* What updateVps refuses to change once an agent is installed.
Locked(row, body, host) ==
  /\ body.policy = row.policy /\ body.ingress = row.ingress /\ body.kind = row.kind
  /\ Tunnelled(body.ingress) => host = row.host /\ body.origin = row.origin

\* Mutant of UpdateValid: the mode of an installed agent is not looked at.
UpdateValidUnmoded(row, installed, body) ==
  LET host == HostOf(body, row.host)
  IN  BodyValid(body, host, body.origin) /\ (installed => Locked(row, body, host))

\* The checks of updateVps against the row it read.
UpdateValid(row, installed, body) ==
  LET host == HostOf(body, row.host)
  IN  /\ BodyValid(body, host, body.origin)
      /\ installed => /\ Locked(row, body, host)
                      /\ DeploymentPortsValid(row.mode, body.ingress, submittedProtocols(body, host))

\* The first D1 call of updateVps, and the checks that follow from it.
ReadForUpdate(h, body) ==
  /\ job[h] = NoJob /\ node # None /\ edits < MaxEdits /\ edits' = edits + 1
  /\ UpdateValid(node, agent # 0, body)
  /\ job' = [job EXCEPT ![h] = Updating(body, node, agent)]
  /\ UNCHANGED <<tables, machine, history, issues, installs, rollbacks>>

\* A registration and another request are in flight.
Overlap(h) ==
  \E g \in Handlers \ {h} :
    job[g].op \in {"update", "register"} /\ "register" \in {job[g].op, job[h].op}

\* What updateVps makes of the row it read and of the body.
Updated(update) ==
  LET body == update.body
      seen == update.row
      host == HostOf(body, seen.host)
  IN  Row(body, host, IF ~Tunnelled(body.ingress) THEN "configured"
                      ELSE IF seen.host # "" THEN "connected" ELSE "pending",
          IF update.agent # 0 THEN seen.mode
          ELSE ModeFor(body.policy, body.ingress, submittedProtocols(body, host)))

\* Mutant of WriteUpdate: nothing is enqueued for the agent.
WriteUpdateSilently(h) ==
  /\ job[h].op = "update"
  /\ node' = Updated(job[h])
  /\ overlapped' = (overlapped \/ Overlap(h))
  /\ lost' = (lost \/ job[h].agent # agent)
  /\ job' = [job EXCEPT ![h] = NoJob]
  /\ UNCHANGED <<commands, revisions, agents, agent, desired, owed, machine, rolledBack, fresh,
                 probed, bounds>>

\* The batch of updateVps.  The queue row is for the agent it saw: if that one
\* is not the agent of the node, the newest configuration is lost on this one.
WriteUpdate(h) ==
  /\ job[h].op = "update" /\ job[h].agent \in agents \cup {0}
  /\ node' = Updated(job[h])
  /\ owed' = (owed \/ (agent # 0 /\ job[h].agent = agent))
  /\ overlapped' = (overlapped \/ Overlap(h))
  /\ lost' = (lost \/ job[h].agent # agent)
  /\ job' = [job EXCEPT ![h] = NoJob]
  /\ UNCHANGED <<commands, revisions, agents, agent, desired, machine, rolledBack, fresh, probed,
                 bounds>>

\* The agent it saw is deleted: the queue row breaks its foreign key, the batch
\* is rolled back and the request fails.
RefuseUpdate(h) ==
  /\ job[h].op = "update" /\ job[h].agent \notin agents \cup {0}
  /\ job' = [job EXCEPT ![h] = NoJob]
  /\ UNCHANGED <<tables, machine, history, bounds>>

-----------------------------------------------------------------------------
(* registerAgent                                                            *)

\* The install command is run as root or as a user, and the agent registers:
\* the ticket, the profile and the agent to be replaced are read and checked.
ReadForRegister(h, command, mode) ==
  /\ job[h] = NoJob /\ command \in commands /\ installs < MaxInstalls /\ installs' = installs + 1
  /\ command.policy # "auto" => mode = command.policy
  /\ node.policy # "auto" => mode = node.policy
  /\ DeploymentPortsValid(mode, node.ingress, node.protocols)
  /\ job' = [job EXCEPT ![h] = Registering(command, mode, installs', agent)]
  /\ commands' = commands \ {command}
  /\ UNCHANGED <<node, revisions, agents, agent, desired, owed, machine, history, edits, issues,
                 rollbacks>>

\* Mutant of NewAgent: the old agent's row is kept for the new one.
NewAgentInRow == revisions' = <<>> /\ UNCHANGED desired

\* The row inserted for the agent; the old agent is deleted with its revisions
\* and its queue row.
NewAgent == revisions' = <<>> /\ desired' = 0

\* The batch: a new agent takes the node, with nothing queued yet; the installer
\* writes its configuration from the command line.
WriteRegister(h) ==
  /\ job[h].op = "register"
  /\ LET command == job[h].command
     IN  /\ machine' = [mode |-> job[h].mode, ingress |-> command.ingress, kind |-> command.kind,
                        origin |-> command.origin,
                        host |-> IF command.kind = "quick" THEN QuickHost ELSE command.host,
                        running |-> 0, certificates |-> {}, required |-> {}]
         /\ fresh' = Matches(command, node)
  /\ node' = [node EXCEPT !.mode = job[h].mode]
  /\ agents' = (agents \ {job[h].old}) \cup {job[h].id}
  /\ agent' = job[h].id
  /\ NewAgent
  /\ owed' = FALSE /\ lost' = FALSE
  /\ rolledBack' = FALSE /\ probed' = {}
  /\ overlapped' = (overlapped \/ Overlap(h))
  /\ job' = [job EXCEPT ![h] = Enqueuing(job[h].id)]
  /\ UNCHANGED <<commands, bounds>>

\* The first statement of publishAgents after the batch.  The row of an agent
\* that has lost the node meanwhile is refused or never comes to a revision.
EnqueueRegistered(h) ==
  /\ job[h].op = "enqueue"
  /\ owed' = (owed \/ job[h].agent = agent)
  /\ job' = [job EXCEPT ![h] = NoJob]
  /\ UNCHANGED <<node, commands, revisions, agents, agent, desired, machine, history, bounds>>

\* The node has no revision of its newest configuration.
Unpublished == node.draft \/ desired = 0

\* An invocation ends between two D1 calls, or the next call fails.  After the
\* batch of a registration nothing remembers the agent.
Die(h) ==
  /\ job[h] # NoJob
  /\ lost' = (lost \/ (job[h] = Enqueuing(agent) /\ ~owed /\ Unpublished))
  /\ job' = [job EXCEPT ![h] = NoJob]
  /\ UNCHANGED <<tables, machine, overlapped, rolledBack, fresh, probed, bounds>>

-----------------------------------------------------------------------------
(* Publication, rollback and the poll                                       *)

\* publishAgents after its first statement, or Cron with the row of the queue.
Publish ==
  /\ owed
  /\ revisions' = Append(revisions, Revision(node))
  /\ desired' = Len(revisions')
  /\ node' = [node EXCEPT !.draft = FALSE]
  /\ owed' = FALSE /\ rolledBack' = FALSE /\ lost' = FALSE
  /\ UNCHANGED <<commands, agents, agent, job, machine, overlapped, fresh, probed, bounds>>

rollbackAgent(r) ==
  /\ rollbacks < MaxRollbacks /\ rollbacks' = rollbacks + 1
  /\ r \in 1..Len(revisions) /\ r # desired
  /\ desired' = r
  /\ rolledBack' = TRUE
  /\ UNCHANGED <<node, commands, revisions, agents, agent, owed, job, machine, overlapped, lost,
                 fresh, probed, edits, issues, installs>>

Running == IF machine.running = 0 THEN {} ELSE Inbounds(revisions[machine.running])

\* probeTunnel for every path of websocketPaths: the router finds a loopback
\* inbound that answers without TLS.
Probes ==
  IF Tunnelled(machine.ingress)
    THEN {[host |-> machine.host, path |-> in.path] : in \in {i \in Running : i.shape.transport = "ws"}}
    ELSE {}

Verified == Probes # {} /\ \A in \in Running : in.shape.transport = "ws" => in.loopback

\* ingress_status of syncAgent; tunnels run and their probes fail only for
\* want of an inbound.
StatusAfterSync ==
  CASE ~Tunnelled(node.ingress) /\ node.host # ""        -> "configured"
    [] Tunnelled(node.ingress) /\ Verified               -> "verified"
    [] Tunnelled(node.ingress) /\ ~Verified /\ Tunnelled(machine.ingress) -> "connected"
    [] OTHER                                             -> "pending"

\* apply: certificates only for root, no low port for a user, and `sing-box
\* check` opens every certificate the configuration names.
Applies(revision, required) ==
  /\ required # {} => machine.mode = "system"
  /\ machine.mode = "user" => \A in \in Inbounds(revision) : ~Privileged(in.port)
  /\ DomainsOf(revision) \subseteq machine.certificates \cup required

\* Mutant of Required: certificates the machine has are not listed again.
RequiredNew == certificateRequirements(node.protocols, node.ingress) \ machine.certificates

\* certificateRequirementsForAgent: from the profile as it is, not the revision.
Required == certificateRequirements(node.protocols, node.ingress)

\* One poll: probe, syncAgent, apply of what it answered, agentResult.
Poll ==
  /\ machine # None
  /\ node' = [node EXCEPT !.status = StatusAfterSync,
                          !.host = IF node.kind = "quick" /\ machine.kind = "quick" THEN machine.host ELSE @]
  /\ probed' = IF Verified THEN Probes ELSE {}
  /\ machine' = IF /\ desired \notin {0, machine.running}
                   /\ Applies(revisions[desired], Required)
                  THEN [machine EXCEPT !.running = desired, !.required = Required,
                                       !.certificates = @ \cup Required]
                  ELSE machine
  /\ UNCHANGED <<commands, revisions, agents, agent, desired, owed, job, overlapped, lost,
                 rolledBack, fresh, bounds>>

Next ==
  \/ \E body \in Bodies : createVps(body)
  \/ vpsInstall
  \/ \E h \in Handlers, body \in Edits : ReadForUpdate(h, body)
  \/ \E h \in Handlers : WriteUpdate(h) \/ RefuseUpdate(h)
  \/ \E h \in Handlers, command \in commands, mode \in Modes : ReadForRegister(h, command, mode)
  \/ \E h \in Handlers : WriteRegister(h) \/ EnqueueRegistered(h) \/ Die(h)
  \/ Publish
  \/ \E r \in DOMAIN revisions : rollbackAgent(r)
  \/ Poll

Spec == Init /\ [][Next]_vars

-----------------------------------------------------------------------------
(* Properties                                                               *)

\* What the subscription handler finds for this node.
Offered ==
  /\ node # None /\ machine # None
  /\ ~node.draft /\ node.host # ""
  /\ node.status = (IF Tunnelled(node.ingress) THEN "verified" ELSE "configured")
  /\ desired # 0 /\ machine.running = desired

\* The agent was installed by a command that said what the node said, and no
\* registration crossed another request.
Orderly == machine # None /\ fresh /\ ~overlapped

\* The row, the commands, the agent and the requests are well typed, and the
\* desired and the running revision are revisions of the agent.
TypeOK ==
  /\ node \in Rows \cup {None}
  /\ commands \subseteq Commands
  /\ revisions \in Seq([protocols : SUBSET Protocols, ingress : Ingresses])
  /\ desired \in 0..Len(revisions)
  /\ agents \subseteq Nat /\ agent \in agents \cup {0} /\ (agent = 0 <=> machine = None)
  /\ owed \in BOOLEAN /\ (owed => agent # 0) /\ installs \in Nat
  /\ overlapped \in BOOLEAN /\ lost \in BOOLEAN /\ rolledBack \in BOOLEAN /\ fresh \in BOOLEAN
  /\ job \in [Handlers -> Jobs]
  /\ machine \in Machines \cup {None}
  /\ machine # None => machine.running <= Len(revisions)

\* Every entry a subscription offers, in each of the formats, is answered by an
\* inbound of its protocol on the VPS: directly, or through the edge, the tunnel
\* and the router (api.ts:919 and subscriptions.ts against domain.ts:228 and
\* tunnel.go:99).
OfferedReaches ==
  Offered /\ Orderly /\ ~rolledBack =>
    \A format \in FORMATS : \A entry \in Entries(format, node) :
      IF Tunnelled(node.ingress) THEN ReachesTunnel(entry, machine.kind, machine.host, Running)
      ELSE ReachesDirect(entry, Running)

\* sing-box can open every port of every revision: no two inbounds meet on one
\* network, nor an inbound and the tunnel router of the agent (api.ts:131).
InboundsDisjoint ==
  \A r \in DOMAIN revisions :
    LET inbounds == Inbounds(revisions[r])
    IN  /\ \A a, b \in inbounds : a # b /\ a.port = b.port => Listens(a) \cap Listens(b) = {}
        /\ Orderly => \A a \in inbounds : a.port # machine.origin

\* What the install command fixed on the VPS is what the control plane goes on
\* to store and to publish for: the mode the agent runs in, the ingress, the
\* tunnel's host and port; the check of one request is not undone by another
\* (the locks and the second check of updateVps, api.ts:440 to 455 and 721).
StoredFitsAgent ==
  Orderly =>
    /\ node.ingress = machine.ingress /\ node.kind = machine.kind /\ node.origin = machine.origin
    /\ node.kind = "named" => node.host = machine.host
    /\ node.mode = machine.mode /\ node.policy \in {"auto", machine.mode}
    /\ machine.mode = "user" =>
         \A r \in DOMAIN revisions : ~requiresSystemDeployment(revisions[r].ingress, revisions[r].protocols)

\* Once the newest configuration runs, its certificates are there and on the
\* list the agent renews, although the list is made from the profile and the
\* configuration from the revision (api.ts:893).
CertificatesKept ==
  machine # None /\ machine.running # 0 /\ machine.running = desired /\ ~node.draft /\ ~rolledBack =>
    DomainsOf(revisions[desired]) \subseteq machine.certificates \cap machine.required

\* An installed VPS without a revision of its newest configuration is owed one:
\* its agent is in the queue, or the request that registered it is about to put
\* it there (api.ts:461 and 767).  There are two exceptions and no third: that
\* request died first, or an edit was written for an agent it had not seen.
\* Each lasts until the next revision or registration only.
EditsOwed ==
  agent # 0 /\ Unpublished /\ ~lost =>
    owed \/ \E h \in Handlers : job[h] = Enqueuing(agent)

\* A claim the code does not keep, left for whoever mends syncAgent (api.ts:872).
\* What a subscription says of a tunnel was probed (src/docs/production-runbook.md:49).
OfferedIsProbed ==
  Offered /\ Orderly /\ Tunnelled(node.ingress) =>
    \A entry \in Entries("uri", node) : [host |-> entry.at.server, path |-> entry.at.path] \in probed
=============================================================================

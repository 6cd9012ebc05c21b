--------------------------- MODULE DeploymentProofs ---------------------------
(***************************************************************************)
(* Proofs about Profiles and Deployment, for every set of bodies that      *)
(* passes the parsers, any number of requests worked on at one time and    *)
(* without the bounds of the model checker.                                *)
(*                                                                         *)
(* The first part is about single bodies: what validation promises of the  *)
(* inbounds, and that each subscription format speaks the language of its  *)
(* inbound.  The second follows these promises through time.  A request    *)
(* writes what it checked against an older row; as long as no registration *)
(* crossed it the agent is the one it saw (SeenAgent), and the row it saw  *)
(* fits that agent (SeenFits), so what it writes fits as well.             *)
(***************************************************************************)
EXTENDS Deployment, TLAPS

\* The row says of the agent what the agent was installed with.
Fits(row, vps) ==
  /\ row.ingress = vps.ingress /\ row.kind = vps.kind /\ row.origin = vps.origin
  /\ row.kind = "named" => row.host = vps.host
  /\ row.mode = vps.mode /\ row.policy \in {"auto", vps.mode}

\* What BodyValid leaves behind in a row.
RowValid(row) ==
  /\ DeploymentPortsValid(row.policy, row.ingress, row.protocols)
  /\ Tunnelled(row.ingress) <=> row.kind # "none"
  /\ IF Tunnelled(row.ingress) THEN TunnelValid(row.kind, row.origin, row.protocols) ELSE row.origin = 0
  /\ \A p \in row.protocols :
       p.domain # "" => ~Tunnelled(row.ingress) /\ p.type \in ACME_PROFILE_TYPES

\* There is a node as soon as anything refers to it.
NodeFirst ==
  node = None => /\ commands = {} /\ machine = None /\ revisions = <<>>
                 /\ \A h \in Handlers : job[h] = NoJob

NodeValid == node # None => RowValid(node)

Checked == \A h \in Handlers : job[h].op = "update" => UpdateValid(job[h].row, job[h].agent # 0, job[h].body)

\* A request that no registration crossed saw the agent there is.
SeenAgent == \A h \in Handlers : job[h].op = "update" /\ ~overlapped => job[h].agent = agent

SeenFits ==
  \A h \in Handlers : job[h].op = "update" /\ job[h].agent # 0 /\ Orderly => Fits(job[h].row, machine)

NodeFits == Orderly => Fits(node, machine)

\* A registration goes by the profile as it is.
RegisterChecked ==
  \A h \in Handlers : job[h].op = "register" =>
    /\ job[h].command.policy # "auto" => job[h].mode = job[h].command.policy
    /\ ~overlapped => DeploymentPortsValid(job[h].mode, node.ingress, node.protocols)

\* Nothing that only root can serve is stored for an agent without root.
Rootless ==
  Orderly /\ machine.mode = "user" =>
    /\ ~requiresSystemDeployment(node.ingress, node.protocols)
    /\ \A r \in DOMAIN revisions : ~requiresSystemDeployment(revisions[r].ingress, revisions[r].protocols)

\* The desired revision is built of the row, unless an edit or a rollback came after.
NewestIsRow ==
  node # None /\ ~node.draft /\ ~rolledBack /\ desired # 0 => revisions[desired] = Revision(node)

\* A quick tunnel that a poll found working has told the row its name.
QuickKnown ==
  Orderly /\ node.kind = "quick" /\ node.status = "verified" /\ machine.running # 0 => node.host = machine.host

IInv ==
  /\ TypeOK
  /\ NodeFirst
  /\ NodeValid
  /\ Checked
  /\ SeenAgent
  /\ SeenFits
  /\ NodeFits
  /\ RegisterChecked
  /\ Rootless
  /\ InboundsDisjoint
  /\ NewestIsRow
  /\ QuickKnown
  /\ CertificatesKept
  /\ EditsOwed
-----------------------------------------------------------------------------
(* The rules of Profiles                                                    *)

\* In every format a client of a direct protocol speaks what its inbound speaks.
LEMMA DirectShapes ==
  ASSUME NEW type \in PROFILE_TYPES, NEW format \in FORMATS, NEW ingress, ~Tunnelled(ingress)
  PROVE  ClientShape(format, type) = ServerShape(type, ingress)
  <1>1. singOutbound(type) = ServerShape(type, ingress)
    BY DEF singOutbound, ServerShape, Tunnelled, PROFILE_TYPES
  <1>2. mihomoProxy(type) = ServerShape(type, ingress)
    BY DEF mihomoProxy, ServerShape, Tunnelled, PROFILE_TYPES, TUNNEL_PROFILE_TYPES
  <1>3. uri(type) = ServerShape(type, ingress)
    BY DEF uri, ServerShape, Tunnelled, PROFILE_TYPES
  <1>4. QED
    BY <1>1, <1>2, <1>3 DEF ClientShape

\* Behind a tunnel the client speaks TLS to the edge, and the inbound the same
\* protocol over a websocket without it.
LEMMA TunnelShapes ==
  ASSUME NEW type \in TUNNEL_PROFILE_TYPES, NEW format \in FORMATS, NEW ingress, Tunnelled(ingress)
  PROVE  /\ ClientShape(format, type).security = "tls"
         /\ ServerShape(type, ingress) = [ClientShape(format, type) EXCEPT !.security = "none"]
         /\ ServerShape(type, ingress).transport = "ws"
  <1>1. ClientShape(format, type) =
          Shape(IF type = "vless-tls-websocket" THEN "vless" ELSE "trojan",
                IF type = "vless-tls-websocket" THEN "uuid" ELSE "password", "tls", "ws")
    <2>1. CASE type = "vless-tls-websocket"
      BY <2>1 DEF ClientShape, singOutbound, mihomoProxy, uri, TUNNEL_PROFILE_TYPES
    <2>2. CASE type = "trojan-tls-websocket"
      BY <2>2 DEF ClientShape, singOutbound, mihomoProxy, uri, TUNNEL_PROFILE_TYPES
    <2>3. QED
      BY <2>1, <2>2 DEF TUNNEL_PROFILE_TYPES
  <1>2. ServerShape(type, ingress) =
          Shape(IF type = "vless-tls-websocket" THEN "vless" ELSE "trojan",
                IF type = "vless-tls-websocket" THEN "uuid" ELSE "password", "none", "ws")
    BY DEF ServerShape, TUNNEL_PROFILE_TYPES
  <1>3. QED
    BY <1>1, <1>2 DEF Shape

\* sing-box listens on the networks that validation counts with.
LEMMA ListensAsCounted ==
  ASSUME NEW type \in PROFILE_TYPES, NEW ingress, NEW in, in.shape = ServerShape(type, ingress)
  PROVE  Listens(in) = profileNetworks(type)
  BY DEF Listens, profileNetworks, ServerShape, Shape, PROFILE_TYPES

\* What passed validateDeploymentPorts, in whatever mode, can all be listened for.
LEMMA PortsDisjoint ==
  ASSUME NEW mode, NEW ingress, NEW protocols, \A p \in protocols : p.type \in PROFILE_TYPES,
         DeploymentPortsValid(mode, ingress, protocols),
         NEW a \in compileServerProfiles(protocols, ingress),
         NEW b \in compileServerProfiles(protocols, ingress), a # b, a.port = b.port
  PROVE  Listens(a) \cap Listens(b) = {}
  <1>1. PICK p \in protocols :
          /\ a.shape = ServerShape(p.type, ingress) /\ a.port = p.port
          /\ a = [shape |-> ServerShape(p.type, ingress), port |-> p.port, path |-> p.path, domain |-> p.domain,
                  loopback |-> Tunnelled(ingress)]
    BY DEF compileServerProfiles
  <1>2. PICK q \in protocols :
          /\ b.shape = ServerShape(q.type, ingress) /\ b.port = q.port
          /\ b = [shape |-> ServerShape(q.type, ingress), port |-> q.port, path |-> q.path, domain |-> q.domain,
                  loopback |-> Tunnelled(ingress)]
    BY DEF compileServerProfiles
  <1>3. p # q /\ p.port = q.port
    BY <1>1, <1>2
  <1>4. ~Tunnelled(ingress) /\ ~Clash(p, q)
    BY <1>3 DEF DeploymentPortsValid, Distinct
  <1>5. Listens(a) = profileNetworks(p.type) /\ Listens(b) = profileNetworks(q.type)
    BY <1>1, <1>2, ListensAsCounted
  <1>6. QED
    BY <1>3, <1>4, <1>5 DEF Clash

\* What may run without root needs no root.
LEMMA UserNeedsNoRoot ==
  ASSUME NEW ingress, NEW protocols, DeploymentPortsValid("user", ingress, protocols)
  PROVE  ~requiresSystemDeployment(ingress, protocols)
  BY DEF DeploymentPortsValid, requiresSystemDeployment

\* What is stored of a submitted protocol.
LEMMA StoredProtocols ==
  ASSUME NEW body \in Requests, NEW host, NEW p \in submittedProtocols(body, host)
  PROVE  /\ p.type \in PROFILE_TYPES /\ p.port \in PortNumbers /\ p.edge \in Nat /\ p.path \in Paths
         /\ p.domain # "" => ~Tunnelled(body.ingress) /\ p.type \in ACME_PROFILE_TYPES
         /\ p \in [type : PROFILE_TYPES, port : PortNumbers, edge : Nat, path : Paths, domain : {host, ""}]
  <1>1. PICK q \in body.protocols : p = parseProfileSettings(q, body.ingress, host)
    BY DEF submittedProtocols
  <1>2. q \in [type : PROFILE_TYPES, port : PortNumbers, edge : Nat, path : Paths]
    BY DEF Requests
  <1> DEFINE edge == IF Tunnelled(body.ingress) THEN q.edge ELSE 0
             path == IF q.type \in TUNNEL_PROFILE_TYPES THEN q.path ELSE ""
             domain == IF ~Tunnelled(body.ingress) /\ q.type \in ACME_PROFILE_TYPES THEN host ELSE ""
  <1>3. p = [type |-> q.type, port |-> q.port, edge |-> edge, path |-> path, domain |-> domain]
    BY <1>1 DEF parseProfileSettings
  <1>4. edge \in Nat /\ path \in Paths /\ domain \in {host, ""}
    BY <1>2 DEF Paths
  <1>5. domain # "" => ~Tunnelled(body.ingress) /\ q.type \in ACME_PROFILE_TYPES
    OBVIOUS
  <1> HIDE DEF edge, path, domain
  <1>6. QED
    BY <1>2, <1>3, <1>4, <1>5
\* The certificates a stored configuration names are those the profile requires.
LEMMA DomainsRequired ==
  ASSUME NEW row, RowValid(row)
  PROVE  DomainsOf(Revision(row)) \subseteq certificateRequirements(row.protocols, row.ingress)
  <1>1. \A d \in DomainsOf(Revision(row)) : d # "" /\ \E p \in row.protocols : p.domain = d
    <2>1. Inbounds(Revision(row)) = compileServerProfiles(row.protocols, row.ingress)
      BY DEF Inbounds, Revision
    <2>2. \A in \in compileServerProfiles(row.protocols, row.ingress) : \E p \in row.protocols : p.domain = in.domain
      BY DEF compileServerProfiles
    <2>3. QED
      BY <2>1, <2>2 DEF DomainsOf
  <1>2. QED
    BY <1>1 DEF RowValid, certificateRequirements

\* A body that passed validation makes a well-typed, valid row.
LEMMA RowOfBody ==
  ASSUME NEW body \in Bodies \cup Edits, NEW host \in Hosts, BodyValid(body, host, body.origin),
         NEW status \in {"configured", "pending", "connected", "verified"}, NEW mode \in Modes,
         NEW row, row = Row(body, host, status, mode)
  PROVE  row \in Rows /\ row # None /\ RowValid(row)
  <1> DEFINE protocols == submittedProtocols(body, host)
  <1>1. body \in Requests /\ (Tunnelled(body.ingress) <=> body.kind # "none")
    BY ConstantsAssumption
  <1>2. \A p \in protocols : p.domain # "" => ~Tunnelled(body.ingress) /\ p.type \in ACME_PROFILE_TYPES
    BY <1>1, StoredProtocols
  <1>3. \A p \in protocols : p.domain \in Domains \cup {""}
    BY <1>2 DEF BodyValid, certificateRequirements
  <1>4. protocols \subseteq Protocols
    <2> SUFFICES ASSUME NEW p \in protocols PROVE p \in Protocols
      OBVIOUS
    <2>1. p \in [type : PROFILE_TYPES, port : PortNumbers, edge : Nat, path : Paths, domain : {host, ""}]
      BY <1>1, StoredProtocols
    <2>2. QED
      BY <2>1, <1>3 DEF Protocols
  <1>5. /\ body.policy \in Policies /\ body.ingress \in Ingresses /\ body.kind \in Kinds /\ body.origin \in Nat
    BY <1>1 DEF Requests
  <1>6. /\ DeploymentPortsValid(body.policy, body.ingress, protocols)
        /\ Tunnelled(body.ingress) => TunnelValid(body.kind, body.origin, protocols)
    BY DEF BodyValid
  <1> DEFINE origin == IF Tunnelled(body.ingress) THEN body.origin ELSE 0
  <1> HIDE DEF protocols, origin
  <1>7. row = [policy |-> body.policy, ingress |-> body.ingress, kind |-> body.kind, host |-> host,
               origin |-> origin, protocols |-> protocols, mode |-> mode, status |-> status, draft |-> TRUE]
    BY DEF Row, protocols, origin
  <1>8. row \in Rows
    BY <1>4, <1>5, <1>7 DEF Rows, origin
  <1>9. /\ row.policy = body.policy /\ row.ingress = body.ingress /\ row.kind = body.kind
        /\ row.origin = origin /\ row.protocols = protocols
    BY <1>7
  <1>10. RowValid(row)
    BY <1>1, <1>2, <1>6, <1>9 DEF RowValid, origin
  <1>11. QED
    BY <1>8, <1>10, ConstantsAssumption

\* What an install command repeats of a row.
LEMMA CommandType == \A row \in Rows : Command(row) \in Commands
  <1> SUFFICES ASSUME NEW row \in Rows PROVE Command(row) \in Commands
    OBVIOUS
  <1> DEFINE host == IF row.kind = "named" THEN row.host ELSE ""
  <1>1. host \in Hosts
    BY DEF Rows, Hosts
  <1>2. Command(row) = [policy |-> row.policy, ingress |-> row.ingress, kind |-> row.kind,
                        origin |-> row.origin, host |-> host]
    BY DEF Command
  <1> HIDE DEF host
  <1>3. QED
    BY <1>1, <1>2 DEF Rows, Commands

\* deployment_mode is always one of the two.
LEMMA ModeForType ==
  ASSUME NEW policy \in Policies, NEW ingress, NEW protocols
  PROVE  ModeFor(policy, ingress, protocols) \in Modes
  BY DEF ModeFor, Policies, Modes

-----------------------------------------------------------------------------
(* Steps                                                                    *)

\* The conjuncts of IInv that do not look into the requests worked on.
Settled == NodeValid /\ NodeFits /\ Rootless /\ InboundsDisjoint /\ NewestIsRow /\ QuickKnown
             /\ CertificatesKept

\* The row, the agent and what is between them; what only the first D1 call of
\* a request and a new install command leave alone.
Lasting == <<node, revisions, agents, agent, desired, owed, machine, history>>

LEMMA SettledStays == IInv /\ UNCHANGED Lasting => Settled'
  <1> SUFFICES ASSUME IInv, UNCHANGED Lasting PROVE Settled'
    OBVIOUS
  <1> USE DEF IInv, Lasting, history, Orderly
  <1>1. NodeValid' /\ NodeFits' /\ QuickKnown'
    BY DEF NodeValid, NodeFits, QuickKnown
  <1>2. Rootless'
    BY DEF Rootless
  <1>3. InboundsDisjoint'
    BY DEF InboundsDisjoint
  <1>4. NewestIsRow' /\ CertificatesKept'
    BY DEF NewestIsRow, CertificatesKept
  <1>5. QED
    BY <1>1, <1>2, <1>3, <1>4 DEF Settled

\* What a job is, by its op.
LEMMA JobOps ==
  /\ NoJob.op = "idle"
  /\ \A id : Enqueuing(id).op = "enqueue" /\ Enqueuing(id).agent = id
  BY DEF NoJob, Enqueuing

\* A step that leaves the queue and the requests about to enqueue alone.
LEMMA OwedStays ==
  ASSUME IInv, agent' = agent, owed' = owed, lost' = lost, Unpublished' => Unpublished,
         \A g \in Handlers : job[g] = Enqueuing(agent) => job'[g] = job[g]
  PROVE  EditsOwed'
  BY DEF IInv, EditsOwed

\* createVps: there was nothing before.
LEMMA CreateStep ==
  ASSUME IInv, NEW body \in Bodies, createVps(body)
  PROVE  IInv'
  <1> DEFINE host == IF body.kind = "quick" THEN "" ELSE body.host
             status == IF Tunnelled(body.ingress) THEN "pending" ELSE "configured"
             mode == ModeFor(body.policy, body.ingress, submittedProtocols(body, host))
  <1>1. /\ commands = {} /\ machine = None /\ revisions = <<>> /\ \A h \in Handlers : job[h] = NoJob
    BY DEF createVps, IInv, NodeFirst
  <1>2. host \in Hosts /\ mode \in Modes
    <2>1. body.policy \in Policies
      BY ConstantsAssumption DEF Requests
    <2>2. QED
      BY <2>1, ModeForType DEF Hosts
  <1>3. BodyValid(body, host, body.origin) /\ node' = Row(body, host, status, mode) /\ commands' = {Command(node')}
    BY DEF createVps
  <1>4. UNCHANGED <<revisions, agents, agent, desired, owed, job, machine, history, installs>>
    BY DEF createVps, bounds
  <1> HIDE DEF host, mode
  <1>5. node' \in Rows /\ node' # None /\ RowValid(node') /\ node'.draft = TRUE
    <2>1. body \in Bodies \cup Edits /\ status \in {"configured", "pending", "connected", "verified"}
      OBVIOUS
    <2> HIDE DEF status
    <2>2. node' \in Rows /\ node' # None /\ RowValid(node')
      BY <1>2, <1>3, <2>1, RowOfBody
    <2>3. QED
      BY <1>3, <2>2 DEF Row
  <1>6. commands' \subseteq Commands
    BY <1>3, <1>5, CommandType
  <1>7. TypeOK'
    BY <1>4, <1>5, <1>6 DEF IInv, TypeOK, history
  <1>8. NodeFirst' /\ NodeValid'
    BY <1>5 DEF NodeFirst, NodeValid
  <1>9. \A h \in Handlers : job'[h].op = "idle"
    BY <1>1, <1>4 DEF NoJob
  <1>10. Checked' /\ SeenAgent' /\ SeenFits' /\ RegisterChecked'
    BY <1>9 DEF Checked, SeenAgent, SeenFits, RegisterChecked
  <1>11. ~Orderly' /\ DOMAIN revisions' = {}
    BY <1>1, <1>4 DEF Orderly
  <1>12. NodeFits' /\ Rootless' /\ InboundsDisjoint' /\ QuickKnown'
    BY <1>11 DEF NodeFits, Rootless, InboundsDisjoint, QuickKnown
  <1>13. NewestIsRow' /\ CertificatesKept' /\ EditsOwed'
    BY <1>1, <1>4, <1>5 DEF NewestIsRow, CertificatesKept, EditsOwed, IInv, TypeOK
  <1>14. QED
    BY <1>7, <1>8, <1>10, <1>12, <1>13 DEF IInv

\* vpsInstall adds a command for the row as it is.
LEMMA InstallStep == IInv /\ vpsInstall => IInv'
  <1> SUFFICES ASSUME IInv, vpsInstall PROVE IInv'
    OBVIOUS
  <1>1. UNCHANGED <<job, Lasting, installs>> /\ node # None /\ commands' = commands \cup {Command(node)}
    BY DEF vpsInstall, Lasting
  <1>2. Settled'
    BY <1>1, SettledStays
  <1>3. TypeOK'
    BY <1>1, CommandType DEF IInv, TypeOK, Lasting, history
  <1>4. NodeFirst'
    BY <1>1 DEF NodeFirst, Lasting
  <1>5. Checked' /\ SeenAgent' /\ SeenFits' /\ RegisterChecked'
    BY <1>1 DEF IInv, Lasting, history, Checked, SeenAgent, SeenFits, RegisterChecked, Orderly
  <1>6. EditsOwed'
    BY <1>1, OwedStays DEF Lasting, history, Unpublished
  <1>7. QED
    BY <1>2, <1>3, <1>4, <1>5, <1>6 DEF Settled, IInv

\* The first call of updateVps remembers the row and whether there is an agent.
LEMMA ReadUpdateStep ==
  ASSUME IInv, NEW h \in Handlers, NEW body \in Edits, ReadForUpdate(h, body)
  PROVE  IInv'
  <1> DEFINE new == Updating(body, node, agent)
  <1>1. /\ UNCHANGED <<commands, Lasting, installs>> /\ node # None /\ UpdateValid(node, agent # 0, body)
        /\ job' = [job EXCEPT ![h] = new] /\ job[h] = NoJob
    BY DEF ReadForUpdate, tables, Lasting
  <1>2. /\ new \in Jobs /\ new.op = "update" /\ new.body = body /\ new.row = node
        /\ new.agent = agent
    <2>1. agent \in Nat /\ node \in Rows
      BY <1>1 DEF IInv, TypeOK
    <2>2. QED
      BY <2>1 DEF Updating, Jobs
  <1> HIDE DEF new
  <1>3. \A g \in Handlers : job'[g] = IF g = h THEN new ELSE job[g]
    BY <1>1 DEF IInv, TypeOK
  <1>4. Settled'
    BY <1>1, SettledStays
  <1>5. TypeOK'
    BY <1>1, <1>2 DEF IInv, TypeOK, Lasting, history
  <1>6. NodeFirst'
    BY <1>1 DEF NodeFirst, Lasting
  <1>7. Checked'
    BY <1>1, <1>2, <1>3 DEF IInv, Checked
  <1>8. SeenAgent'
    BY <1>1, <1>2, <1>3 DEF IInv, SeenAgent, Lasting, history
  <1>9. SeenFits'
    BY <1>1, <1>2, <1>3 DEF IInv, SeenFits, NodeFits, Orderly, Lasting, history
  <1>10. RegisterChecked'
    BY <1>1, <1>2, <1>3 DEF IInv, RegisterChecked, Lasting, history
  <1>11. EditsOwed'
    BY <1>1, <1>3, OwedStays, JobOps DEF Lasting, history, Unpublished
  <1>12. QED
    BY <1>4, <1>5, <1>6, <1>7, <1>8, <1>9, <1>10, <1>11 DEF Settled, IInv

\* The batch of updateVps: unless a registration crossed it, the row it read
\* fits the agent there is, and so does the one it writes.
LEMMA WriteUpdateStep ==
  ASSUME IInv, NEW h \in Handlers, WriteUpdate(h)
  PROVE  IInv'
  <1> DEFINE body == job[h].body
             seen == job[h].row
             installed == job[h].agent # 0
             host == HostOf(body, seen.host)
             status == IF ~Tunnelled(body.ingress) THEN "configured"
                       ELSE IF seen.host # "" THEN "connected" ELSE "pending"
             mode == IF installed THEN seen.mode
                     ELSE ModeFor(body.policy, body.ingress, submittedProtocols(body, host))
  <1>1. job[h].op = "update" /\ node' = Row(body, host, status, mode)
    BY DEF WriteUpdate, Updated
  <1>2. /\ overlapped' = (overlapped \/ Overlap(h)) /\ owed' = (owed \/ (agent # 0 /\ job[h].agent = agent))
        /\ lost' = (lost \/ job[h].agent # agent)
    BY Zenon DEF WriteUpdate
  <1>3. /\ UNCHANGED <<commands, revisions, agents, agent, desired, machine, rolledBack, fresh, installs>>
        /\ job' = [job EXCEPT ![h] = NoJob]
    BY DEF WriteUpdate, bounds
  <1>4. body \in Edits /\ seen \in Rows /\ installed \in BOOLEAN /\ UpdateValid(seen, installed, body)
    BY <1>1 DEF IInv, TypeOK, Jobs, Checked
  <1>5. \A g \in Handlers : job'[g] = IF g = h THEN NoJob ELSE job[g]
    BY <1>3 DEF IInv, TypeOK
  <1>6. node # None
    <2>1. node = None => job[h] = NoJob
      BY DEF IInv, NodeFirst
    <2>2. job[h].op = "update" /\ NoJob.op = "idle"
      BY <1>1 DEF NoJob
    <2>3. QED
      BY <2>1, <2>2
  <1>7. body \in Requests /\ host \in Hosts /\ status \in {"configured", "pending", "connected", "verified"}
    BY <1>4, ConstantsAssumption DEF Hosts, HostOf, Rows
  <1>8. mode \in Modes
    <2>1. body.policy \in Policies /\ seen.mode \in Modes
      BY <1>4, <1>7 DEF Requests, Rows
    <2>2. QED
      BY <2>1, ModeForType
  <1>9. BodyValid(body, host, body.origin)
    BY <1>4 DEF UpdateValid
  <1> HIDE DEF host, status, mode
  <1>10. node' \in Rows /\ node' # None /\ RowValid(node')
    <2>1. body \in Bodies \cup Edits
      BY <1>4
    <2> HIDE DEF body
    <2>2. QED
      BY <1>1, <1>7, <1>8, <1>9, <2>1, RowOfBody
  <1>11. /\ node'.policy = body.policy /\ node'.ingress = body.ingress /\ node'.kind = body.kind
         /\ node'.host = host /\ node'.mode = mode /\ node'.draft = TRUE
         /\ node'.origin = (IF Tunnelled(body.ingress) THEN body.origin ELSE 0)
         /\ node'.protocols = submittedProtocols(body, host)
    BY <1>1 DEF Row
  <1>12. body.kind = "quick" => node'.status # "verified"
    <2>1. body.kind = "quick" => Tunnelled(body.ingress)
      BY <1>4, ConstantsAssumption
    <2>2. QED
      BY <1>1, <2>1 DEF Row, status
  <1>13. TypeOK'
    <2>1. job' \in [Handlers -> Jobs]
      BY <1>3 DEF IInv, TypeOK, Jobs, NoJob
    <2>2. overlapped' \in BOOLEAN /\ owed' \in BOOLEAN /\ lost' \in BOOLEAN /\ (owed' => agent' # 0)
      BY <1>2, <1>3 DEF IInv, TypeOK
    <2>3. QED
      BY <1>3, <1>10, <2>1, <2>2 DEF IInv, TypeOK
  <1>14. NodeFirst' /\ NodeValid'
    BY <1>10 DEF NodeFirst, NodeValid
  <1>15. Checked'
    BY <1>5 DEF IInv, Checked, NoJob
  <1>16. SeenAgent'
    <2>1. ~overlapped' => ~overlapped
      BY <1>2, Zenon
    <2>2. QED
      BY <1>3, <1>5, <2>1 DEF IInv, SeenAgent, NoJob
  <1>17. Orderly' => Orderly /\ installed /\ Fits(seen, machine) /\ RowValid(node) /\ Fits(node, machine)
    <2>1. Orderly' => Orderly
      BY <1>2, <1>3 DEF Orderly
    <2>2. Orderly => installed
      BY <1>1 DEF IInv, TypeOK, SeenAgent, Orderly
    <2>3. QED
      BY <2>1, <2>2, <1>1, <1>6 DEF IInv, SeenFits, NodeFits, NodeValid
  <1>18. SeenFits'
    BY <1>3, <1>5, <1>17 DEF IInv, SeenFits, NoJob
  <1>19. Orderly' => /\ Fits(node', machine) /\ DeploymentPortsValid(machine.mode, body.ingress, submittedProtocols(body, host))
    <2> SUFFICES ASSUME Orderly' PROVE Fits(node', machine) /\ DeploymentPortsValid(machine.mode, body.ingress, submittedProtocols(body, host))
      OBVIOUS
    <2>1. Locked(seen, body, host) /\ DeploymentPortsValid(seen.mode, body.ingress, submittedProtocols(body, host))
      BY <1>4, <1>17 DEF UpdateValid, host
    <2>2. mode = seen.mode
      BY <1>17 DEF mode
    <2>3. body.kind = "named" => Tunnelled(body.ingress)
      BY <1>4, ConstantsAssumption
    <2>4. ~Tunnelled(body.ingress) => machine.origin = 0
      BY <2>1, <1>17 DEF Locked, Fits, RowValid
    <2>5. node'.origin = machine.origin
      BY <1>11, <1>17, <2>1, <2>4 DEF Locked, Fits
    <2>6. QED
      BY <1>11, <1>17, <2>1, <2>2, <2>3, <2>5 DEF Locked, Fits
  <1>20. NodeFits'
    BY <1>3, <1>19 DEF NodeFits
  <1>21. RegisterChecked'
    <2>1. ASSUME NEW g \in Handlers, job'[g].op = "register" PROVE overlapped' /\ job'[g] = job[g] /\ job[g].op = "register"
      <3>1. g # h /\ job'[g] = job[g]
        BY <1>5, <2>1 DEF NoJob
      <3>2. Overlap(h)
        BY <2>1, <3>1 DEF Overlap, NoJob
      <3>3. QED
        BY <1>2, <2>1, <3>1, <3>2
    <2>2. QED
      BY <2>1 DEF IInv, RegisterChecked
  <1>22. Rootless'
    BY <1>3, <1>11, <1>17, <1>19, UserNeedsNoRoot DEF IInv, Rootless
  <1>23. InboundsDisjoint'
    BY <1>3, <1>17 DEF IInv, InboundsDisjoint
  <1>24. NewestIsRow' /\ CertificatesKept'
    BY <1>11 DEF NewestIsRow, CertificatesKept
  <1>25. QuickKnown'
    BY <1>11, <1>12 DEF QuickKnown
  <1>26. EditsOwed'
    <2> SUFFICES ASSUME agent # 0, ~lost' PROVE owed'
      BY <1>3 DEF EditsOwed
    <2>1. job[h].agent = agent
      BY <1>2
    <2>2. QED
      BY <1>2, <2>1
  <1>27. QED
    BY <1>13, <1>14, <1>15, <1>16, <1>18, <1>20, <1>21, <1>22, <1>23, <1>24, <1>25, <1>26 DEF IInv

\* An edit for a deleted agent writes nothing, and a dying request neither: the
\* request is over.
LEMMA EndStep ==
  ASSUME IInv, NEW h \in Handlers, job' = [job EXCEPT ![h] = NoJob],
         UNCHANGED <<tables, machine, overlapped, rolledBack, fresh, installs>>, lost' \in BOOLEAN, EditsOwed'
  PROVE  IInv'
  <1>1. \A g \in Handlers : job'[g] = IF g = h THEN NoJob ELSE job[g]
    BY DEF IInv, TypeOK
  <1>2. /\ UNCHANGED <<node, commands, revisions, agents, agent, desired, owed>> /\ Orderly' = Orderly
    BY DEF tables, Orderly
  <1>3. TypeOK'
    <2>1. job' \in [Handlers -> Jobs]
      BY DEF IInv, TypeOK, Jobs, NoJob
    <2>2. QED
      BY <1>2, <2>1 DEF IInv, TypeOK
  <1>4. NodeFirst' /\ NodeValid'
    BY <1>1, <1>2 DEF IInv, NodeFirst, NodeValid
  <1>5. Checked' /\ SeenAgent' /\ SeenFits' /\ RegisterChecked'
    BY <1>1, <1>2, JobOps DEF IInv, Checked, SeenAgent, SeenFits, RegisterChecked
  <1>6. NodeFits' /\ QuickKnown' /\ NewestIsRow' /\ CertificatesKept'
    BY <1>2 DEF IInv, NodeFits, QuickKnown, NewestIsRow, CertificatesKept
  <1>7. Rootless'
    BY <1>2 DEF IInv, Rootless
  <1>8. InboundsDisjoint'
    BY <1>2 DEF IInv, InboundsDisjoint
  <1>9. QED
    BY <1>3, <1>4, <1>5, <1>6, <1>7, <1>8 DEF IInv

LEMMA RefuseStep ==
  ASSUME IInv, NEW h \in Handlers, RefuseUpdate(h)
  PROVE  IInv'
  <1>1. /\ job[h].op = "update" /\ job' = [job EXCEPT ![h] = NoJob]
        /\ UNCHANGED <<tables, machine, overlapped, lost, rolledBack, fresh, installs>>
    BY DEF RefuseUpdate, history, bounds
  <1>2. \A g \in Handlers : job[g] = Enqueuing(agent) => job'[g] = job[g]
    BY <1>1, JobOps DEF IInv, TypeOK
  <1>3. EditsOwed'
    BY <1>1, <1>2, OwedStays DEF tables, Unpublished
  <1>4. lost' \in BOOLEAN
    BY <1>1 DEF IInv, TypeOK
  <1>5. QED
    BY <1>1, <1>3, <1>4, EndStep

\* Only a death before the queue row leaves the agent without a revision to come.
LEMMA DieStep ==
  ASSUME IInv, NEW h \in Handlers, Die(h)
  PROVE  IInv'
  <1>1. /\ job' = [job EXCEPT ![h] = NoJob]
        /\ UNCHANGED <<tables, machine, overlapped, rolledBack, fresh, installs>>
    BY DEF Die, bounds
  <1>2. lost' = (lost \/ (job[h] = Enqueuing(agent) /\ ~owed /\ Unpublished))
    BY Zenon DEF Die
  <1>3. lost' \in BOOLEAN
    BY <1>2 DEF IInv, TypeOK
  <1>4. \A g \in Handlers : job'[g] = IF g = h THEN NoJob ELSE job[g]
    BY <1>1 DEF IInv, TypeOK
  <1>5. EditsOwed'
    <2> SUFFICES ASSUME agent # 0, Unpublished, ~lost'
                 PROVE  owed \/ \E g \in Handlers : job'[g] = Enqueuing(agent)
      BY <1>1 DEF EditsOwed, tables, Unpublished
    <2>1. owed \/ \E g \in Handlers : job[g] = Enqueuing(agent)
      BY <1>2 DEF IInv, EditsOwed
    <2>2. owed \/ job[h] # Enqueuing(agent)
      BY <1>2
    <2>3. QED
      BY <1>4, <2>1, <2>2
  <1>6. QED
    BY <1>1, <1>3, <1>5, EndStep

\* The queue row of a registered agent.
LEMMA EnqueueStep ==
  ASSUME IInv, NEW h \in Handlers, EnqueueRegistered(h)
  PROVE  IInv'
  <1>1. /\ job[h].op = "enqueue" /\ job' = [job EXCEPT ![h] = NoJob]
        /\ UNCHANGED <<node, commands, revisions, agents, agent, desired, machine, history, installs>>
    BY DEF EnqueueRegistered, bounds
  <1>2. owed' = (owed \/ job[h].agent = agent)
    BY Zenon DEF EnqueueRegistered
  <1>3. \A g \in Handlers : job'[g] = IF g = h THEN NoJob ELSE job[g]
    BY <1>1 DEF IInv, TypeOK
  <1>4. job[h].agent \in Nat \ {0}
    BY <1>1 DEF IInv, TypeOK, Jobs
  <1>5. TypeOK'
    <2>1. job' \in [Handlers -> Jobs]
      BY <1>1 DEF IInv, TypeOK, Jobs, NoJob
    <2>2. owed' \in BOOLEAN /\ (owed' => agent # 0)
      BY <1>2, <1>4 DEF IInv, TypeOK
    <2>3. QED
      BY <1>1, <2>1, <2>2 DEF IInv, TypeOK, history
  <1>6. Orderly' = Orderly
    BY <1>1 DEF Orderly, history
  <1>7. NodeFirst' /\ NodeValid'
    BY <1>1, <1>3 DEF IInv, NodeFirst, NodeValid
  <1>8. Checked' /\ SeenAgent' /\ SeenFits' /\ RegisterChecked'
    BY <1>1, <1>3, <1>6, JobOps DEF IInv, history, Checked, SeenAgent, SeenFits, RegisterChecked
  <1>9. NodeFits' /\ QuickKnown' /\ NewestIsRow' /\ CertificatesKept'
    BY <1>1, <1>6 DEF IInv, history, NodeFits, QuickKnown, NewestIsRow, CertificatesKept
  <1>10. Rootless'
    BY <1>1, <1>6 DEF IInv, Rootless
  <1>11. InboundsDisjoint'
    BY <1>1, <1>6 DEF IInv, InboundsDisjoint
  <1>12. EditsOwed'
    <2> SUFFICES ASSUME agent # 0, Unpublished, ~lost, ~owed'
                 PROVE  \E g \in Handlers : job'[g] = Enqueuing(agent)
      BY <1>1 DEF EditsOwed, Unpublished, history
    <2>1. PICK g \in Handlers : job[g] = Enqueuing(agent)
      BY <1>2 DEF IInv, EditsOwed
    <2>2. g # h
      BY <1>2, <2>1, JobOps
    <2>3. QED
      BY <1>3, <2>1, <2>2
  <1>13. QED
    BY <1>5, <1>7, <1>8, <1>9, <1>10, <1>11, <1>12 DEF IInv

\* The first calls of registerAgent check the profile against the mode.
LEMMA ReadRegisterStep ==
  ASSUME IInv, NEW h \in Handlers, NEW command \in commands, NEW mode \in Modes,
         ReadForRegister(h, command, mode)
  PROVE  IInv'
  <1> DEFINE new == Registering(command, mode, installs + 1, agent)
  <1>1. /\ UNCHANGED Lasting /\ commands' = commands \ {command} /\ job' = [job EXCEPT ![h] = new]
        /\ job[h] = NoJob /\ installs' = installs + 1
        /\ command.policy # "auto" => mode = command.policy
        /\ DeploymentPortsValid(mode, node.ingress, node.protocols)
    BY DEF ReadForRegister, Lasting
  <1>2. command \in Commands /\ node # None
    BY DEF IInv, TypeOK, NodeFirst
  <1>3. new \in Jobs /\ new.op = "register" /\ new.command = command /\ new.mode = mode
    <2>1. installs + 1 \in Nat \ {0} /\ agent \in Nat
      BY DEF IInv, TypeOK
    <2>2. QED
      BY <1>2, <2>1 DEF Registering, Jobs
  <1> HIDE DEF new
  <1>4. \A g \in Handlers : job'[g] = IF g = h THEN new ELSE job[g]
    BY <1>1 DEF IInv, TypeOK
  <1>5. Settled'
    BY <1>1, SettledStays
  <1>6. TypeOK'
    BY <1>1, <1>3 DEF IInv, TypeOK, Lasting, history
  <1>7. NodeFirst'
    BY <1>1, <1>2 DEF NodeFirst, Lasting
  <1>8. Checked'
    BY <1>3, <1>4 DEF IInv, Checked
  <1>9. SeenAgent' /\ SeenFits'
    BY <1>1, <1>3, <1>4 DEF IInv, SeenAgent, SeenFits, Orderly, Lasting, history
  <1>10. RegisterChecked'
    BY <1>1, <1>3, <1>4 DEF IInv, RegisterChecked, Lasting, history
  <1>11. EditsOwed'
    BY <1>1, <1>4, OwedStays, JobOps DEF Lasting, history, Unpublished
  <1>12. QED
    BY <1>5, <1>6, <1>7, <1>8, <1>9, <1>10, <1>11 DEF Settled, IInv

\* The batch of registerAgent: a new agent without revisions, which fits the row
\* when its command still matched; every other request has been crossed.
LEMMA WriteRegisterStep ==
  ASSUME IInv, NEW h \in Handlers, WriteRegister(h)
  PROVE  IInv'
  <1> DEFINE command == job[h].command
             mode == job[h].mode
             host == IF command.kind = "quick" THEN QuickHost ELSE command.host
  <1>1. /\ job[h].op = "register"
        /\ machine' = [mode |-> mode, ingress |-> command.ingress, kind |-> command.kind,
                       origin |-> command.origin, host |-> host,
                       running |-> 0, certificates |-> {}, required |-> {}]
        /\ node' = [node EXCEPT !.mode = mode]
        /\ revisions' = <<>> /\ desired' = 0 /\ owed' = FALSE /\ rolledBack' = FALSE /\ lost' = FALSE
        /\ agents' = (agents \ {job[h].old}) \cup {job[h].id} /\ agent' = job[h].id
        /\ job' = [job EXCEPT ![h] = Enqueuing(job[h].id)] /\ commands' = commands /\ installs' = installs
    BY DEF WriteRegister, NewAgent, bounds
  <1>2. fresh' = Matches(command, node) /\ overlapped' = (overlapped \/ Overlap(h))
    BY Zenon DEF WriteRegister
  <1>3. command \in Commands /\ mode \in Modes /\ job[h].id \in Nat \ {0}
    BY <1>1 DEF IInv, TypeOK, Jobs
  <1>4. node # None /\ node \in Rows
    <2>1. node = None => job[h] = NoJob
      BY DEF IInv, NodeFirst
    <2>2. job[h].op = "register" /\ NoJob.op = "idle"
      BY <1>1 DEF NoJob
    <2>3. QED
      BY <2>1, <2>2 DEF IInv, TypeOK
  <1>5. host \in Hosts
    BY <1>3 DEF Commands, Hosts
  <1> HIDE DEF host
  <1>6. machine' \in Machines /\ machine' # None /\ machine'.running = 0 /\ machine'.mode = mode
    <2>1. machine' = [mode |-> mode, ingress |-> command.ingress, kind |-> command.kind,
                      origin |-> command.origin, host |-> host,
                      running |-> 0, certificates |-> {}, required |-> {}]
      BY <1>1
    <2>2. command.ingress \in Ingresses /\ command.kind \in Kinds /\ command.origin \in Nat
      BY <1>3 DEF Commands
    <2> HIDE DEF command, mode
    <2>3. machine' \in Machines
      BY <2>1, <2>2, <1>3, <1>5 DEF Machines
    <2>4. machine'.running = 0 /\ machine'.mode = mode
      BY <2>1
    <2>5. QED
      BY <2>3, <2>4, ConstantsAssumption
  <1>7. /\ node' \in Rows /\ node' # None /\ node'.mode = mode
        /\ node'.policy = node.policy /\ node'.ingress = node.ingress /\ node'.kind = node.kind
        /\ node'.origin = node.origin /\ node'.host = node.host /\ node'.protocols = node.protocols
    BY <1>1, <1>3, <1>4, ConstantsAssumption DEF Rows
  <1>8. \A g \in Handlers : job'[g] = IF g = h THEN Enqueuing(job[h].id) ELSE job[g]
    BY <1>1 DEF IInv, TypeOK
  <1>9. ASSUME NEW g \in Handlers, job'[g].op \in {"update", "register"} PROVE overlapped' /\ job'[g] = job[g]
    <2>1. g # h /\ job'[g] = job[g] /\ job[g].op \in {"update", "register"}
      BY <1>8, <1>9, JobOps
    <2>2. Overlap(h)
      BY <1>1, <2>1 DEF Overlap
    <2>3. QED
      BY <1>2, <2>1, <2>2
  <1>10. TypeOK'
    <2>1. job' \in [Handlers -> Jobs]
      BY <1>1, <1>3 DEF IInv, TypeOK, Jobs, Enqueuing
    <2>2. overlapped' \in BOOLEAN /\ fresh' \in BOOLEAN
      BY <1>2 DEF Matches
    <2>3. revisions' \in Seq([protocols : SUBSET Protocols, ingress : Ingresses]) /\ desired' \in 0..Len(revisions')
      BY <1>1
    <2>4. machine'.running <= Len(revisions')
      BY <1>1, <1>6
    <2>5. /\ commands' \subseteq Commands /\ owed' \in BOOLEAN /\ rolledBack' \in BOOLEAN
          /\ lost' \in BOOLEAN /\ ~owed' /\ installs' \in Nat
      BY <1>1 DEF IInv, TypeOK
    <2>6. agents' \subseteq Nat /\ agent' \in agents' \cup {0} /\ (agent' = 0 <=> machine' = None)
      BY <1>1, <1>3, <1>6 DEF IInv, TypeOK
    <2>7. QED
      BY <1>6, <1>7, <2>1, <2>2, <2>3, <2>4, <2>5, <2>6 DEF TypeOK
  <1>11. NodeFirst' /\ NodeValid'
    BY <1>4, <1>7 DEF IInv, NodeFirst, NodeValid, RowValid
  <1>12. Checked'
    BY <1>9 DEF IInv, Checked
  <1>13. SeenAgent' /\ SeenFits'
    BY <1>9 DEF SeenAgent, SeenFits, Orderly
  <1>14. RegisterChecked'
    BY <1>9 DEF IInv, RegisterChecked
  <1>15. Orderly' => /\ command = Command(node) /\ DeploymentPortsValid(mode, node.ingress, node.protocols)
                     /\ command.policy # "auto" => mode = command.policy
    <2>1. Orderly' => Matches(command, node) /\ ~overlapped
      BY <1>2, Zenon DEF Orderly
    <2>2. QED
      BY <1>1, <2>1 DEF Matches, IInv, RegisterChecked
  <1>16. NodeFits'
    <2> SUFFICES ASSUME Orderly' PROVE Fits(node', machine')
      BY DEF NodeFits
    <2>1. /\ command.policy = node.policy /\ command.ingress = node.ingress /\ command.kind = node.kind
          /\ command.origin = node.origin /\ (node.kind = "named" => command.host = node.host)
      <3> DEFINE said == IF node.kind = "named" THEN node.host ELSE ""
      <3>1. Command(node) = [policy |-> node.policy, ingress |-> node.ingress, kind |-> node.kind,
                             origin |-> node.origin, host |-> said]
        BY DEF Command
      <3>2. node.kind = "named" => said = node.host
        OBVIOUS
      <3> HIDE DEF said
      <3>3. QED
        BY <1>15, <3>1, <3>2
    <2>2. node.kind = "named" => machine'.host = node.host
      BY <1>1, <2>1 DEF host
    <2>3. QED
      BY <1>1, <1>7, <1>15, <2>1, <2>2 DEF Fits
  <1>17. Rootless'
    BY <1>1, <1>6, <1>7, <1>15, UserNeedsNoRoot DEF Rootless
  <1>18. InboundsDisjoint' /\ NewestIsRow' /\ QuickKnown' /\ CertificatesKept'
    BY <1>1, <1>6 DEF InboundsDisjoint, NewestIsRow, QuickKnown, CertificatesKept
  <1>19. EditsOwed'
    BY <1>1, <1>8 DEF EditsOwed
  <1>20. QED
    BY <1>10, <1>11, <1>12, <1>13, <1>14, <1>16, <1>17, <1>18, <1>19 DEF IInv

\* What the inbounds of a valid row keep clear of: each other and the port of
\* the tunnel router.
LEMMA RowListenable ==
  ASSUME NEW row \in Rows, RowValid(row)
  PROVE  LET inbounds == Inbounds(Revision(row))
         IN  /\ \A a, b \in inbounds : a # b /\ a.port = b.port => Listens(a) \cap Listens(b) = {}
             /\ \A a \in inbounds : a.port # row.origin
  <1>1. Inbounds(Revision(row)) = compileServerProfiles(row.protocols, row.ingress)
    BY DEF Inbounds, Revision
  <1>2. \A p \in row.protocols : p.type \in PROFILE_TYPES /\ p.port \in PortNumbers
    BY DEF Rows, Protocols
  <1>3. DeploymentPortsValid(row.policy, row.ingress, row.protocols)
    BY DEF RowValid
  <1>4. \A a, b \in compileServerProfiles(row.protocols, row.ingress) :
          a # b /\ a.port = b.port => Listens(a) \cap Listens(b) = {}
    BY <1>2, <1>3, PortsDisjoint
  <1>5. \A p \in row.protocols : p.port # row.origin
    <2>1. CASE Tunnelled(row.ingress)
      BY <2>1 DEF RowValid, TunnelValid
    <2>2. CASE ~Tunnelled(row.ingress)
      <3>1. row.origin = 0
        BY <2>2 DEF RowValid
      <3>2. \A port \in PortNumbers : port # 0
        BY DEF PortNumbers
      <3>3. \A p \in row.protocols : p.port \in PortNumbers
        BY <1>2
      <3>4. QED
        BY <3>1, <3>2, <3>3
    <2>3. QED
      BY <2>1, <2>2
  <1>6. \A a \in compileServerProfiles(row.protocols, row.ingress) : a.port # row.origin
    BY <1>5 DEF compileServerProfiles
  <1>7. QED
    BY <1>1, <1>4, <1>6

\* publishAgents: the new revision is built of the row, which is valid and fits.
LEMMA PublishStep == IInv /\ Publish => IInv'
  <1> SUFFICES ASSUME IInv, Publish PROVE IInv'
    OBVIOUS
  <1> DEFINE new == Revision(node)
             n == Len(revisions)
  <1>1. /\ machine # None /\ revisions' = Append(revisions, new) /\ desired' = Len(revisions')
        /\ node' = [node EXCEPT !.draft = FALSE] /\ owed' = FALSE /\ rolledBack' = FALSE /\ lost' = FALSE
        /\ UNCHANGED <<commands, agents, agent, job, machine, overlapped, fresh, installs>>
    BY DEF Publish, bounds, IInv, TypeOK
  <1>2. node # None /\ node \in Rows /\ RowValid(node)
    BY <1>1 DEF IInv, TypeOK, NodeFirst, NodeValid
  <1>3. /\ node' \in Rows /\ node' # None /\ node'.draft = FALSE /\ node'.status = node.status
        /\ node'.mode = node.mode /\ node'.policy = node.policy /\ node'.ingress = node.ingress
        /\ node'.kind = node.kind /\ node'.origin = node.origin /\ node'.host = node.host
        /\ node'.protocols = node.protocols
    BY <1>1, <1>2, ConstantsAssumption DEF Rows
  <1>4. new \in [protocols : SUBSET Protocols, ingress : Ingresses] /\ Revision(node') = new
        /\ new.ingress = node.ingress /\ new.protocols = node.protocols
    BY <1>2, <1>3 DEF Revision, Rows
  <1> HIDE DEF new
  <1>5. /\ revisions' \in Seq([protocols : SUBSET Protocols, ingress : Ingresses])
        /\ desired' = n + 1 /\ Len(revisions') = n + 1 /\ n \in Nat
        /\ DOMAIN revisions' = 1..(n + 1) /\ DOMAIN revisions = 1..n /\ revisions'[n + 1] = new
        /\ \A r \in 1..n : revisions'[r] = revisions[r]
    BY <1>1, <1>4 DEF IInv, TypeOK
  <1> HIDE DEF n
  <1>6. machine \in Machines /\ machine.running \in Nat /\ machine.running <= n
    BY <1>1 DEF IInv, TypeOK, Machines, n
  <1>7. TypeOK'
    <2>1. desired' \in 0..Len(revisions') /\ machine'.running <= Len(revisions')
      BY <1>1, <1>5, <1>6
    <2>2. /\ commands' \subseteq Commands /\ job' \in [Handlers -> Jobs]
          /\ machine' \in Machines \cup {None}
      BY <1>1 DEF IInv, TypeOK
    <2>3. /\ owed' \in BOOLEAN /\ overlapped' \in BOOLEAN /\ rolledBack' \in BOOLEAN
          /\ fresh' \in BOOLEAN /\ lost' \in BOOLEAN /\ ~owed' /\ installs' \in Nat
          /\ agents' \subseteq Nat /\ agent' \in agents' \cup {0} /\ (agent' = 0 <=> machine' = None)
      BY <1>1 DEF IInv, TypeOK
    <2>4. QED
      BY <1>3, <1>5, <2>1, <2>2, <2>3 DEF TypeOK
  <1>8. NodeFirst' /\ NodeValid'
    BY <1>2, <1>3 DEF NodeFirst, NodeValid, RowValid
  <1>9. Orderly' = Orderly
    BY <1>1 DEF Orderly
  <1>10. Checked' /\ SeenAgent' /\ SeenFits'
    BY <1>1, <1>9 DEF IInv, Checked, SeenAgent, SeenFits
  <1>11. NodeFits'
    BY <1>1, <1>3, <1>9 DEF IInv, NodeFits, Fits
  <1>12. RegisterChecked'
    BY <1>1, <1>3 DEF IInv, RegisterChecked
  <1>13. Rootless'
    BY <1>1, <1>3, <1>4, <1>5, <1>9 DEF IInv, Rootless
  <1>14. InboundsDisjoint'
    <2> SUFFICES ASSUME NEW r \in DOMAIN revisions'
                 PROVE  LET inbounds == Inbounds(revisions'[r])
                        IN  /\ \A a, b \in inbounds : a # b /\ a.port = b.port => Listens(a) \cap Listens(b) = {}
                            /\ Orderly' => \A a \in inbounds : a.port # machine'.origin
      BY DEF InboundsDisjoint
    <2>1. CASE r \in 1..n
      BY <2>1, <1>1, <1>5, <1>9 DEF IInv, InboundsDisjoint
    <2>2. CASE r = n + 1
      <3>1. revisions'[r] = Revision(node)
        BY <2>2, <1>5 DEF new
      <3>2. Orderly' => machine'.origin = node.origin
        BY <1>1, <1>9 DEF IInv, NodeFits, Fits
      <3>3. QED
        BY <3>1, <3>2, <1>2, RowListenable
    <2>3. QED
      BY <2>1, <2>2, <1>5
  <1>15. NewestIsRow'
    BY <1>4, <1>5 DEF NewestIsRow
  <1>16. QuickKnown'
    BY <1>1, <1>3, <1>9 DEF IInv, QuickKnown
  <1>17. CertificatesKept' /\ EditsOwed'
    BY <1>1, <1>3, <1>5, <1>6 DEF CertificatesKept, EditsOwed, Unpublished
  <1>18. QED
    BY <1>7, <1>8, <1>10, <1>11, <1>12, <1>13, <1>14, <1>15, <1>16, <1>17 DEF IInv
\* rollbackAgent chooses among the revisions of the agent.
LEMMA RollbackStep ==
  ASSUME IInv, NEW r \in DOMAIN revisions, rollbackAgent(r)
  PROVE  IInv'
  <1>1. /\ desired' = r /\ r \in 1..Len(revisions) /\ rolledBack' = TRUE
        /\ UNCHANGED <<node, commands, revisions, agents, agent, owed, job, machine, overlapped, lost, fresh,
                       installs>>
    BY DEF rollbackAgent
  <1>2. TypeOK'
    BY <1>1 DEF IInv, TypeOK
  <1>3. NodeFirst' /\ NodeValid' /\ Checked' /\ SeenAgent'
    BY <1>1 DEF IInv, NodeFirst, NodeValid, Checked, SeenAgent
  <1>4. Orderly' = Orderly
    BY <1>1 DEF Orderly
  <1>5. SeenFits' /\ NodeFits' /\ RegisterChecked' /\ QuickKnown'
    BY <1>1, <1>4 DEF IInv, SeenFits, NodeFits, RegisterChecked, QuickKnown
  <1>6. Rootless'
    BY <1>1, <1>4 DEF IInv, Rootless
  <1>7. InboundsDisjoint'
    BY <1>1, <1>4 DEF IInv, InboundsDisjoint
  <1>8. NewestIsRow' /\ CertificatesKept'
    BY <1>1 DEF IInv, NewestIsRow, CertificatesKept
  <1>9. EditsOwed'
    BY <1>1, OwedStays DEF Unpublished, IInv, TypeOK
  <1>10. QED
    BY <1>2, <1>3, <1>5, <1>6, <1>7, <1>8, <1>9 DEF IInv

\* A poll: what the agent reports of a tunnel fits the row, and the certificates
\* of what it applies are listed, because the newest revision is the row.
LEMMA PollStep == IInv /\ Poll => IInv'
  <1> SUFFICES ASSUME IInv, Poll PROVE IInv'
    OBVIOUS
  <1> DEFINE host == IF node.kind = "quick" /\ machine.kind = "quick" THEN machine.host ELSE node.host
             applies == desired \notin {0, machine.running} /\ Applies(revisions[desired], Required)
             applied == [machine EXCEPT !.running = desired, !.required = Required,
                                        !.certificates = @ \cup Required]
  <1>1. /\ machine # None /\ node' = [node EXCEPT !.status = StatusAfterSync, !.host = host]
        /\ machine' = IF applies THEN applied ELSE machine
        /\ UNCHANGED <<commands, revisions, agents, agent, desired, owed, job, overlapped, lost, rolledBack,
                       fresh, installs>>
    BY DEF Poll, bounds
  <1>2. node # None /\ node \in Rows /\ RowValid(node) /\ machine \in Machines
    BY <1>1 DEF IInv, TypeOK, NodeFirst, NodeValid
  <1>3. host \in Hosts
    BY <1>2 DEF Rows, Machines
  <1>4. StatusAfterSync \in {"configured", "pending", "connected", "verified"}
    BY DEF StatusAfterSync
  <1>5. Required \subseteq Domains \cup {""}
    <2>1. \A p \in node.protocols : p.domain \in Domains \cup {""}
      BY <1>2 DEF Rows, Protocols
    <2>2. QED
      BY <2>1 DEF Required, certificateRequirements
  <1> HIDE DEF host
  <1>6. /\ node' \in Rows /\ node' # None /\ node'.host = host /\ node'.draft = node.draft
        /\ node'.mode = node.mode /\ node'.policy = node.policy /\ node'.ingress = node.ingress
        /\ node'.kind = node.kind /\ node'.origin = node.origin /\ node'.protocols = node.protocols
    BY <1>1, <1>2, <1>3, <1>4, ConstantsAssumption DEF Rows
  <1>7. desired \in 0..Len(revisions) /\ Len(revisions) \in Nat /\ desired \in Nat
    BY DEF IInv, TypeOK
  <1>8. /\ applied \in Machines /\ applied.running = desired /\ applied.required = Required
        /\ applied.certificates = machine.certificates \cup Required
        /\ applied.ingress = machine.ingress /\ applied.kind = machine.kind /\ applied.mode = machine.mode
        /\ applied.origin = machine.origin /\ applied.host = machine.host
    BY <1>2, <1>5, <1>7 DEF Machines
  <1> HIDE DEF applied, applies
  <1>9. /\ machine' \in Machines /\ machine' # None
        /\ machine'.ingress = machine.ingress /\ machine'.kind = machine.kind /\ machine'.mode = machine.mode
        /\ machine'.origin = machine.origin /\ machine'.host = machine.host
        /\ machine'.running \in {machine.running, desired}
    BY <1>1, <1>2, <1>8, ConstantsAssumption
  <1>10. Orderly' = Orderly
    BY <1>1, <1>9 DEF Orderly
  <1>11. TypeOK'
    <2>1. machine'.running <= Len(revisions')
      BY <1>1, <1>7, <1>9 DEF IInv, TypeOK
    <2>2. QED
      BY <1>1, <1>6, <1>9, <2>1 DEF IInv, TypeOK
  <1>12. NodeFirst' /\ NodeValid'
    BY <1>2, <1>6 DEF NodeFirst, NodeValid, RowValid
  <1>13. Checked' /\ SeenAgent'
    BY <1>1, <1>9 DEF IInv, Checked, SeenAgent
  <1>14. SeenFits'
    BY <1>1, <1>9, <1>10 DEF IInv, SeenFits, Fits
  <1>15. NodeFits'
    BY <1>6, <1>9, <1>10 DEF IInv, NodeFits, Fits, host
  <1>16. RegisterChecked'
    BY <1>1, <1>6 DEF IInv, RegisterChecked
  <1>17. Rootless'
    BY <1>1, <1>6, <1>9, <1>10 DEF IInv, Rootless
  <1>18. InboundsDisjoint'
    BY <1>1, <1>9, <1>10 DEF IInv, InboundsDisjoint
  <1>19. Revision(node') = Revision(node)
    BY <1>6 DEF Revision
  <1>20. NewestIsRow' /\ EditsOwed'
    BY <1>1, <1>2, <1>6, <1>19, OwedStays DEF IInv, NewestIsRow, Unpublished
  <1>21. QuickKnown'
    BY <1>1, <1>6, <1>9, <1>10 DEF IInv, NodeFits, Fits, QuickKnown, host
  <1>22. CertificatesKept'
    <2>1. CASE ~applies
      BY <2>1, <1>1, <1>6 DEF IInv, CertificatesKept
    <2>2. CASE applies
      <3> SUFFICES ASSUME desired # 0, ~node.draft, ~rolledBack
                   PROVE  DomainsOf(revisions[desired]) \subseteq Required
        BY <2>2, <1>1, <1>6, <1>8 DEF CertificatesKept
      <3>1. revisions[desired] = Revision(node)
        BY <1>2 DEF IInv, NewestIsRow
      <3>2. QED
        BY <3>1, <1>2, DomainsRequired DEF Required
    <2>3. QED
      BY <2>1, <2>2
  <1>23. QED
    BY <1>11, <1>12, <1>13, <1>14, <1>15, <1>16, <1>17, <1>18, <1>20, <1>21, <1>22 DEF IInv

LEMMA IInvStep == IInv /\ [Next]_vars => IInv'
  <1> SUFFICES ASSUME IInv, [Next]_vars PROVE IInv'
    OBVIOUS
  <1>1. ASSUME NEW body \in Bodies, createVps(body) PROVE IInv'
    BY <1>1, CreateStep
  <1>2. CASE vpsInstall
    BY <1>2, InstallStep
  <1>3. ASSUME NEW h \in Handlers, NEW body \in Edits, ReadForUpdate(h, body) PROVE IInv'
    BY <1>3, ReadUpdateStep
  <1>4. ASSUME NEW h \in Handlers, WriteUpdate(h) \/ RefuseUpdate(h) PROVE IInv'
    BY <1>4, WriteUpdateStep, RefuseStep
  <1>5. ASSUME NEW h \in Handlers, NEW command \in commands, NEW mode \in Modes,
               ReadForRegister(h, command, mode)
        PROVE  IInv'
    BY <1>5, ReadRegisterStep
  <1>6. ASSUME NEW h \in Handlers, WriteRegister(h) \/ EnqueueRegistered(h) \/ Die(h) PROVE IInv'
    BY <1>6, WriteRegisterStep, EnqueueStep, DieStep
  <1>7. CASE Publish
    BY <1>7, PublishStep
  <1>8. ASSUME NEW r \in DOMAIN revisions, rollbackAgent(r) PROVE IInv'
    BY <1>8, RollbackStep
  <1>9. CASE Poll
    BY <1>9, PollStep
  <1>10. CASE UNCHANGED vars
    <2>1. UNCHANGED <<commands, job, Lasting, installs>>
      BY <1>10 DEF vars, tables, history, bounds, Lasting
    <2>2. Settled'
      BY <2>1, SettledStays
    <2>3. TypeOK' /\ NodeFirst'
      BY <2>1 DEF IInv, TypeOK, NodeFirst, Lasting, history
    <2>4. Checked' /\ SeenAgent' /\ SeenFits' /\ RegisterChecked'
      BY <2>1 DEF IInv, Checked, SeenAgent, SeenFits, RegisterChecked, Orderly, Lasting, history
    <2>5. EditsOwed'
      BY <2>1, OwedStays DEF Lasting, history, Unpublished
    <2>6. QED
      BY <2>2, <2>3, <2>4, <2>5 DEF Settled, IInv
  <1>11. QED
    BY <1>1, <1>2, <1>3, <1>4, <1>5, <1>6, <1>7, <1>8, <1>9, <1>10 DEF Next

LEMMA IInvInit == Init => IInv
  <1> SUFFICES ASSUME Init PROVE IInv
    OBVIOUS
  <1>1. /\ node = None /\ commands = {} /\ revisions = <<>> /\ desired = 0 /\ owed = FALSE /\ machine = None
        /\ agents = {} /\ agent = 0 /\ installs = 0
        /\ job = [h \in Handlers |-> NoJob]
    BY DEF Init
  <1>2. \A h \in Handlers : job[h] = NoJob /\ job[h].op = "idle"
    BY <1>1 DEF NoJob
  <1>3. TypeOK
    <2>1. job \in [Handlers -> Jobs]
      BY <1>1 DEF Jobs, NoJob
    <2>2. revisions \in Seq([protocols : SUBSET Protocols, ingress : Ingresses]) /\ desired \in 0..Len(revisions)
      BY <1>1
    <2>3. agents \subseteq Nat /\ agent \in agents \cup {0} /\ (agent = 0 <=> machine = None) /\ installs \in Nat
      BY <1>1
    <2>4. /\ owed \in BOOLEAN /\ ~owed /\ overlapped \in BOOLEAN /\ lost \in BOOLEAN
          /\ rolledBack \in BOOLEAN /\ fresh \in BOOLEAN
      BY DEF Init
    <2>5. QED
      BY <1>1, <2>1, <2>2, <2>3, <2>4 DEF TypeOK
  <1>4. NodeFirst /\ NodeValid /\ Checked /\ SeenAgent /\ SeenFits /\ RegisterChecked
    BY <1>1, <1>2 DEF NodeFirst, NodeValid, Checked, SeenAgent, SeenFits, RegisterChecked
  <1>5. NodeFits /\ Rootless /\ InboundsDisjoint /\ NewestIsRow /\ QuickKnown /\ CertificatesKept /\ EditsOwed
    BY <1>1 DEF NodeFits, Rootless, InboundsDisjoint, NewestIsRow, QuickKnown, CertificatesKept, EditsOwed, Orderly
  <1>6. QED
    BY <1>3, <1>4, <1>5 DEF IInv

LEMMA IInvCorrect == Spec => []IInv
  BY IInvInit, IInvStep, PTL DEF Spec
-----------------------------------------------------------------------------
(* Theorems                                                                 *)

\* The rows, commands, revisions and requests are well typed, and the desired and
\* the running revision exist (TypeOK).
THEOREM TypeCorrect == Spec => []TypeOK
  <1>1. IInv => TypeOK
    BY DEF IInv
  <1>2. QED
    BY <1>1, IInvCorrect, PTL

\* sing-box can open every port of every revision (InboundsDisjoint), for whatever
\* bodies validateDeploymentPorts and validateTunnelOrigin let through.
THEOREM PortsNeverMeet == Spec => []InboundsDisjoint
  <1>1. IInv => InboundsDisjoint
    BY DEF IInv
  <1>2. QED
    BY <1>1, IInvCorrect, PTL

\* What the install command fixed on the VPS stays what is stored and published
\* for it (StoredFitsAgent): the locks of updateVps are enough.
THEOREM LocksAreEnough == Spec => []StoredFitsAgent
  <1>1. IInv => StoredFitsAgent
    BY DEF IInv, NodeFits, Fits, Rootless, StoredFitsAgent
  <1>2. QED
    BY <1>1, IInvCorrect, PTL

\* The certificates of the newest configuration are on the VPS and on the list
\* that is renewed, once it runs (CertificatesKept).
THEOREM CertificatesStayListed == Spec => []CertificatesKept
  <1>1. IInv => CertificatesKept
    BY DEF IInv
  <1>2. QED
    BY <1>1, IInvCorrect, PTL

\* An installed VPS without a revision of its newest configuration is owed one
\* (EditsOwed), or the request that registered it died, or an edit was written
\* for an agent it had not seen.
THEOREM DraftsAreOwed == Spec => []EditsOwed
  <1>1. IInv => EditsOwed
    BY DEF IInv
  <1>2. QED
    BY <1>1, IInvCorrect, PTL

\* A direct entry finds its inbound.
LEMMA DirectReaches ==
  ASSUME NEW row, \A p \in row.protocols : p.type \in PROFILE_TYPES, ~Tunnelled(row.ingress),
         NEW format \in FORMATS, NEW entry \in Entries(format, row)
  PROVE  ReachesDirect(entry, Inbounds(Revision(row)))
  <1>1. PICK p \in row.protocols :
          entry = [shape |-> ClientShape(format, p.type), at |-> expand(row, p)]
    BY DEF Entries
  <1> DEFINE in == [shape |-> ServerShape(p.type, row.ingress), port |-> p.port, path |-> p.path,
                    domain |-> p.domain, loopback |-> Tunnelled(row.ingress)]
  <1>2. in \in Inbounds(Revision(row))
    <2>1. Inbounds(Revision(row)) = compileServerProfiles(row.protocols, row.ingress)
      BY DEF Inbounds, Revision
    <2>2. QED
      BY <2>1 DEF compileServerProfiles
  <1>3. in.shape = entry.shape
    BY <1>1, DirectShapes
  <1>4. entry.at.port = p.port /\ entry.at.path = p.path /\ entry.at.sni = p.domain
    BY <1>1 DEF expand
  <1>5. in.port = p.port /\ in.path = p.path /\ in.domain = p.domain /\ ~in.loopback
    OBVIOUS
  <1> HIDE DEF in
  <1>6. QED
    BY <1>2, <1>3, <1>4, <1>5 DEF ReachesDirect

\* An entry of a tunnel finds its way through edge, tunnel and router.
LEMMA TunnelReaches ==
  ASSUME NEW row, RowValid(row), Tunnelled(row.ingress),
         NEW format \in FORMATS, NEW entry \in Entries(format, row)
  PROVE  ReachesTunnel(entry, row.kind, row.host, Inbounds(Revision(row)))
  <1>1. PICK p \in row.protocols :
          entry = [shape |-> ClientShape(format, p.type), at |-> expand(row, p)]
    BY DEF Entries
  <1> DEFINE in == [shape |-> ServerShape(p.type, row.ingress), port |-> p.port, path |-> p.path,
                    domain |-> p.domain, loopback |-> Tunnelled(row.ingress)]
             inbounds == Inbounds(Revision(row))
  <1>2. in \in inbounds
    <2>1. inbounds = compileServerProfiles(row.protocols, row.ingress)
      BY DEF Inbounds, Revision
    <2>2. QED
      BY <2>1 DEF compileServerProfiles
  <1>3. p.type \in TUNNEL_PROFILE_TYPES
    BY DEF RowValid, DeploymentPortsValid
  <1>4. /\ entry.shape.security = "tls" /\ in.shape = [entry.shape EXCEPT !.security = "none"]
        /\ in.shape.transport = "ws"
    BY <1>1, <1>3, TunnelShapes
  <1>5. entry.at.server = row.host /\ entry.at.port = p.edge /\ entry.at.path = p.path
    BY <1>1 DEF expand
  <1>6. p.edge \in TUNNEL_EDGE_PORTS(row.kind)
    BY DEF RowValid, TunnelValid
  <1>7. in.port = p.port /\ in.path = p.path /\ in.loopback
    OBVIOUS
  <1> HIDE DEF in, inbounds
  <1>8. [path |-> in.path, port |-> in.port] \in websocketRoutes(inbounds)
    BY <1>2, <1>4 DEF websocketRoutes
  <1>9. \E route \in websocketRoutes(inbounds), inbound \in inbounds :
          /\ route.path = entry.at.path /\ inbound.port = route.port /\ inbound.loopback
          /\ inbound.shape = [entry.shape EXCEPT !.security = "none"] /\ inbound.path = entry.at.path
    <2> DEFINE route == [path |-> in.path, port |-> in.port]
    <2>1. route.path = entry.at.path /\ in.port = route.port /\ in.path = entry.at.path
      BY <1>5, <1>7
    <2>2. route \in websocketRoutes(inbounds)
      BY <1>8
    <2> HIDE DEF route
    <2>3. QED
      BY <1>2, <1>4, <1>7, <2>1, <2>2
  <1>10. QED
    BY <1>4, <1>5, <1>6, <1>9 DEF ReachesTunnel, inbounds

\* Every entry a subscription offers is answered by an inbound of its protocol
\* (OfferedReaches): in each format, for each valid profile, directly or through
\* the tunnel, whatever edits and polls came between.
THEOREM EntriesReach == Spec => []OfferedReaches
  <1>1. IInv => OfferedReaches
    <2> SUFFICES ASSUME IInv, Offered, Orderly, ~rolledBack, NEW format \in FORMATS,
                        NEW entry \in Entries(format, node)
                 PROVE  IF Tunnelled(node.ingress) THEN ReachesTunnel(entry, machine.kind, machine.host, Running)
                        ELSE ReachesDirect(entry, Running)
      BY DEF OfferedReaches
    <2>1. node # None /\ node \in Rows /\ RowValid(node) /\ Fits(node, machine)
      BY DEF Offered, IInv, TypeOK, NodeValid, NodeFits
    <2>2. Running = Inbounds(Revision(node))
      BY <2>1 DEF Offered, Running, IInv, NewestIsRow
    <2>3. CASE Tunnelled(node.ingress)
      <3>1. node.kind = machine.kind /\ node.kind \in {"quick", "named"}
        BY <2>1, <2>3 DEF Fits, RowValid, Rows, Kinds
      <3>2. node.host = machine.host
        BY <2>1, <2>3, <3>1 DEF Fits, Offered, IInv, QuickKnown
      <3>3. QED
        BY <2>1, <2>2, <2>3, <3>1, <3>2, TunnelReaches
    <2>4. CASE ~Tunnelled(node.ingress)
      <3>1. \A p \in node.protocols : p.type \in PROFILE_TYPES
        BY <2>1 DEF Rows, Protocols
      <3>2. QED
        BY <2>2, <2>4, <3>1, DirectReaches
    <2>5. QED
      BY <2>3, <2>4
  <1>2. QED
    BY <1>1, IInvCorrect, PTL
=============================================================================

------------------------------ MODULE Enrollment ------------------------------
(***************************************************************************)
(* How a VPS gets its agent: install tickets and registerAgent in the      *)
(* Worker (src/api.ts) against the installer's registerTicket on the VPS   *)
(* (agent/installer.go).                                                   *)
(*                                                                         *)
(* One managed node; other nodes do not interact with it.  The handler has *)
(* five D1 calls and every one is an action, so that duplicates of one     *)
(* request, requests under several tickets and a deletion interleave.  The *)
(* agent id and its token are HMACs of ticket and claim: an id here is     *)
(* that pair, and whoever holds the pair holds the token.                  *)
(***************************************************************************)
EXTENDS Naturals, FiniteSets

CONSTANTS
  Hosts,       \* machines on which the install command is run
  Tickets,     \* install tickets that may be created for the node
  Claims,      \* random claims the installers may draw
  Handlers,    \* register and delete requests the Worker works on at one time
  None,
  MaxTries,    \* attempts of one installer run (3 in the code)
  Expiring,    \* bound: tickets whose 15 minutes may pass
  MaxRuns,     \* bound: installer runs
  MaxLosses,   \* bound: lost requests and answers, early timeouts, failed handlers
  MaxCrashes,  \* bound: installers that die
  MaxDeletes   \* bound: deleteVps requests

ASSUME ConstantsAssumption ==
  /\ None \notin Tickets \cup Claims \cup [ticket : Tickets, claim : Claims]
  /\ Expiring \subseteq Tickets
  /\ MaxTries \in Nat \ {0}
  /\ MaxRuns \in Nat /\ MaxLosses \in Nat /\ MaxCrashes \in Nat /\ MaxDeletes \in Nat

VARIABLES
  \* D1
  present,     \* the node row exists
  issued,      \* rows of install_tickets
  expired,     \* those past expires_at
  claimOf,     \* install_tickets.claim_hash
  bound,       \* install_tickets.agent_id
  agents,      \* rows of agents
  nodeAgent,   \* nodes.agent_id
  \* the Worker's invocations and the network
  job,         \* job[h]: control state and locals of an invocation
  requests,    \* POST /api/agent/register on the way
  answers,     \* answers on the way back
  \* the machines
  run,         \* run[v]: control state and locals of the installer
  claimFile,   \* claimFile[v]: the stored install claim
  config,      \* config[v]: credentials in the agent's config file
  \* history and bounds
  newest,      \* the ticket created last
  drawn,       \* claims drawn so far
  runs, losses, crashes, deletes

tables == <<present, issued, expired, claimOf, bound, agents, nodeAgent>>
disks  == <<claimFile, config>>
net    == <<requests, answers>>
bounds == <<runs, losses, crashes, deletes>>
vars   == <<tables, job, net, run, disks, newest, drawn, bounds>>

-----------------------------------------------------------------------------
(* Data                                                                     *)

Ids == [ticket : Tickets, claim : Claims]
Id(t, c) == [ticket |-> t, claim |-> c]

Requests == [host : Hosts, id : Ids]
Answers  == [host : Hosts, id : Ids, ok : BOOLEAN]

\* The D1 call that comes next: the ticket, the claim, the agent of an earlier
\* registration, the node's present agent, the batch; then publishAgents and the
\* answer.  "delete" is the batch of deleteVps.
JobPlaces == {"idle", "ticket", "claim", "existing", "old", "batch", "answer", "delete"}
Jobs == [pc : JobPlaces, req : Requests \cup {None}, seen : Ids \cup {None}, old : Ids \cup {None}]
NoJob == [pc |-> "idle", req |-> None, seen |-> None, old |-> None]

RunPlaces == {"idle", "claim", "send", "waiting", "write", "clean"}
Runs == [pc : RunPlaces, ticket : Tickets \cup {None}, claim : Claims \cup {None}, tries : 0..MaxTries]
NoRun == [pc |-> "idle", ticket |-> None, claim |-> None, tries |-> 0]

TypeOK ==
  /\ present \in BOOLEAN
  /\ issued \subseteq Tickets /\ expired \subseteq Tickets
  /\ claimOf \in [Tickets -> Claims \cup {None}]
  /\ bound \in [Tickets -> Ids \cup {None}]
  /\ agents \subseteq Ids
  /\ nodeAgent \in Ids \cup {None}
  /\ job \in [Handlers -> Jobs]
  /\ requests \subseteq Requests /\ answers \subseteq Answers
  /\ run \in [Hosts -> Runs]
  /\ claimFile \in [Hosts -> Claims \cup {None}]
  /\ config \in [Hosts -> Ids \cup {None}]
  /\ newest \in Tickets
  /\ drawn \subseteq Claims
  /\ runs \in Nat /\ losses \in Nat /\ crashes \in Nat /\ deletes \in Nat

\* createVps makes the node and its first ticket in one batch.
Init ==
  /\ present = TRUE
  /\ newest \in Tickets /\ issued = {newest} /\ expired = {}
  /\ claimOf = [t \in Tickets |-> None]
  /\ bound = [t \in Tickets |-> None]
  /\ agents = {} /\ nodeAgent = None
  /\ job = [h \in Handlers |-> NoJob]
  /\ requests = {} /\ answers = {}
  /\ run = [v \in Hosts |-> NoRun]
  /\ claimFile = [v \in Hosts |-> None]
  /\ config = [v \in Hosts |-> None]
  /\ drawn = {}
  /\ runs = 0 /\ losses = 0 /\ crashes = 0 /\ deletes = 0

-----------------------------------------------------------------------------
(* Tickets                                                                  *)

\* vpsInstall and freshInstallTicket.  The older tickets get a used_at, which
\* registerAgent selects and does not look at.
CreateTicket(t) ==
  /\ present /\ t \notin issued
  /\ issued' = issued \cup {t}
  /\ newest' = t
  /\ UNCHANGED <<present, expired, claimOf, bound, agents, nodeAgent, job, net, run,
                 disks, drawn, bounds>>

Expire(t) ==
  /\ t \in (issued \cap Expiring) \ expired
  /\ expired' = expired \cup {t}
  /\ UNCHANGED <<present, issued, claimOf, bound, agents, nodeAgent, job, net, run,
                 disks, newest, drawn, bounds>>

-----------------------------------------------------------------------------
(* registerAgent                                                            *)

Become(h, new) == job' = [job EXCEPT ![h] = new]
Move(h, place) == Become(h, [job[h] EXCEPT !.pc = place])

Answer(h, ok) ==
  /\ Become(h, NoJob)
  /\ answers' = answers \cup {[host |-> job[h].req.host, id |-> job[h].req.id, ok |-> ok]}

At(h, place) == job[h].pc = place

\* Mutant of Usable: a ticket that is bound counts as used up.
UsableOnce(t) == present /\ t \in issued \ expired /\ bound[t] = None

\* A row the SELECT of the ticket finds; the join needs the node.
Usable(t) == present /\ t \in issued \ expired

Accept(h, m) ==
  /\ At(h, "idle") /\ m \in requests
  /\ requests' = requests \ {m}
  /\ Become(h, [NoJob EXCEPT !.pc = "ticket", !.req = m])
  /\ UNCHANGED <<tables, answers, run, disks, newest, drawn, bounds>>

\* The ticket with its node and profile; what the profile asks of the machine
\* (mode, ports) is taken to match.
SelectTicket(h) ==
  /\ At(h, "ticket")
  /\ LET t == job[h].req.id.ticket
     IN  IF Usable(t)
           THEN /\ Become(h, [job[h] EXCEPT !.pc = "claim", !.seen = bound[t]])
                /\ UNCHANGED answers
           ELSE Answer(h, FALSE)
  /\ UNCHANGED <<tables, requests, run, disks, newest, drawn, bounds>>

\* Mutant of Claimable: the claim is not compared.
ClaimableAnyway(id) == id.ticket \in issued

\* The WHERE clause of UPDATE ... SET claim_hash=COALESCE(claim_hash,?).
Claimable(id) == id.ticket \in issued /\ claimOf[id.ticket] \in {None, id.claim}

ClaimTicket(h) ==
  /\ At(h, "claim")
  /\ LET id == job[h].req.id
     IN  /\ claimOf' = IF Claimable(id) THEN [claimOf EXCEPT ![id.ticket] = id.claim] ELSE claimOf
         /\ IF Claimable(id) /\ job[h].seen \in {None, id}
              THEN /\ Move(h, IF job[h].seen = None THEN "old" ELSE "existing")
                   /\ UNCHANGED answers
              ELSE Answer(h, FALSE)
  /\ UNCHANGED <<present, issued, expired, bound, agents, nodeAgent, requests, run,
                 disks, newest, drawn, bounds>>

\* The answer to a retry of what already happened.
SelectExisting(h) ==
  /\ At(h, "existing")
  /\ IF job[h].req.id \in agents THEN Answer(h, TRUE)
     ELSE Move(h, "old") /\ UNCHANGED answers
  /\ UNCHANGED <<tables, requests, run, disks, newest, drawn, bounds>>

SelectOld(h) ==
  /\ At(h, "old")
  /\ Become(h, [job[h] EXCEPT !.pc = "batch", !.old = nodeAgent])
  /\ UNCHANGED <<tables, net, run, disks, newest, drawn, bounds>>

\* The WHERE clauses of the batch: the ticket is alive, claimed and this agent's.
Bindable(id) == /\ id.ticket \in issued \ expired
                /\ claimOf[id.ticket] = id.claim
                /\ bound[id.ticket] \in {None, id}

\* The agent rows after the ticket update and the INSERT ... SELECT of the batch.
Inserted(id) == IF Bindable(id) THEN agents \cup {id} ELSE agents

\* Mutant of Replaced: the agent of the earlier installation stays.
ReplacedNothing(id, old) == Inserted(id)

\* Mutant of Replaced: it is not asked whether the old agent is this one.
ReplacedAlways(id, old) == Inserted(id) \ {old}

\* The last statement deletes the agent the node had when it was read.
Replaced(id, old) == IF old = id THEN Inserted(id) ELSE Inserted(id) \ {old}

\* The batch.  Without a row for the agent the update of the node breaks its
\* foreign key, without the node the install event breaks its own: either way
\* nothing is changed.
RegisterBatch(h) ==
  /\ At(h, "batch")
  /\ LET id == job[h].req.id
     IN  IF present /\ id \in Inserted(id)
           THEN /\ bound' = IF Bindable(id) THEN [bound EXCEPT ![id.ticket] = id] ELSE bound
                /\ agents' = Replaced(id, job[h].old)
                /\ nodeAgent' = id
                /\ Move(h, "answer")
                /\ UNCHANGED answers
           ELSE Answer(h, FALSE) /\ UNCHANGED <<bound, agents, nodeAgent>>
  /\ UNCHANGED <<present, issued, expired, claimOf, requests, run, disks,
                 newest, drawn, bounds>>

\* publishAgents (module Reconcile) and the 200 or 201.
Grant(h) ==
  /\ At(h, "answer") /\ Answer(h, TRUE)
  /\ UNCHANGED <<tables, requests, run, disks, newest, drawn, bounds>>

\* The isolate is evicted or a D1 call rejects: the caller gets nothing or a 500.
JobFails(h) ==
  /\ ~At(h, "idle") /\ losses < MaxLosses
  /\ losses' = losses + 1
  /\ Become(h, NoJob)
  /\ UNCHANGED <<tables, net, run, disks, newest, drawn, runs, crashes, deletes>>

-----------------------------------------------------------------------------
(* deleteVps with force=true, or of a node that has no agent                *)

SelectNode(h) ==
  /\ At(h, "idle") /\ present /\ deletes < MaxDeletes
  /\ deletes' = deletes + 1
  /\ Become(h, [NoJob EXCEPT !.pc = "delete", !.old = nodeAgent])
  /\ UNCHANGED <<tables, net, run, disks, newest, drawn, runs, losses, crashes>>

\* The node takes its tickets with it; the agent deleted is the one read before.
DeleteBatch(h) ==
  /\ At(h, "delete")
  /\ present' = FALSE
  /\ issued' = {} /\ expired' = {}
  /\ claimOf' = [t \in Tickets |-> None]
  /\ bound' = [t \in Tickets |-> None]
  /\ agents' = agents \ {job[h].old}
  /\ nodeAgent' = None
  /\ Become(h, NoJob)
  /\ UNCHANGED <<net, run, disks, newest, drawn, bounds>>

-----------------------------------------------------------------------------
(* The installer                                                            *)

Proceed(v, new) == run' = [run EXCEPT ![v] = new]

\* Somebody pastes the install command of a ticket on a machine.
StartInstall(v, t) ==
  /\ run[v].pc = "idle" /\ t \in issued /\ runs < MaxRuns
  /\ runs' = runs + 1
  /\ Proceed(v, [NoRun EXCEPT !.pc = "claim", !.ticket = t])
  /\ UNCHANGED <<tables, job, net, disks, newest, drawn, losses, crashes, deletes>>

\* Mutant of LoadClaim: what is drawn need not be new.
LoadClaimDrawn(v) ==
  /\ run[v].pc = "claim"
  /\ \E c \in Claims :
       /\ claimFile[v] \in {None, c}
       /\ Proceed(v, [run[v] EXCEPT !.pc = "send", !.claim = c])
       /\ claimFile' = [claimFile EXCEPT ![v] = c]
       /\ drawn' = drawn \cup {c}
  /\ UNCHANGED <<tables, job, net, config, newest, bounds>>

\* loadOrCreateInstallClaim: the stored claim, or a fresh one stored by a rename.
LoadClaim(v) ==
  /\ run[v].pc = "claim"
  /\ \E c \in Claims :
       /\ IF claimFile[v] = None THEN c \notin drawn ELSE c = claimFile[v]
       /\ Proceed(v, [run[v] EXCEPT !.pc = "send", !.claim = c])
       /\ claimFile' = [claimFile EXCEPT ![v] = c]
       /\ drawn' = drawn \cup {c}
  /\ UNCHANGED <<tables, job, net, config, newest, bounds>>

Mine(v) == [host |-> v, id |-> Id(run[v].ticket, run[v].claim)]

SendRegister(v) ==
  /\ run[v].pc = "send"
  /\ requests' = requests \cup {Mine(v)}
  /\ Proceed(v, [run[v] EXCEPT !.pc = "waiting", !.tries = @ + 1])
  /\ UNCHANGED <<tables, job, answers, disks, newest, drawn, bounds>>

\* Mutant of Retry: one attempt too many.
RetryOnceMore(v) ==
  Proceed(v, IF run[v].tries > MaxTries THEN NoRun ELSE [run[v] EXCEPT !.pc = "send"])

\* A failed attempt is repeated until MaxTries; the claim file stays.
Retry(v) ==
  Proceed(v, IF run[v].tries = MaxTries THEN NoRun ELSE [run[v] EXCEPT !.pc = "send"])

ReceiveGrant(v) ==
  LET m == [host |-> v, id |-> Mine(v).id, ok |-> TRUE]
  IN  /\ run[v].pc = "waiting" /\ m \in answers
      /\ answers' = answers \ {m}
      /\ Proceed(v, [run[v] EXCEPT !.pc = "write"])
      /\ UNCHANGED <<tables, job, requests, disks, newest, drawn, bounds>>

ReceiveRefusal(v) ==
  LET m == [host |-> v, id |-> Mine(v).id, ok |-> FALSE]
  IN  /\ run[v].pc = "waiting" /\ m \in answers
      /\ answers' = answers \ {m}
      /\ Retry(v)
      /\ UNCHANGED <<tables, job, requests, disks, newest, drawn, bounds>>

\* Something this attempt is still waiting for.
Outstanding(v) ==
  \/ Mine(v) \in requests
  \/ \E h \in Handlers : job[h].req = Mine(v)
  \/ \E ok \in BOOLEAN : [host |-> v, id |-> Mine(v).id, ok |-> ok] \in answers

\* The HTTP client gives up: nothing can come any more, or it comes too late (an
\* attempt that was given up stays on the way).
GiveUp(v) ==
  /\ run[v].pc = "waiting"
  /\ \/ ~Outstanding(v) /\ UNCHANGED losses
     \/ Outstanding(v) /\ losses < MaxLosses /\ losses' = losses + 1
  /\ Retry(v)
  /\ UNCHANGED <<tables, job, net, disks, newest, drawn, runs, crashes, deletes>>

\* writeJSONAtomic of the agent's config, then the claim goes.
WriteConfig(v) ==
  /\ run[v].pc = "write"
  /\ config' = [config EXCEPT ![v] = Mine(v).id]
  /\ Proceed(v, [run[v] EXCEPT !.pc = "clean"])
  /\ UNCHANGED <<tables, job, net, claimFile, newest, drawn, bounds>>

RemoveClaim(v) ==
  /\ run[v].pc = "clean"
  /\ claimFile' = [claimFile EXCEPT ![v] = None]
  /\ Proceed(v, NoRun)
  /\ UNCHANGED <<tables, job, net, config, newest, drawn, bounds>>

\* The installer is killed or the machine reboots: files stay.
InstallerDies(v) ==
  /\ run[v].pc # "idle" /\ crashes < MaxCrashes
  /\ crashes' = crashes + 1
  /\ Proceed(v, NoRun)
  /\ UNCHANGED <<tables, job, net, disks, newest, drawn, runs, losses, deletes>>

LoseRequest(m) ==
  /\ m \in requests /\ losses < MaxLosses
  /\ requests' = requests \ {m}
  /\ losses' = losses + 1
  /\ UNCHANGED <<tables, job, answers, run, disks, newest, drawn, runs, crashes, deletes>>

LoseAnswer(m) ==
  /\ m \in answers /\ losses < MaxLosses
  /\ answers' = answers \ {m}
  /\ losses' = losses + 1
  /\ UNCHANGED <<tables, job, requests, run, disks, newest, drawn, runs, crashes, deletes>>

-----------------------------------------------------------------------------
JobStep(h) ==
  \/ SelectTicket(h) \/ ClaimTicket(h) \/ SelectExisting(h) \/ SelectOld(h)
  \/ RegisterBatch(h) \/ Grant(h) \/ DeleteBatch(h)

InstallerStep(v) ==
  \/ LoadClaim(v) \/ SendRegister(v) \/ ReceiveGrant(v) \/ ReceiveRefusal(v)
  \/ GiveUp(v) \/ WriteConfig(v) \/ RemoveClaim(v)

Next ==
  \/ \E h \in Handlers :
       JobStep(h) \/ SelectNode(h) \/ JobFails(h) \/ \E m \in requests : Accept(h, m)
  \/ \E v \in Hosts : InstallerStep(v) \/ InstallerDies(v) \/ \E t \in Tickets : StartInstall(v, t)
  \/ \E t \in Tickets : CreateTicket(t) \/ Expire(t)
  \/ \E m \in requests : LoseRequest(m)
  \/ \E m \in answers : LoseAnswer(m)

Spec == Init /\ [][Next]_vars

\* Every D1 call settles, the network delivers what it does not lose and the
\* installer runs on; nobody promises a new ticket or another installer run.
Fairness ==
  /\ \A h \in Handlers : WF_vars(JobStep(h))
  /\ \A v \in Hosts : WF_vars(InstallerStep(v))
  /\ WF_vars(\E h \in Handlers, m \in requests : Accept(h, m))

FairSpec == Spec /\ Fairness

-----------------------------------------------------------------------------
(* Properties                                                               *)

\* Every agent row is the one its ticket is bound and claimed for, so a ticket
\* never makes two agents, whatever duplicates and competitors are under way
\* (claim_hash and agent_id in the WHERE clauses of registerAgent).
OneAgentPerTicket ==
  present => \A id \in agents : claimOf[id.ticket] = id.claim /\ bound[id.ticket] = id

\* Two machines never hold credentials of one ticket, also when the command was
\* pasted on both (claims are random and the first one keeps the ticket).
OneHostPerTicket ==
  \A v, w \in Hosts :
    v # w /\ config[v] # None /\ config[w] # None => config[v].ticket # config[w].ticket

\* Credentials on a machine stay good until the node is deleted or an agent of
\* another ticket has taken the node over: lost answers, retries and duplicates
\* of one registration never invalidate what it granted.
HeldIsServed ==
  \A v \in Hosts :
    present /\ config[v] # None =>
      \/ config[v] \in agents
      \/ nodeAgent # None /\ nodeAgent.ticket # config[v].ticket

\* No agent without a node: a replaced or deleted agent loses its row and with it
\* its token (the DELETEs of registerAgent and deleteVps).
NoOrphans == agents \subseteq {nodeAgent}

\* A running installer obtains its credentials, up to MaxTries - 1 losses, unless
\* some installer was killed or the node is deleted: the retry of a registration
\* that went through is answered like the first.
EnrollmentCompletes ==
  \A v \in Hosts : run[v].pc # "idle" ~> config[v] # None \/ crashes # 0 \/ ~present

\* A claim the code does not keep, left for whoever mends registerAgent (api.ts:714).
\* A newer ticket ends the older ones: the node is given only to an agent of the
\* ticket created last.
OldTicketsDead ==
  [][nodeAgent' \notin {None, nodeAgent} => nodeAgent'.ticket = newest]_vars
=============================================================================

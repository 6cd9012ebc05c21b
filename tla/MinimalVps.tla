------------------------------ MODULE MinimalVps ------------------------------
(***************************************************************************)
(* A minimal VPS (node_kind 'minimal'): no agent, a configuration that is  *)
(* installed once by a script and one report of that script.               *)
(*                                                                         *)
(* Each D1 call of a handler is an action.  updateMinimalVps writes in two *)
(* batches, the second being freshInstallTicket; minimalComplete checks    *)
(* with a SELECT and writes later, without a condition on what it read.    *)
(* Several install scripts may run on the machine at a time.               *)
(***************************************************************************)
EXTENDS Naturals, Sequences

CONSTANTS
  Runtimes,     \* [listen, target]: what the script puts on the VPS, keys apart
  Ports,        \* public ports, which only subscriptions use
  Handlers,     \* requests worked on at one time
  Scripts,      \* install scripts running at one time
  None, Deleted,
  MaxEdits,     \* bound: updateVps requests
  MaxTickets,   \* bound: tickets, those of updates not counted
  MaxScripts,   \* bound: install scripts fetched
  MaxFaults     \* bound: lost answers and requests that die

VARIABLES
  node,      \* the row with its profile, None before and Deleted after it
  tickets,   \* rows of install_tickets, in the order of their creation
  job,       \* job[h]: a request between two of its D1 calls
  script,    \* script[s]: a script on the VPS
  disk, running,   \* by mode: the runtime in config.json, the one sing-box has loaded
  crossed,   \* a request wrote while another was worked on, or died half done
  crowded,   \* two scripts were on the VPS at one time
  edits, issued, fetched, faults

server  == <<node, tickets>>
machine == <<disk, running>>
bounds  == <<edits, issued, fetched, faults>>
vars    == <<server, job, script, machine, crossed, crowded, bounds>>

-----------------------------------------------------------------------------
\* A script run by root and one run by a user install into directories and
\* services of their own, and neither knows of the other's.
Modes == {"system", "user"}

\* The row of a node, with what the script reads of its profile.
Rows == [runtime : Runtimes, port : Ports, provisioned : BOOLEAN, draft : BOOLEAN,
         enabled : BOOLEAN, mode : Modes]

\* A runtime is its port and its handshake server; a row is there or it is not.
ASSUME ConstantsAssumption ==
  /\ \A r, t \in Runtimes : r.listen = t.listen /\ r.target = t.target => r = t
  /\ None # Deleted /\ Rows \cap {None, Deleted} = {}

Privileged(port) == port <= 1024
RuntimeOf(row) == row.runtime
Ticket == [used |-> FALSE, expired |-> FALSE]

Idle == [op |-> "idle"]
NoScript == [step |-> "none"]
Busy(h) == \E g \in Handlers \ {h} : job[g] # Idle

Exists == node \notin {None, Deleted}

\* subscription: the conditions on a minimal node.
Offered == Exists /\ node.enabled /\ ~node.draft /\ node.provisioned

Init ==
  /\ node = None /\ tickets = <<>>
  /\ job = [h \in Handlers |-> Idle]
  /\ script = [s \in Scripts |-> NoScript]
  /\ disk = [m \in Modes |-> None] /\ running = [m \in Modes |-> None]
  /\ crossed = FALSE /\ crowded = FALSE
  /\ edits = 0 /\ issued = 0 /\ fetched = 0 /\ faults = 0

-----------------------------------------------------------------------------
(* The administrator's requests                                             *)

createMinimalVps(runtime, port) ==
  /\ node = None
  /\ node' = [runtime |-> runtime, port |-> port, provisioned |-> FALSE, draft |-> TRUE, enabled |-> TRUE,
              mode |-> IF Privileged(runtime.listen) THEN "system" ELSE "user"]
  /\ tickets' = <<Ticket>>
  /\ UNCHANGED <<job, script, machine, crossed, crowded, bounds>>

\* updateVps reads the row.
ReadForUpdate(h, runtime, port) ==
  /\ job[h] = Idle /\ Exists /\ edits < MaxEdits /\ edits' = edits + 1
  /\ job' = [job EXCEPT ![h] = [op |-> "update", runtime |-> runtime, port |-> port, row |-> node]]
  /\ UNCHANGED <<server, script, machine, crossed, crowded, issued, fetched, faults>>

\* Mutant of runtimeChanged: the handshake server is forgotten.
runtimeChangedPort(old, new) == old.listen # new.listen

runtimeChanged(old, new) == old.listen # new.listen \/ old.target # new.target

\* The batch of updateMinimalVps; what changed is judged from the row read.
updateMinimalVps(h) ==
  /\ job[h].op = "update"
  /\ LET new == job[h].runtime
         changed == runtimeChanged(job[h].row.runtime, new)
         row == [node EXCEPT !.runtime = new, !.port = job[h].port]
     IN  /\ node' = IF ~Exists THEN node
                    ELSE IF changed THEN [row EXCEPT !.provisioned = FALSE, !.draft = TRUE,
                                                !.mode = IF Privileged(new.listen) THEN "system" ELSE "user"]
                    ELSE row
         /\ job' = [job EXCEPT ![h] = IF changed THEN [op |-> "ticket"] ELSE Idle]
  /\ crossed' = (crossed \/ Busy(h))
  /\ UNCHANGED <<tickets, script, machine, crowded, bounds>>

\* vpsInstall reads the row.
vpsInstall(h) ==
  /\ job[h] = Idle /\ Exists /\ node.enabled /\ issued < MaxTickets /\ issued' = issued + 1
  /\ job' = [job EXCEPT ![h] = [op |-> "ticket"]]
  /\ UNCHANGED <<server, script, machine, crossed, crowded, edits, fetched, faults>>

\* Mutant of Superseded: the older tickets are left alone.
SupersededNot(all) == all

\* The older tickets, marked as used.
Superseded(all) == [i \in DOMAIN all |-> [all[i] EXCEPT !.used = TRUE]]

\* The batch; the ticket of a node that is gone violates a foreign key.
freshInstallTicket(h) ==
  /\ job[h].op = "ticket"
  /\ tickets' = IF Exists THEN Append(Superseded(tickets), Ticket) ELSE tickets
  /\ job' = [job EXCEPT ![h] = Idle]
  /\ crossed' = (crossed \/ Busy(h))
  /\ UNCHANGED <<node, script, machine, crowded, bounds>>

setEnabled(enabled) ==
  /\ Exists /\ node.enabled # enabled
  /\ node' = [node EXCEPT !.enabled = enabled]
  /\ UNCHANGED <<tickets, job, script, machine, crossed, crowded, bounds>>

\* deleteVps of a node without an agent; its tickets go with it.
deleteVps ==
  /\ Exists
  /\ node' = Deleted /\ tickets' = <<>>
  /\ UNCHANGED <<job, script, machine, crossed, crowded, bounds>>

-----------------------------------------------------------------------------
(* The script on the VPS                                                    *)

\* minimalInstaller hands out the configuration of the row; the script stops
\* at once (NM-M102) when it lacks root for the port.
minimalInstaller(s, i, mode) ==
  /\ script[s] = NoScript /\ fetched < MaxScripts /\ fetched' = fetched + 1
  /\ i \in DOMAIN tickets /\ ~tickets[i].used /\ ~tickets[i].expired /\ Exists /\ node.enabled
  /\ mode = "user" => ~Privileged(node.runtime.listen)
  /\ script' = [script EXCEPT ![s] = [step |-> "replace", ticket |-> i, runtime |-> RuntimeOf(node), mode |-> mode]]
  /\ crowded' = (crowded \/ \E t \in Scripts \ {s} : script[t] # NoScript)
  /\ UNCHANGED <<server, job, machine, crossed, edits, issued, faults>>

\* sing-box check passed and the file is moved into place.
Replace(s) ==
  /\ script[s].step = "replace"
  /\ disk' = [disk EXCEPT ![script[s].mode] = script[s].runtime]
  /\ script' = [script EXCEPT ![s].step = "restart"]
  /\ UNCHANGED <<server, job, running, crossed, crowded, bounds>>

\* sing-box of mode m can listen on its port.
CanStart(m) ==
  /\ disk[m] # None
  /\ \A o \in Modes \ {m} : running[o] # None => running[o].listen # disk[m].listen

\* The old process is stopped first.  The new one runs, or fails: that ends the
\* script (NM-M108, systemctl restart), or is not noticed (OpenRC is not asked,
\* is-active is true right after the start).
Restart(s) ==
  /\ script[s].step = "restart"
  /\ LET m == script[s].mode
     IN  \/ /\ CanStart(m)
            /\ running' = [running EXCEPT ![m] = disk[m]]
            /\ script' = [script EXCEPT ![s].step = "report"]
         \/ /\ running' = [running EXCEPT ![m] = None]
            /\ \/ script' = [script EXCEPT ![s] = NoScript]
               \/ script' = [script EXCEPT ![s].step = "report"]
  /\ UNCHANGED <<server, job, disk, crossed, crowded, bounds>>

\* Any command of the script fails (set -e), or the operator stops it.
ScriptStops(s) ==
  /\ script[s] # NoScript
  /\ script' = [script EXCEPT ![s] = NoScript]
  /\ UNCHANGED <<server, job, machine, crossed, crowded, bounds>>

Reboot ==
  /\ running' = [m \in Modes |-> None]
  /\ script' = [s \in Scripts |-> NoScript]
  /\ UNCHANGED <<server, job, disk, crossed, crowded, bounds>>

\* sing-box ends by itself.
Ends(m) ==
  /\ running[m] # None
  /\ running' = [running EXCEPT ![m] = None]
  /\ UNCHANGED <<server, job, script, disk, crossed, crowded, bounds>>

\* A service manager starts what the file says: at boot, at a login, after a
\* failure.  Without one nothing does.
Starts(m) ==
  /\ running[m] = None /\ CanStart(m)
  /\ running' = [running EXCEPT ![m] = disk[m]]
  /\ UNCHANGED <<server, job, script, disk, crossed, crowded, bounds>>

-----------------------------------------------------------------------------
(* The report                                                               *)

\* Mutant of Idempotent: a used ticket is enough.
IdempotentUsed(i) == i \in DOMAIN tickets /\ tickets[i].used

\* A report repeated after it was handled.
Idempotent(i) == i \in DOMAIN tickets /\ tickets[i].used /\ node.provisioned

\* minimalComplete refuses: unknown or expired ticket, disabled node, a user
\* on a low port, a ticket that another one replaced.
Refused(i, mode) ==
  i \in DOMAIN tickets =>
    \/ tickets[i].expired \/ ~node.enabled
    \/ mode = "user" /\ Privileged(node.runtime.listen)
    \/ tickets[i].used /\ ~Idempotent(i)

\* The script is told that all is well.
Told(s) == script' = [script EXCEPT ![s] = NoScript]

\* The SELECT of minimalComplete; a 4xx ends the script (curl -f).
ReadForComplete(h, s) ==
  /\ job[h] = Idle /\ script[s].step = "report"
  /\ \/ /\ Refused(script[s].ticket, script[s].mode) \/ Idempotent(script[s].ticket)
        /\ Told(s) /\ UNCHANGED job
     \/ /\ ~Refused(script[s].ticket, script[s].mode) /\ ~tickets[script[s].ticket].used
        /\ job' = [job EXCEPT ![h] = [op |-> "complete", by |-> s, ticket |-> script[s].ticket, mode |-> script[s].mode]]
        /\ script' = [script EXCEPT ![s].step = "waiting"]
  /\ UNCHANGED <<server, machine, crossed, crowded, bounds>>

\* The batch.  The script gets its answer, or an error that curl retries, or
\* is no longer there.  The batch fails when the node is gone (a foreign key).
minimalComplete(h) ==
  /\ job[h].op = "complete"
  /\ IF Exists
       THEN /\ node' = [node EXCEPT !.provisioned = TRUE, !.draft = FALSE, !.mode = job[h].mode]
            /\ tickets' = [tickets EXCEPT ![job[h].ticket].used = TRUE]
       ELSE UNCHANGED server
  /\ LET s == job[h].by
         waits == script[s].step = "waiting" /\ script[s].ticket = job[h].ticket
     IN  \/ /\ waits => Exists
            /\ script' = IF waits THEN [script EXCEPT ![s] = NoScript] ELSE script
            /\ UNCHANGED faults
         \/ /\ waits /\ ~Exists
            /\ script' = [script EXCEPT ![s].step = "report"] /\ UNCHANGED faults
         \/ /\ waits /\ Exists /\ faults < MaxFaults /\ faults' = faults + 1
            /\ script' = [script EXCEPT ![s].step = "report"]
  /\ job' = [job EXCEPT ![h] = Idle]
  /\ crossed' = (crossed \/ Busy(h))
  /\ UNCHANGED <<machine, crowded, edits, issued, fetched>>

\* A request dies between two D1 calls; its script tries again.
HandlerDies(h) ==
  /\ job[h] # Idle /\ faults < MaxFaults /\ faults' = faults + 1
  /\ job' = [job EXCEPT ![h] = Idle]
  /\ script' = IF job[h].op = "complete" /\ script[job[h].by].step = "waiting"
                 THEN [script EXCEPT ![job[h].by].step = "report"] ELSE script
  /\ crossed' = (crossed \/ job[h].op = "ticket")
  /\ UNCHANGED <<server, machine, crowded, edits, issued, fetched>>

Expire(i) ==
  /\ i \in DOMAIN tickets /\ ~tickets[i].expired
  /\ tickets' = [tickets EXCEPT ![i].expired = TRUE]
  /\ UNCHANGED <<node, job, script, machine, crossed, crowded, bounds>>

Next ==
  \/ \E runtime \in Runtimes, port \in Ports : createMinimalVps(runtime, port)
  \/ \E h \in Handlers : \/ \E runtime \in Runtimes, port \in Ports : ReadForUpdate(h, runtime, port)
                         \/ updateMinimalVps(h) \/ vpsInstall(h) \/ freshInstallTicket(h)
                         \/ \E s \in Scripts : ReadForComplete(h, s)
                         \/ minimalComplete(h) \/ HandlerDies(h)
  \/ \E enabled \in BOOLEAN : setEnabled(enabled)
  \/ deleteVps
  \/ \E s \in Scripts : \/ \E i \in DOMAIN tickets, mode \in Modes : minimalInstaller(s, i, mode)
                        \/ Replace(s) \/ Restart(s) \/ ScriptStops(s)
  \/ Reboot
  \/ \E m \in Modes : Ends(m) \/ Starts(m)
  \/ \E i \in DOMAIN tickets : Expire(i)

Spec == Init /\ [][Next]_vars

-----------------------------------------------------------------------------
(* Properties                                                               *)

\* The rows are well typed, and a node never has two tickets that a script can
\* be fetched with (api.ts:322), whatever requests cross.
TypeOK ==
  /\ Exists => node \in Rows
  /\ {disk, running} \subseteq [Modes -> Runtimes \cup {None}]
  /\ \A i, j \in DOMAIN tickets : ~tickets[i].used /\ ~tickets[j].used => i = j

\* The installation the node was offered with holds what subscriptions say, and
\* runs that or nothing.
Installed == disk[node.mode] = RuntimeOf(node) /\ running[node.mode] \in {None, RuntimeOf(node)}

\* The sing-box of an offered minimal VPS never runs, nor would start after a
\* reboot, anything else than what subscriptions say: a changed port or
\* handshake server withdraws the node until a script with that change has
\* reported (README.md:84, api.ts:416).  That it runs at all nobody promises:
\* it may have failed after the script looked, died, or not come back after a
\* reboot (minimal-install.ts:103-174).
OfferedIsInstalled == Offered /\ ~crossed /\ ~crowded => Installed

\* A report that is repeated, late or made with a replaced ticket is only
\* answered with ok when the node is offered as it was installed (api.ts:499).
ToldIsOffered ==
  [][\A h \in Handlers, s \in Scripts :
       /\ ReadForComplete(h, s) /\ ~Refused(script[s].ticket, script[s].mode) /\ script'[s] = NoScript
       /\ ~crossed /\ ~crowded
       => Offered' /\ Installed]_vars
=============================================================================

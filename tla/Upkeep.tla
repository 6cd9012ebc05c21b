-------------------------------- MODULE Upkeep --------------------------------
(***************************************************************************)
(* What the loop of the agent does besides applying revisions              *)
(* (agent/main.go: run): it renews certificates and restarts sing-box to   *)
(* load them (certificate.go), and it keeps one cloudflared running and    *)
(* known by its pid file (tunnel.go), while revisions bring other          *)
(* certificates, `nodemanage-agent upgrade` replaces cloudflared           *)
(* (installer.go) and processes die.                                       *)
(*                                                                         *)
(* The VPS is a tunnel VPS installed by systemd, or one without supervisor *)
(* (standalone).  The domains of a pass are independent of each other and  *)
(* are taken in any order; the links behind an apply are in ReleaseSwitch. *)
(***************************************************************************)
EXTENDS FiniteSets, Naturals

CONSTANTS
  Domains, Pids, None,
  MaxDue,       \* bound: certificates that come to their last 30 days
  MaxRevisions, \* bound: revisions applied
  MaxUpgrades,  \* bound: upgrades that replace cloudflared
  MaxFaults     \* bound: crashes, reboots, failing calls

ASSUME NoneIsNoPid == None \notin Pids

VARIABLES
  systemd,   \* the init system restarts the agent and kills its children
  required,  \* the domains in current/certificates.json
  health,    \* of the certificate on disk: "valid", "due" or "invalid"
  deferred,  \* domains whose retry.json names a time to come
  loaded,    \* domains whose certificate on disk is the one sing-box has loaded
  pc,        \* where the agent is, "down" when it does not run
  wanted,    \* the domains of the revision that is applied
  todo, changed, fatal, \* locals of Ensure
  missed,    \* history: a pass renewed something and ended without its restart
  pidFile,
  proc,      \* proc[p]: "free", "foreign" or a cloudflared, "new" or "old"
  started,   \* the process that Start has returned
  upgrading, \* where the upgrade is
  readPid,   \* the pid that the upgrade has read
  torn,      \* history: an upgrade or a dying agent met ensureTunnel half way
  dues, revisions, upgrades, faults

certs  == <<required, health, deferred, loaded, missed>>
locals == <<wanted, todo, changed, fatal>>
tunnel == <<pidFile, proc, started, torn>>
upgrade == <<upgrading, readPid>>
bounds == <<dues, revisions, upgrades, faults>>
vars   == <<systemd, certs, pc, locals, tunnel, upgrade, bounds>>

-----------------------------------------------------------------------------
Init ==
  /\ systemd \in BOOLEAN
  /\ required = {} /\ health = [d \in Domains |-> "invalid"] /\ deferred = {} /\ loaded = {}
  /\ pc = "rest" /\ wanted = {} /\ todo = {} /\ changed = FALSE /\ fatal = FALSE /\ missed = FALSE
  /\ pidFile = None /\ proc = [p \in Pids |-> "free"] /\ started = None
  /\ upgrading = "no" /\ readPid = None /\ torn = FALSE
  /\ dues = 0 /\ revisions = 0 /\ upgrades = 0 /\ faults = 0

Fault == faults < MaxFaults /\ faults' = faults + 1

Tunnels == {p \in Pids : proc[p] \in {"old", "new"}}

\* sing-box starts with the certificates on disk.
Restarted == loaded' = Domains /\ missed' = FALSE
NotRestarted == missed' = (missed \/ changed) /\ UNCHANGED loaded

\* A pass takes up its requirements, and ends.
Takes(domains) == todo' = domains /\ UNCHANGED <<changed, fatal>>
Ends == wanted' = {} /\ todo' = {} /\ changed' = FALSE /\ fatal' = FALSE

-----------------------------------------------------------------------------
(* Certificates                                                             *)

Wake ==
  /\ pc = "rest" /\ pc' = "certificates"
  /\ Takes(required)
  /\ UNCHANGED <<systemd, certs, wanted, tunnel, upgrade, bounds>>

\* Mutant of Renew: changed tells of the last domain only.
RenewKept(d) ==
  IF health[d] = "valid"
    THEN changed' = FALSE /\ UNCHANGED <<health, deferred, loaded, fatal>>
    ELSE /\ d \notin deferred
         /\ health' = [health EXCEPT ![d] = "valid"] /\ loaded' = loaded \ {d}
         /\ changed' = TRUE
         /\ UNCHANGED <<deferred, fatal>>

\* Ensure leaves a valid certificate alone and otherwise has one issued.
Renew(d) ==
  IF health[d] = "valid"
    THEN UNCHANGED <<health, deferred, loaded, changed, fatal>>
    ELSE /\ d \notin deferred
         /\ health' = [health EXCEPT ![d] = "valid"] /\ loaded' = loaded \ {d}
         /\ changed' = TRUE
         /\ UNCHANGED <<deferred, fatal>>

\* A failure is fatal when there is nothing to go on with.
Fails(d) ==
  /\ health[d] # "valid"
  /\ (d \in deferred /\ UNCHANGED faults) \/ (d \notin deferred /\ Fault)
  /\ deferred' = deferred \cup {d}
  /\ fatal' = (fatal \/ health[d] = "invalid")
  /\ UNCHANGED <<health, loaded, changed>>

\* saveManagedCertificate has switched the link and fails while it prunes.
HalfSaved(d) ==
  /\ health[d] # "valid" /\ d \notin deferred /\ Fault
  /\ health' = [health EXCEPT ![d] = "valid"] /\ loaded' = loaded \ {d}
  /\ deferred' = deferred \cup {d}
  /\ fatal' = (fatal \/ health[d] = "invalid")
  /\ UNCHANGED changed

\* One domain of Ensure, in the loop or in apply.
Ensure(d) ==
  /\ pc \in {"certificates", "apply"} /\ d \in todo
  /\ todo' = todo \ {d}
  /\ \/ Renew(d) /\ UNCHANGED <<missed, faults>>
     \/ Fails(d) /\ UNCHANGED missed
     \/ HalfSaved(d) /\ missed' = TRUE
  /\ UNCHANGED <<systemd, required, pc, wanted, tunnel, upgrade, dues, revisions, upgrades>>

\* run restarts sing-box when something changed and there was no error.
Reload ==
  /\ pc = "certificates" /\ todo = {} /\ pc' = "tunnel" /\ Ends
  /\ \/ changed /\ ~fatal /\ Restarted /\ UNCHANGED faults
     \/ changed /\ ~fatal /\ NotRestarted /\ Fault
     \/ ~(changed /\ ~fatal) /\ NotRestarted /\ UNCHANGED faults
  /\ UNCHANGED <<systemd, required, health, deferred, tunnel, upgrade, dues, revisions, upgrades>>

\* Time passes.
Due(d) ==
  /\ health[d] = "valid" /\ dues < MaxDue /\ dues' = dues + 1
  /\ health' = [health EXCEPT ![d] = "due"]
  /\ UNCHANGED <<systemd, required, deferred, loaded, missed, pc, locals, tunnel, upgrade, revisions, upgrades, faults>>

Expires(d) ==
  /\ health[d] = "due"
  /\ health' = [health EXCEPT ![d] = "invalid"]
  /\ UNCHANGED <<systemd, required, deferred, loaded, missed, pc, locals, tunnel, upgrade, bounds>>

RetryDue(d) ==
  /\ d \in deferred /\ deferred' = deferred \ {d}
  /\ UNCHANGED <<systemd, required, health, loaded, missed, pc, locals, tunnel, upgrade, bounds>>

-----------------------------------------------------------------------------
(* sync and apply                                                           *)

Sync ==
  /\ pc = "sync"
  /\ \/ pc' = "rest" /\ UNCHANGED <<locals, revisions>>
     \/ /\ revisions < MaxRevisions /\ revisions' = revisions + 1
        /\ pc' = "apply" /\ wanted' \in SUBSET Domains
        /\ Takes(wanted')
  /\ UNCHANGED <<systemd, certs, tunnel, upgrade, dues, upgrades, faults>>

\* A certificate is missing, or sing-box check refuses: nothing is restarted.
ApplyRefused ==
  /\ pc = "apply" /\ todo = {} /\ pc' = "rest" /\ Ends
  /\ NotRestarted
  /\ UNCHANGED <<systemd, required, health, deferred, tunnel, upgrade, bounds>>

\* The release is activated and sing-box restarted, or all is rolled back.
Activate ==
  /\ pc = "apply" /\ todo = {} /\ ~fatal /\ pc' = "rest" /\ Ends
  /\ \/ required' = wanted /\ Restarted /\ UNCHANGED faults
     \/ UNCHANGED required /\ (Restarted \/ NotRestarted) /\ Fault
  /\ UNCHANGED <<systemd, health, deferred, tunnel, upgrade, dues, revisions, upgrades>>

-----------------------------------------------------------------------------
(* The tunnel                                                               *)

\* Mutant of tunnelActive: any process with that pid will do.
tunnelActiveAny == pidFile # None /\ proc[pidFile] # "free"

tunnelActive == pidFile # None /\ proc[pidFile] \in {"old", "new"}

CheckTunnel ==
  /\ pc = "tunnel" /\ pc' = IF tunnelActive THEN "sync" ELSE "stop"
  /\ UNCHANGED <<systemd, certs, locals, tunnel, upgrade, bounds>>

\* SIGTERM goes to whatever process has the pid.
Signalled(p) == IF p = None THEN proc ELSE [proc EXCEPT ![p] = "free"]

StopTunnel ==
  /\ pc = "stop" /\ pc' = "start"
  /\ proc' = Signalled(pidFile) /\ pidFile' = None
  /\ UNCHANGED <<systemd, certs, locals, started, torn, upgrade, bounds>>

StartTunnel ==
  /\ pc = "start"
  /\ \/ /\ pc' = "pid" /\ UNCHANGED faults
        /\ \E p \in Pids : /\ proc[p] = "free" /\ started' = p
                           /\ proc' = [proc EXCEPT ![p] = "new"]
     \/ pc' = "sync" /\ UNCHANGED <<started, proc>> /\ Fault
  /\ UNCHANGED <<systemd, certs, locals, pidFile, torn, upgrade, dues, revisions, upgrades>>

\* Mutant of WritePid: a process whose pid cannot be stored is left alone.
WritePidOnly ==
  /\ pc = "pid" /\ pc' = "sync" /\ started' = None
  /\ \/ pidFile' = started /\ UNCHANGED <<proc, faults>>
     \/ UNCHANGED <<pidFile, proc>> /\ Fault
  /\ UNCHANGED <<systemd, certs, locals, torn, upgrade, dues, revisions, upgrades>>

\* A process whose pid cannot be stored is killed.
WritePid ==
  /\ pc = "pid" /\ pc' = "sync" /\ started' = None
  /\ \/ pidFile' = started /\ UNCHANGED <<proc, faults>>
     \/ proc' = Signalled(started) /\ UNCHANGED pidFile /\ Fault
  /\ UNCHANGED <<systemd, certs, locals, torn, upgrade, dues, revisions, upgrades>>

TunnelDies ==
  /\ Fault /\ \E p \in Tunnels : proc' = Signalled(p)
  /\ UNCHANGED <<systemd, certs, pc, locals, pidFile, started, torn, upgrade, dues, revisions, upgrades>>

\* Another process gets the pid in the file.
PidReused ==
  /\ pidFile # None /\ proc[pidFile] = "free"
  /\ proc' = [proc EXCEPT ![pidFile] = "foreign"]
  /\ UNCHANGED <<systemd, certs, pc, locals, pidFile, started, torn, upgrade, bounds>>

-----------------------------------------------------------------------------
(* The agent dies                                                           *)

\* systemd kills what is left in the control group (Setsid does not leave it);
\* without it cloudflared goes on.
Orphans ==
  /\ proc' = IF systemd THEN [p \in Pids |-> IF p \in Tunnels THEN "free" ELSE proc[p]] ELSE proc
  /\ torn' = (~systemd /\ (torn \/ started # None))
  /\ started' = None

AgentDies ==
  /\ pc # "down" /\ pc' = "down" /\ Fault
  /\ NotRestarted /\ Ends
  /\ Orphans
  /\ UNCHANGED <<systemd, required, health, deferred, pidFile, upgrade, dues, revisions, upgrades>>

\* The VPS reboots; the pid file stays.
Reboot ==
  /\ Fault /\ pc' = "down"
  /\ Restarted /\ Ends
  /\ proc' = [p \in Pids |-> "free"] /\ started' = None /\ torn' = FALSE
  /\ upgrading' = "no" /\ readPid' = None
  /\ UNCHANGED <<systemd, required, health, deferred, pidFile, dues, revisions, upgrades>>

\* systemd starts the agent again; otherwise somebody does.
AgentStarts ==
  /\ pc = "down" /\ pc' = "rest"
  /\ UNCHANGED <<systemd, certs, locals, tunnel, upgrade, bounds>>

-----------------------------------------------------------------------------
(* Upgrade of cloudflared                                                   *)

InstallTunnel ==
  /\ upgrading = "no" /\ upgrades < MaxUpgrades /\ upgrades' = upgrades + 1
  /\ upgrading' = "singbox"
  /\ proc' = [p \in Pids |-> IF p \in Tunnels THEN "old" ELSE proc[p]]
  /\ UNCHANGED <<systemd, certs, pc, locals, pidFile, started, torn, readPid, dues, revisions, faults>>

\* A new sing-box is restarted first; if that fails the old one is put back
\* and the upgrade ends here.
UpgradeRuntime ==
  /\ upgrading = "singbox"
  /\ \/ upgrading' = "read" /\ UNCHANGED <<loaded, missed, torn, faults>>
     \/ upgrading' = "read" /\ Restarted /\ UNCHANGED <<torn, faults>>
     \/ /\ upgrading' = "no" /\ torn' = TRUE /\ Fault
        /\ Restarted \/ UNCHANGED <<loaded, missed>>
  /\ UNCHANGED <<systemd, required, health, deferred, pc, locals, pidFile, proc, started, readPid, dues, revisions, upgrades>>

ReadPid ==
  /\ upgrading = "read" /\ upgrading' = "stop" /\ readPid' = pidFile
  /\ UNCHANGED <<systemd, certs, pc, locals, tunnel, bounds>>

UpgradeStops ==
  /\ upgrading = "stop" /\ upgrading' = "agent" /\ readPid' = None
  /\ proc' = Signalled(readPid) /\ pidFile' = None
  /\ torn' = (torn \/ started # None \/ pidFile # readPid)
  /\ UNCHANGED <<systemd, certs, pc, locals, started, bounds>>

RestartAgent ==
  /\ upgrading = "agent" /\ upgrading' = "no"
  /\ (pc' = "rest" /\ UNCHANGED faults) \/ (pc' = "down" /\ Fault)
  /\ NotRestarted /\ Ends
  /\ Orphans
  /\ UNCHANGED <<systemd, required, health, deferred, pidFile, readPid, dues, revisions, upgrades>>

-----------------------------------------------------------------------------
Loop == \/ Wake \/ (\E d \in Domains : Ensure(d)) \/ Reload \/ Sync \/ ApplyRefused \/ Activate
        \/ CheckTunnel \/ StopTunnel \/ StartTunnel \/ WritePid
Upgrade == InstallTunnel \/ UpgradeRuntime \/ ReadPid \/ UpgradeStops \/ RestartAgent

Next ==
  \/ Wake \/ (\E d \in Domains : Ensure(d)) \/ Reload \/ Sync \/ ApplyRefused \/ Activate
  \/ CheckTunnel \/ StopTunnel \/ StartTunnel \/ WritePid
  \/ \E d \in Domains : Due(d) \/ Expires(d) \/ RetryDue(d)
  \/ TunnelDies \/ PidReused \/ AgentDies \/ Reboot \/ AgentStarts
  \/ InstallTunnel \/ UpgradeRuntime \/ ReadPid \/ UpgradeStops \/ RestartAgent

\* The loop goes on while the agent runs, an upgrade comes to its end, and
\* systemd starts the agent again.
Spec ==
  /\ Init /\ [][Next]_vars
  /\ WF_vars(Loop) /\ WF_vars(Upgrade) /\ WF_vars(systemd /\ AgentStarts)

-----------------------------------------------------------------------------
(* Properties                                                               *)

TypeOK ==
  /\ {systemd, changed, fatal, missed, torn} \subseteq BOOLEAN
  /\ required \subseteq Domains /\ wanted \subseteq Domains /\ todo \subseteq Domains
  /\ deferred \subseteq Domains /\ loaded \subseteq Domains
  /\ health \in [Domains -> {"valid", "due", "invalid"}]
  /\ pc \in {"rest", "certificates", "tunnel", "stop", "start", "pid", "sync", "apply", "down"}
  /\ proc \in [Pids -> {"free", "foreign", "old", "new"}]
  /\ {pidFile, started, readPid} \subseteq Pids \cup {None}
  /\ upgrading \in {"no", "singbox", "read", "stop", "agent"}

\* Between polls sing-box has loaded the certificates that are on disk, whatever
\* was renewed, deferred, applied, refused or restarted in between.  The
\* exceptions are the passes that renewed something and ended without a restart:
\* another domain had no valid certificate (main.go:158), the restart or the
\* agent failed (main.go:163), or the revision that asked was refused.
RenewedIsLoaded == pc = "rest" /\ ~missed => required \subseteq loaded

\* At most one cloudflared runs, and after an upgrade the new one, unless the
\* agent dies or is restarted between Start and the pid file (tunnel.go:87), the
\* upgrade meets ensureTunnel half way, or ends before it reached the tunnel.
OneTunnel ==
  /\ TypeOK
  /\ ~torn => Cardinality(Tunnels) <= 1
  /\ ~torn /\ upgrading = "no" => \A p \in Tunnels : proc[p] = "new"

\* Whatever dies, reboots or takes over the pid of cloudflared, an agent that
\* runs ends up with a tunnel that it knows.
TunnelReturns == []<>(pc # "down") => <>[](pidFile \in Tunnels)
=============================================================================

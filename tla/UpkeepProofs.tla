---------------------------- MODULE UpkeepProofs -----------------------------
(***************************************************************************)
(* The safety properties of Upkeep for any number of domains, pids,        *)
(* upgrades and faults.                                                    *)
(***************************************************************************)
EXTENDS Upkeep, FiniteSetTheorems, TLAPS

\* What sing-box lacks was renewed in this pass, or in one that gave up.
Lacking == ~missed /\ ~changed => required \subseteq loaded
InPass  == changed => pc \in {"certificates", "apply"}
LInv    == Lacking /\ InPass

\* A cloudflared is the one in the pid file or the one just started, and
\* ensureTunnel starts one only when the file is gone.
StartedAt == started # None => pc = "pid"
FileGone  == pc \in {"start", "pid"} => pidFile = None
Known     == ~torn => \A p \in Tunnels : p \in {pidFile, started}
AllNew    == ~torn /\ upgrading \in {"no", "agent"} => \A p \in Tunnels : proc[p] = "new"
TInv      == StartedAt /\ FileGone /\ Known /\ AllNew

-----------------------------------------------------------------------------
(* Types                                                                    *)

LEMMA SignalledType ==
  ASSUME TypeOK, NEW p
  PROVE  /\ Signalled(p) \in [Pids -> {"free", "foreign", "old", "new"}]
         /\ \A q \in Pids : Signalled(p)[q] \in {"old", "new"} => Signalled(p)[q] = proc[q] /\ q # p
BY NoneIsNoPid DEF Signalled, TypeOK

LEMMA InitTypeOK == Init => TypeOK
BY DEF Init, TypeOK

LEMMA NextTypeOK == TypeOK /\ [Next]_vars => TypeOK'
<1> SUFFICES ASSUME TypeOK, [Next]_vars PROVE TypeOK'
  OBVIOUS
<1>b. /\ systemd \in BOOLEAN /\ changed \in BOOLEAN /\ fatal \in BOOLEAN /\ missed \in BOOLEAN /\ torn \in BOOLEAN
      /\ pidFile \in Pids \cup {None} /\ started \in Pids \cup {None} /\ readPid \in Pids \cup {None}
      /\ health \in [Domains -> {"valid", "due", "invalid"}]
  BY DEF TypeOK
<1>n. (Restarted \/ NotRestarted) => missed' \in BOOLEAN /\ (loaded' = Domains \/ loaded' = loaded)
  BY <1>b DEF Restarted, NotRestarted
<1>o. Orphans => /\ torn' \in BOOLEAN /\ started' = None
                 /\ proc' \in [Pids -> {"free", "foreign", "old", "new"}]
  BY DEF Orphans, TypeOK
<1> USE DEF certs, locals, tunnel, upgrade, bounds
<1>1. CASE Wake
  BY <1>1 DEF Wake, Takes, TypeOK
<1>2. ASSUME NEW d \in Domains, Ensure(d)
      PROVE  TypeOK'
  <2>1. /\ health' \in [Domains -> {"valid", "due", "invalid"}]
        /\ deferred' \subseteq Domains /\ loaded' \subseteq Domains
        /\ changed' \in BOOLEAN /\ missed' \in BOOLEAN
    BY <1>2, <1>b DEF Ensure, Renew, Fails, HalfSaved, TypeOK
  <2>2. fatal' \in BOOLEAN
    BY <1>2, <1>b DEF Ensure, Renew, Fails, HalfSaved
  <2>3. QED
    BY <1>2, <2>1, <2>2 DEF Ensure, TypeOK
<1>3. CASE Reload
  BY <1>3, <1>n DEF Reload, Ends, TypeOK
<1>4. ASSUME NEW d \in Domains, Due(d) \/ Expires(d) \/ RetryDue(d)
      PROVE  TypeOK'
  BY <1>4 DEF Due, Expires, RetryDue, TypeOK
<1>5. CASE Sync
  BY <1>5 DEF Sync, Takes, TypeOK
<1>6. CASE ApplyRefused
  BY <1>6, <1>n DEF ApplyRefused, Ends, TypeOK
<1>7. CASE Activate
  BY <1>7, <1>n DEF Activate, Ends, TypeOK
<1>8. CASE CheckTunnel \/ InstallTunnel \/ ReadPid \/ AgentStarts \/ PidReused
  BY <1>8 DEF CheckTunnel, InstallTunnel, ReadPid, AgentStarts, PidReused, TypeOK
<1>9. CASE StopTunnel \/ TunnelDies
  BY <1>9, SignalledType DEF StopTunnel, TunnelDies, TypeOK
<1>10. CASE StartTunnel
  BY <1>10 DEF StartTunnel, TypeOK
<1>11. CASE WritePid
  BY <1>11, SignalledType DEF WritePid, TypeOK
<1>12. CASE AgentDies
  BY <1>12, <1>n, <1>o DEF AgentDies, Ends, TypeOK
<1>13. CASE Reboot
  BY <1>13, <1>n DEF Reboot, Ends, TypeOK
<1>14. CASE UpgradeRuntime
  BY <1>14, <1>n DEF UpgradeRuntime, TypeOK
<1>15. CASE UpgradeStops
  <2>1. torn' \in BOOLEAN
    BY <1>15, <1>b DEF UpgradeStops
  <2>2. QED
    BY <1>15, <2>1, SignalledType DEF UpgradeStops, TypeOK
<1>16. CASE RestartAgent
  BY <1>16, <1>n, <1>o DEF RestartAgent, Ends, TypeOK
<1>17. CASE UNCHANGED vars
  BY <1>17 DEF vars, TypeOK
<1>18. QED
  BY <1>1, <1>2, <1>3, <1>4, <1>5, <1>6, <1>7, <1>8, <1>9, <1>10, <1>11, <1>12, <1>13, <1>14, <1>15,
     <1>16, <1>17 DEF Next

\* Every reachable state of the loop, its processes and an upgrade is well typed.
THEOREM TypeCorrect == Spec => []TypeOK
BY InitTypeOK, NextTypeOK, PTL DEF Spec

-----------------------------------------------------------------------------
(* Certificates                                                             *)

LEMMA NextLInv == TypeOK /\ LInv /\ [Next]_vars => LInv'
<1> SUFFICES ASSUME TypeOK, LInv, [Next]_vars PROVE LInv'
  OBVIOUS
<1>b. changed \in BOOLEAN /\ missed \in BOOLEAN /\ required \subseteq Domains /\ wanted \subseteq Domains
  BY DEF TypeOK
<1>r. ASSUME Restarted, required' \subseteq Domains
      PROVE  Lacking'
  BY <1>r DEF Restarted, Lacking
<1>n. ASSUME NotRestarted, UNCHANGED required
      PROVE  Lacking'
  <2>1. missed' = (missed \/ changed) /\ UNCHANGED <<loaded, required>>
    BY <1>n DEF NotRestarted
  <2>2. ~missed' => ~missed /\ ~changed
    BY <2>1, Zenon
  <2>3. QED
    BY <2>1, <2>2 DEF LInv, Lacking
<1>e. Ends => InPass'
  BY DEF Ends, InPass
<1>k. ASSUME UNCHANGED <<missed, changed, required, loaded>>, changed => pc' = pc
      PROVE  LInv'
  BY <1>k DEF LInv, Lacking, InPass
<1> USE DEF certs, locals, tunnel, upgrade, bounds
<1>1. CASE Wake \/ Sync
  BY <1>1, <1>k DEF Wake, Sync, Takes, LInv, InPass
<1>2. ASSUME NEW d \in Domains, Ensure(d)
      PROVE  LInv'
  <2>1. InPass'
    BY <1>2 DEF Ensure, InPass
  <2>2. CASE Renew(d) /\ UNCHANGED missed
    BY <1>2, <2>1, <2>2 DEF Ensure, Renew, LInv, Lacking
  <2>3. CASE Fails(d) /\ UNCHANGED missed
    BY <1>2, <2>1, <2>3 DEF Ensure, Fails, LInv, Lacking
  <2>4. CASE missed'
    BY <2>1, <2>4 DEF Lacking, LInv
  <2>5. QED
    BY <1>2, <2>2, <2>3, <2>4 DEF Ensure
<1>3. CASE Reload \/ ApplyRefused \/ Activate \/ AgentDies \/ Reboot \/ RestartAgent
  <2>1. Ends /\ ((Restarted /\ required' \subseteq Domains) \/ (NotRestarted /\ UNCHANGED required))
    BY <1>3, <1>b DEF Reload, ApplyRefused, Activate, AgentDies, Reboot, RestartAgent
  <2>2. QED
    BY <2>1, <1>r, <1>n, <1>e DEF LInv
<1>4. ASSUME NEW d \in Domains, Due(d) \/ Expires(d) \/ RetryDue(d)
      PROVE  LInv'
  BY <1>4, <1>k DEF Due, Expires, RetryDue
<1>5. CASE CheckTunnel \/ StopTunnel \/ StartTunnel \/ WritePid \/ AgentStarts
  BY <1>5, <1>k DEF CheckTunnel, StopTunnel, StartTunnel, WritePid, AgentStarts, LInv, InPass
<1>6. CASE TunnelDies \/ PidReused \/ InstallTunnel \/ ReadPid \/ UpgradeStops
  BY <1>6, <1>k DEF TunnelDies, PidReused, InstallTunnel, ReadPid, UpgradeStops
<1>7. CASE UpgradeRuntime
  <2>1. UNCHANGED <<pc, changed, required>> /\ (Restarted \/ UNCHANGED <<loaded, missed>>)
    BY <1>7 DEF UpgradeRuntime
  <2>2. QED
    BY <2>1, <1>r, <1>k, <1>b DEF LInv, InPass
<1>8. CASE UNCHANGED vars
  BY <1>8, <1>k DEF vars
<1>9. QED
  BY <1>1, <1>2, <1>3, <1>4, <1>5, <1>6, <1>7, <1>8 DEF Next

\* Between polls sing-box has loaded what was renewed, whichever domains were
\* renewed or deferred and whatever was applied, unless a pass ended without the
\* restart it owed (agent/main.go:154).
THEOREM CertificatesLoaded == Spec => []RenewedIsLoaded
<1>1. Init => LInv
  BY DEF Init, LInv, Lacking, InPass
<1>2. LInv => RenewedIsLoaded
  BY DEF LInv, Lacking, InPass, RenewedIsLoaded
<1>3. QED
  BY <1>1, <1>2, InitTypeOK, NextTypeOK, NextLInv, PTL DEF Spec

-----------------------------------------------------------------------------
(* The tunnel                                                               *)

\* Steps that start no cloudflared and forget none that runs.
LEMMA NoneStarts ==
  ASSUME TypeOK, Known, AllNew, UNCHANGED <<pidFile, started, torn>>,
         \A p \in Pids : proc'[p] \in {"old", "new"} => proc'[p] = proc[p],
         upgrading' \in {"no", "agent"} => upgrading \in {"no", "agent"}
  PROVE  Known' /\ AllNew'
BY DEF Known, AllNew, Tunnels

\* Whatever ends or has no cloudflared at all.
LEMMA NoneRuns ==
  ASSUME torn' \/ Tunnels' = {}
  PROVE  Known' /\ AllNew'
BY DEF Known, AllNew

\* The agent dies with its children, or they go on without it.
LEMMA OrphansKnown ==
  ASSUME TypeOK, Known, AllNew, Orphans, UNCHANGED pidFile,
         upgrading' = upgrading \/ (upgrading = "agent" /\ upgrading' = "no")
  PROVE  Known' /\ AllNew'
<1>1. CASE systemd
  BY <1>1, NoneRuns DEF Orphans, Tunnels, TypeOK
<1>2. CASE ~systemd
  <2>1. torn' = (torn \/ started # None) /\ UNCHANGED proc
    <3>1. torn' = (~systemd /\ (torn \/ started # None)) /\ UNCHANGED proc
      BY <1>2 DEF Orphans
    <3>2. QED
      BY <1>2, <3>1, Zenon
  <2>2. CASE torn'
    BY <2>2, NoneRuns
  <2>3. CASE ~torn'
    <3>1. ~torn /\ started = None
      BY <2>1, <2>3, Zenon
    <3>2. \A p \in Tunnels : p = pidFile
      BY <3>1, NoneIsNoPid DEF Known, Tunnels
    <3>3. QED
      BY <2>1, <3>1, <3>2 DEF Known, AllNew, Tunnels
  <2>4. QED
    BY <2>2, <2>3
<1>3. QED
  BY <1>1, <1>2 DEF TypeOK

LEMMA NextTInv == TypeOK /\ TInv /\ [Next]_vars => TInv'
<1> SUFFICES ASSUME TypeOK, TInv, [Next]_vars PROVE TInv'
  OBVIOUS
<1>i. StartedAt /\ FileGone /\ Known /\ AllNew
  BY DEF TInv
<1>p. proc \in [Pids -> {"free", "foreign", "old", "new"}] /\ Tunnels \subseteq Pids
  BY DEF TypeOK, Tunnels
<1> USE DEF certs, locals, tunnel, upgrade, bounds
<1>1. CASE Wake \/ Reload \/ Sync \/ ApplyRefused \/ Activate \/ CheckTunnel \/ AgentStarts
  <2>1. UNCHANGED <<pidFile, proc, started, torn, upgrading>> /\ pc \notin {"start", "pid"}
    BY <1>1 DEF Wake, Reload, Sync, ApplyRefused, Activate, CheckTunnel, AgentStarts
  <2>2. StartedAt' /\ FileGone'
    BY <1>1, <1>i, <2>1 DEF Wake, Reload, Sync, ApplyRefused, Activate, CheckTunnel, AgentStarts, StartedAt, FileGone
  <2>3. QED
    BY <1>i, <2>1, <2>2, NoneStarts DEF TInv
<1>2. ASSUME UNCHANGED <<pidFile, proc, started, torn, upgrading, pc>>
      PROVE  TInv'
  BY <1>2, <1>i, NoneStarts DEF TInv, StartedAt, FileGone
<1>3. ASSUME NEW d \in Domains, Ensure(d) \/ Due(d) \/ Expires(d) \/ RetryDue(d)
      PROVE  TInv'
  BY <1>2, <1>3 DEF Ensure, Due, Expires, RetryDue
<1>4. CASE StopTunnel
  <2>1. UNCHANGED <<started, torn, upgrading>> /\ started = None /\ pidFile' = None /\ pc' = "start"
    BY <1>4, <1>i DEF StopTunnel, StartedAt
  <2>2. proc' = Signalled(pidFile)
    BY <1>4 DEF StopTunnel
  <2>3. torn' \/ Tunnels' = {}
    BY <1>i, <1>p, <2>1, <2>2, SignalledType, NoneIsNoPid DEF Known, Tunnels
  <2>4. QED
    BY <2>1, <2>3, NoneRuns DEF TInv, StartedAt, FileGone
<1>5. CASE StartTunnel
  <2>1. CASE pc' = "pid" /\ \E p \in Pids : /\ proc[p] = "free" /\ started' = p
                                           /\ proc' = [proc EXCEPT ![p] = "new"]
    <3>1. PICK p \in Pids : started' = p /\ proc' = [proc EXCEPT ![p] = "new"]
      BY <2>1
    <3>2. pidFile = None /\ started = None /\ UNCHANGED <<pidFile, torn, upgrading>>
      BY <1>5, <1>i DEF StartTunnel, StartedAt, FileGone
    <3>3. ~torn => Tunnels = {}
      BY <1>i, <1>p, <3>2, NoneIsNoPid DEF Known
    <3>4. ~torn => Tunnels' = {p} /\ proc'[p] = "new"
      BY <1>p, <3>1, <3>3 DEF Tunnels
    <3>5. QED
      BY <2>1, <3>1, <3>2, <3>4 DEF TInv, StartedAt, FileGone, Known, AllNew
  <2>2. CASE pc' = "sync" /\ UNCHANGED <<started, proc>>
    BY <1>5, <2>2, <1>i, NoneStarts DEF StartTunnel, TInv, StartedAt, FileGone
  <2>3. QED
    BY <1>5, <2>1, <2>2 DEF StartTunnel
<1>6. CASE WritePid
  <2>1. pc' = "sync" /\ started' = None /\ pidFile = None /\ UNCHANGED <<torn, upgrading>>
    BY <1>6, <1>i DEF WritePid, FileGone
  <2>2. CASE pidFile' = started /\ UNCHANGED proc
    <3>1. Known'
      BY <1>i, <1>p, <2>1, <2>2, NoneIsNoPid DEF Known, Tunnels
    <3>2. AllNew'
      BY <1>i, <2>1, <2>2 DEF AllNew, Tunnels
    <3>3. QED
      BY <2>1, <3>1, <3>2 DEF TInv, StartedAt, FileGone
  <2>3. CASE proc' = Signalled(started)
    <3>1. torn' \/ Tunnels' = {}
      BY <1>i, <1>p, <2>1, <2>3, SignalledType, NoneIsNoPid DEF Known, Tunnels
    <3>2. QED
      BY <2>1, <3>1, NoneRuns DEF TInv, StartedAt, FileGone
  <2>4. QED
    BY <1>6, <2>2, <2>3 DEF WritePid
<1>7. CASE TunnelDies
  <2>1. PICK p \in Tunnels : proc' = Signalled(p)
    BY <1>7 DEF TunnelDies
  <2>2. UNCHANGED <<pidFile, started, torn, upgrading, pc>>
    BY <1>7 DEF TunnelDies
  <2>3. \A q \in Pids : proc'[q] \in {"old", "new"} => proc'[q] = proc[q]
    BY <2>1, SignalledType
  <2>4. QED
    BY <1>i, <2>2, <2>3, NoneStarts DEF TInv, StartedAt, FileGone
<1>8. CASE PidReused
  <2>1. UNCHANGED <<pidFile, started, torn, upgrading, pc>>
    BY <1>8 DEF PidReused
  <2>2. \A q \in Pids : proc'[q] \in {"old", "new"} => proc'[q] = proc[q]
    BY <1>8, <1>p DEF PidReused
  <2>3. QED
    BY <1>i, <2>1, <2>2, NoneStarts DEF TInv, StartedAt, FileGone
<1>9. CASE AgentDies
  <2>1. Orphans /\ pc' = "down" /\ UNCHANGED <<pidFile, upgrading>>
    BY <1>9 DEF AgentDies
  <2>2. Known' /\ AllNew'
    BY <1>i, <2>1, OrphansKnown
  <2>3. started' = None
    BY <2>1 DEF Orphans
  <2>4. QED
    BY <2>1, <2>2, <2>3 DEF TInv, StartedAt, FileGone
<1>10. CASE Reboot
  <2>1. Tunnels' = {}
    BY <1>10 DEF Reboot, Tunnels
  <2>2. QED
    BY <1>10, <2>1, NoneRuns DEF Reboot, TInv, StartedAt, FileGone
<1>11. CASE InstallTunnel
  <2>1. UNCHANGED <<pidFile, started, torn, pc>> /\ upgrading' = "singbox" /\ Tunnels' \subseteq Tunnels
    BY <1>11, <1>p DEF InstallTunnel, Tunnels
  <2>2. QED
    BY <1>i, <2>1 DEF TInv, StartedAt, FileGone, Known, AllNew
<1>12. CASE UpgradeRuntime
  <2>1. UNCHANGED <<pidFile, proc, started, pc>>
    BY <1>12 DEF UpgradeRuntime
  <2>2. Known' /\ AllNew'
    <3>1. CASE upgrading' = "read" /\ UNCHANGED torn
      BY <1>i, <2>1, <3>1 DEF Known, AllNew, Tunnels
    <3>2. CASE torn'
      BY <3>2, NoneRuns
    <3>3. QED
      BY <1>12, <3>1, <3>2 DEF UpgradeRuntime
  <2>3. QED
    BY <1>i, <2>1, <2>2 DEF TInv, StartedAt, FileGone
<1>13. CASE ReadPid
  <2>1. UNCHANGED <<pidFile, proc, started, torn, pc>> /\ upgrading' = "stop"
    BY <1>13 DEF ReadPid
  <2>2. QED
    BY <1>i, <2>1, NoneStarts DEF TInv, StartedAt, FileGone
<1>14. CASE UpgradeStops
  <2>1. UNCHANGED <<started, pc>> /\ pidFile' = None /\ proc' = Signalled(readPid)
    BY <1>14 DEF UpgradeStops
  <2>2. ~torn' => ~torn /\ started = None /\ pidFile = readPid
    <3>1. torn' = (torn \/ started # None \/ pidFile # readPid)
      BY <1>14 DEF UpgradeStops
    <3>2. QED
      BY <3>1, Zenon
  <2>3. torn' \/ Tunnels' = {}
    BY <1>i, <1>p, <2>1, <2>2, SignalledType, NoneIsNoPid DEF Known, Tunnels
  <2>4. QED
    BY <1>i, <2>1, <2>3, NoneRuns DEF TInv, StartedAt, FileGone
<1>15. CASE RestartAgent
  BY <1>15, <1>i, OrphansKnown DEF RestartAgent, Orphans, TInv, StartedAt, FileGone
<1>16. CASE UNCHANGED vars
  BY <1>16, <1>2 DEF vars
<1>17. QED
  BY <1>1, <1>3, <1>4, <1>5, <1>6, <1>7, <1>8, <1>9, <1>10, <1>11, <1>12, <1>13, <1>14, <1>15, <1>16 DEF Next

LEMMA TInvOneTunnel == TypeOK /\ TInv => OneTunnel
<1> SUFFICES ASSUME TypeOK, TInv PROVE OneTunnel
  OBVIOUS
<1>1. ASSUME ~torn
      PROVE  Cardinality(Tunnels) <= 1
  <2>1. PICK x : Tunnels \subseteq {x}
    <3>1. started = None \/ pidFile = None
      BY DEF TInv, StartedAt, FileGone
    <3>2. Tunnels \subseteq {started} \/ Tunnels \subseteq {pidFile}
      BY <1>1, <3>1, NoneIsNoPid DEF TInv, Known, Tunnels
    <3>3. QED
      BY <3>2
  <2>2. IsFiniteSet({x}) /\ Cardinality({x}) = 1
    BY FS_Singleton
  <2>3. QED
    BY <2>1, <2>2, FS_Subset
<1>2. QED
  BY <1>1 DEF TInv, AllNew, OneTunnel

\* One cloudflared runs at most, of the version of the last upgrade, unless an
\* agent died, or an upgrade came, between its start and its pid file
\* (agent/tunnel.go:87), or the upgrade ended early (agent/installer.go:488).
THEOREM TunnelIsOne == Spec => []OneTunnel
<1>1. Init => TInv
  BY NoneIsNoPid DEF Init, TInv, StartedAt, FileGone, Known, AllNew, Tunnels
<1>2. QED
  BY <1>1, TInvOneTunnel, InitTypeOK, NextTypeOK, NextTInv, PTL DEF Spec
=============================================================================

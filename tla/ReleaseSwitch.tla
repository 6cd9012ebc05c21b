--------------------------- MODULE ReleaseSwitch ---------------------------
(***************************************************************************)
(* How an agent switches sing-box to a revision (agent/main.go: sync,      *)
(* apply, rollback, ensureReleaseLayout; agent/installer.go:               *)
(* repairReleaseLayout) and tells the control plane about it.              *)
(*                                                                         *)
(* Every revision has a directory under releases/, `current` and           *)
(* `previous` are symbolic links to such directories, the runtime path of  *)
(* sing-box is a link to current/config.json, and the file .revision next  *)
(* to it names the revision that was applied.  One action is one system    *)
(* call that another step, a crash or a reboot can tell apart.             *)
(***************************************************************************)
EXTENDS Naturals

CONSTANTS
  Revisions,   \* revisions the control plane may ask for
  Valid,       \* those that `sing-box check` and the other checks accept
  Runnable,    \* those that sing-box keeps running with, accepted or not
  Boot,        \* the bootstrap release
  None,        \* no release, no revision
  MaxFaults,   \* bound: crashes, failing system calls, lost answers
  MaxChanges   \* bound: changes of the desired revision

ASSUME ReleaseAssumption ==
  /\ Valid \subseteq Revisions /\ Runnable \subseteq Revisions
  /\ Boot \notin Revisions /\ None \notin Revisions \cup {Boot}
  /\ MaxFaults \in Nat /\ MaxChanges \in Nat

VARIABLES
  desired,     \* agents.desired_revision
  known,       \* agents.current_revision
  mark,        \* the .revision file, None when missing or unreadable
  release,     \* release[d]: "absent", "empty" (no config.json) or "whole"
  current,     \* target of the link `current`, None when there is no link
  previous,    \* target of the link `previous`
  runtime,     \* what the runtime path is: "none", "file" or "link"
  running,     \* release that the sing-box process has loaded, None if it is down
  pc,          \* the next call of the agent, "idle" between two polls
  rev,         \* revision the agent applies
  before,      \* history: target of `current` when this apply passed its checks
  ok,          \* result of the apply
  returned,    \* history: see Target
  faults,      \* faults used so far
  changes      \* changes of desired used so far

vars == <<desired, known, mark, release, current, previous, runtime, running,
          pc, rev, before, ok, returned, faults, changes>>

disk   == <<mark, release, current, previous, runtime>>
plane  == <<desired, known, returned>>
locals == <<rev, before, ok>>
counts == <<faults, changes>>

Dirs == Revisions \cup {Boot}
Good == Valid \cap Runnable

Places == {"idle", "layout", "unfile", "link", "check", "clear", "previous", "activate",
           "restart", "probe", "unmark", "mark", "rollback", "restore", "report"}

TypeOK ==
  /\ desired \in Revisions \cup {None} /\ known \in Revisions \cup {None}
  /\ mark \in Revisions \cup {None}
  /\ release \in [Dirs -> {"absent", "empty", "whole"}]
  /\ current \in Dirs \cup {None} /\ previous \in Dirs \cup {None}
  /\ runtime \in {"none", "file", "link"}
  /\ running \in Dirs \cup {None}
  /\ pc \in Places /\ rev \in Revisions \cup {None} /\ before \in Dirs \cup {None}
  /\ ok \in BOOLEAN /\ returned \in BOOLEAN /\ faults \in Nat /\ changes \in Nat

\* Either resetReleaseLayout has just run, or the VPS was set up before releases
\* existed and its runtime path is a regular file.
Init ==
  /\ desired = None /\ known = None /\ mark = None
  /\ \/ /\ runtime = "link" /\ current = Boot
        /\ release = [d \in Dirs |-> IF d = Boot THEN "whole" ELSE "absent"]
     \/ /\ runtime = "file" /\ current = None
        /\ release = [d \in Dirs |-> "absent"]
  /\ previous = None /\ running = Boot
  /\ pc = "idle" /\ rev = None /\ before = None /\ ok = FALSE
  /\ returned = FALSE /\ faults = 0 /\ changes = 0

\* The configuration behind the runtime path; a regular file is the minimal one.
Resolved ==
  IF runtime = "file" THEN Boot
  ELSE IF runtime = "link" /\ current # None /\ release[current] = "whole" THEN current
  ELSE None

\* The process that a start of the service leaves behind.
Loaded == IF Resolved = Boot \/ Resolved \in Runnable THEN Resolved ELSE None

Missing == current = None \/ release[current] = "absent"

-----------------------------------------------------------------------------
(* The control plane                                                        *)

\* A publish or a rollback by the administrator.  The target returns when it goes
\* back to the revision the control plane takes for the applied one while the agent
\* applies another, or once something went wrong.
Target(r) ==
  /\ changes < MaxChanges /\ r # desired
  /\ desired' = r
  /\ returned' = (r = known /\ (pc # "idle" \/ faults > 0))
  /\ changes' = changes + 1
  /\ UNCHANGED <<known, disk, running, pc, locals, faults>>

\* Mutant of Sync: the agent does not try a revision twice in a row.
SyncOnce ==
  LET stored == IF mark = None THEN known ELSE mark
  IN  /\ pc = "idle"
      /\ known' = stored
      /\ IF desired \in {None, stored, rev}
           THEN UNCHANGED <<pc, rev, ok>>
           ELSE pc' = "layout" /\ rev' = desired /\ ok' = FALSE
      /\ UNCHANGED <<desired, returned, disk, running, before, counts>>

\* syncAgent stores the revision the agent reports, if it reports one, and sends
\* the desired revision when it differs from the stored one.
Sync ==
  LET stored == IF mark = None THEN known ELSE mark
  IN  /\ pc = "idle"
      /\ known' = stored
      /\ IF desired \in {None, stored}
           THEN UNCHANGED <<pc, rev, ok>>
           ELSE pc' = "layout" /\ rev' = desired /\ ok' = FALSE
      /\ UNCHANGED <<desired, returned, disk, running, before, counts>>

-----------------------------------------------------------------------------
(* apply                                                                    *)

Goto(place) == pc' = place

\* ensureReleaseLayout: a missing release is replaced by a bootstrap copy of the
\* file at the runtime path, which must still be readable.
LayoutCurrent ==
  /\ pc = "layout"
  /\ IF ~Missing THEN Goto("unfile") /\ UNCHANGED <<current, release>>
     ELSE IF runtime = "file"
       THEN /\ current' = Boot
            /\ release' = [release EXCEPT ![Boot] = "whole"]
            /\ Goto("unfile")
       ELSE /\ current' = None
            /\ release' = [release EXCEPT ![Boot] = IF @ = "absent" THEN "empty" ELSE @]
            /\ Goto("report")
  /\ UNCHANGED <<plane, mark, previous, runtime, running, locals, counts>>

LayoutUnfile ==
  /\ pc = "unfile"
  /\ runtime' = IF runtime = "file" THEN "none" ELSE runtime
  /\ Goto("link")
  /\ UNCHANGED <<plane, mark, release, current, previous, running, locals, counts>>

LayoutLink ==
  /\ pc = "link"
  /\ runtime' = IF runtime = "none" THEN "link" ELSE runtime
  /\ Goto("check")
  /\ UNCHANGED <<plane, mark, release, current, previous, running, locals, counts>>

\* Mutant of Check: sing-box check is not asked.
CheckNothing ==
  /\ pc = "check"
  /\ Goto("clear") /\ before' = current
  /\ UNCHANGED <<plane, disk, running, rev, ok, counts>>

\* Everything up to `sing-box check` happens in rN.tmp, which the next apply
\* removes: certificates, ports of user mode, the check itself.
Check ==
  /\ pc = "check"
  /\ IF rev \in Valid THEN Goto("clear") /\ before' = current
                      ELSE Goto("report") /\ UNCHANGED before
  /\ UNCHANGED <<plane, disk, running, rev, ok, counts>>

\* RemoveAll(rN) deletes the files and then the directory.
Clear ==
  /\ pc = "clear" /\ release[rev] # "absent"
  /\ release' = [release EXCEPT ![rev] = IF @ = "whole" THEN "empty" ELSE "absent"]
  /\ UNCHANGED <<plane, mark, current, previous, runtime, running, pc, locals, counts>>

\* Rename(rN.tmp, rN).
Finalize ==
  /\ pc = "clear" /\ release[rev] = "absent"
  /\ release' = [release EXCEPT ![rev] = "whole"]
  /\ Goto("previous")
  /\ UNCHANGED <<plane, mark, current, previous, runtime, running, locals, counts>>

\* Mutant of RecordPrevious: the new release is recorded.
RecordPreviousNew ==
  /\ pc = "previous"
  /\ previous' = rev
  /\ Goto("activate")
  /\ UNCHANGED <<plane, mark, release, current, runtime, running, locals, counts>>

RecordPrevious ==
  /\ pc = "previous"
  /\ previous' = IF current # None THEN current ELSE previous
  /\ Goto("activate")
  /\ UNCHANGED <<plane, mark, release, current, runtime, running, locals, counts>>

Activate ==
  /\ pc = "activate"
  /\ current' = rev
  /\ Goto("restart")
  /\ UNCHANGED <<plane, mark, release, previous, runtime, running, locals, counts>>

Restart ==
  /\ pc = "restart"
  /\ running' = Loaded
  /\ Goto("probe")
  /\ UNCHANGED <<plane, disk, locals, counts>>

\* Mutant of Probe: the service is not looked at after the restart.
ProbeNothing ==
  /\ pc = "probe"
  /\ Goto("unmark")
  /\ UNCHANGED <<plane, disk, running, locals, counts>>

\* 800 ms later the service must be active.
Probe ==
  /\ pc = "probe"
  /\ Goto(IF running # None THEN "unmark" ELSE "rollback")
  /\ UNCHANGED <<plane, disk, running, locals, counts>>

\* WriteFile truncates .revision and then writes it.
Unmark ==
  /\ pc = "unmark"
  /\ mark' = None
  /\ Goto("mark")
  /\ UNCHANGED <<plane, release, current, previous, runtime, running, locals, counts>>

Mark ==
  /\ pc = "mark"
  /\ mark' = rev
  /\ Goto("report") /\ ok' = TRUE
  /\ UNCHANGED <<plane, release, current, previous, runtime, running, rev, before, counts>>

\* Mutant of Rollback: `current` is left where it is.
RollbackNothing ==
  /\ pc = "rollback"
  /\ Goto("restore")
  /\ UNCHANGED <<plane, disk, running, locals, counts>>

\* rollback: without a link `previous` it only reports.
Rollback ==
  /\ pc = "rollback"
  /\ IF previous = None THEN Goto("report") /\ UNCHANGED current
                        ELSE Goto("restore") /\ current' = previous
  /\ UNCHANGED <<plane, mark, release, previous, runtime, running, locals, counts>>

Restore ==
  /\ pc = "restore"
  /\ running' = Loaded
  /\ Goto("report")
  /\ UNCHANGED <<plane, disk, locals, counts>>

\* Mutant of Report: a failed apply reports the release behind `current`.
ReportCurrent ==
  /\ pc = "report"
  /\ known' = IF ok /\ desired = rev THEN rev ELSE current
  /\ Goto("idle")
  /\ UNCHANGED <<desired, returned, disk, running, locals, counts>>

\* agentResult stores a success only while that revision is still desired.
Report ==
  /\ pc = "report"
  /\ known' = IF ok /\ desired = rev THEN rev ELSE known
  /\ Goto("idle")
  /\ UNCHANGED <<desired, returned, disk, running, locals, counts>>

-----------------------------------------------------------------------------
(* Faults and repair                                                        *)

Faulty ==
  /\ faults < MaxFaults
  /\ faults' = faults + 1
  /\ UNCHANGED changes

\* The agent dies, alone or with the whole VPS; the init system starts it again,
\* and sing-box too after a reboot.
Crash ==
  /\ Faulty
  /\ Goto("idle")
  /\ running' \in {running, Loaded}
  /\ UNCHANGED <<plane, disk, locals>>

\* A system call of apply fails and ends it without a rollback, or the
\* certificates of a revision cannot be obtained.
CallFails ==
  /\ Faulty
  /\ pc \in {"layout", "unfile", "link", "check", "clear", "previous", "activate", "unmark",
            "mark"}
  /\ Goto("report")
  /\ UNCHANGED <<plane, disk, running, locals>>

\* The init system refuses to restart the service, which stays as it is or stops.
RestartFails ==
  /\ Faulty
  /\ \/ pc = "restart" /\ Goto("rollback")
     \/ pc = "restore" /\ Goto("report")
  /\ running' \in {running, None}
  /\ UNCHANGED <<plane, disk, locals>>

\* The answer to sync or the report of the result is lost.
Lost ==
  /\ Faulty
  /\ \/ /\ pc = "idle" /\ known' = IF mark = None THEN known ELSE mark
     \/ /\ pc = "report" /\ UNCHANGED known
  /\ Goto("idle")
  /\ UNCHANGED <<desired, returned, disk, running, locals>>

\* nodemanage-agent repair, run by hand between two polls.  With a directory
\* behind `current` the minimal file it writes is replaced by the link again.
\* Services are restarted, or only started where they are down.
Repair ==
  /\ pc = "idle"
  /\ IF Missing THEN current' = Boot /\ release' = [release EXCEPT ![Boot] = "whole"]
                ELSE UNCHANGED <<current, release>>
  /\ runtime' = "link"
  /\ running' \in {Loaded', IF running = None THEN Loaded' ELSE running}
  /\ UNCHANGED <<plane, mark, previous, pc, locals, counts>>

-----------------------------------------------------------------------------
Apply ==
  \/ LayoutCurrent \/ LayoutUnfile \/ LayoutLink \/ Check \/ Clear \/ Finalize
  \/ RecordPrevious \/ Activate \/ Restart \/ Probe \/ Unmark \/ Mark
  \/ Rollback \/ Restore \/ Report

Next ==
  \/ \E r \in Revisions : Target(r)
  \/ Sync \/ Apply \/ Repair
  \/ Crash \/ CallFails \/ RestartFails \/ Lost

Spec == Init /\ [][Next]_vars

\* The agent polls for ever and every system call returns; nobody promises that
\* an operator runs repair.
FairSpec == Spec /\ WF_vars(Sync) /\ WF_vars(Apply)

-----------------------------------------------------------------------------
(* Properties                                                               *)

\* sing-box never loads a configuration that the checks of apply did not accept,
\* whatever crashes, reboots and repairs come between the check and the restart.
CheckedOnly == running \in Valid \cup {Boot, None}

\* Neither .revision nor agents.current_revision ever names a revision that
\* sing-box cannot run: apply writes it only after the service was seen active.
ReportedRuns == mark \in Good \cup {None} /\ known \in Good \cup {None}

\* A rollback puts `current` back to the release it had when the apply began to
\* touch the disk, also after an apply that a crash cut short.
RollbackRestores == pc = "restore" => current = before

\* Without faults the switch is all or nothing: between polls sing-box runs what
\* the runtime path names, and that is what .revision says, however many good
\* and bad revisions were tried.
AllOrNothing ==
  faults = 0 /\ pc = "idle" =>
    running = Resolved /\ Resolved = (IF mark = None THEN Boot ELSE mark)

\* Once the desired revision settles on one that sing-box can run, the agent
\* applies it, whatever it tried before and wherever it was interrupted.
Converges ==
  \A r \in Good : <>[](desired = r) => <>(mark = r)

\* One crash, failing call, failing restart or lost answer never stops an agent for
\* good: once the target settles, that revision is marked and runs for ever.  The
\* exception is a target that returns to the revision stored as applied: the control
\* plane then sends nothing, and whatever the interrupted apply left behind stays.
OneFaultConverges ==
  \A r \in Good :
    <>[](desired = r /\ faults <= 1 /\ ~returned) => <>[](mark = r /\ running = r)
=============================================================================

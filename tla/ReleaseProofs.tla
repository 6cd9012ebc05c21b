--------------------------- MODULE ReleaseProofs ---------------------------
(* What one agent does with its releases, for any set of revisions, any    *)
(* number of faults and any sequence of desired revisions.                 *)
EXTENDS ReleaseSwitch, TLAPS

\* The places between the checks and the end of an apply.
Accepted == {"clear", "previous", "activate", "restart", "probe", "unmark", "mark",
             "rollback", "restore"}

\* The links and the local variables agree with the place of the apply.
Placed ==
  /\ pc # "idle" => rev \in Revisions
  /\ pc \in Accepted => rev \in Valid
  /\ pc \in {"unfile", "link", "check", "clear", "previous"} => current # None
  /\ pc \in {"clear", "previous"} => current = before
  /\ pc \in {"activate", "restart", "probe", "unmark", "mark", "rollback", "restore"} =>
       previous = before /\ before # None
  /\ pc = "restore" => current = before
  /\ pc \in {"restart", "probe", "unmark", "mark"} => current = rev

\* Every whole release holds an accepted configuration.
WholeAccepted == \A d \in Dirs : release[d] = "whole" => d \in Valid \cup {Boot}

\* From the restart on, a process that is up has loaded the new release.
RunsNew ==
  /\ pc = "link" => runtime # "file"
  /\ pc \in {"check", "clear", "previous", "activate", "restart", "probe", "unmark",
              "mark"} => runtime = "link"
  /\ pc = "probe" /\ running # None => rev \in Good
  /\ pc \in {"unmark", "mark"} => rev \in Good
  /\ pc = "report" /\ ok => rev \in Good
  /\ ok => pc \in {"idle", "report"}

\* What survives a change of nothing but the control plane and the bounds.
IInv == TypeOK /\ Placed /\ WholeAccepted /\ RunsNew /\ CheckedOnly /\ ReportedRuns

-----------------------------------------------------------------------------
\* A start of the service leaves an accepted configuration or no process.
LEMMA LoadedAccepted ==
  ASSUME TypeOK, WholeAccepted
  PROVE  Loaded \in Valid \cup {Boot, None}
  BY ReleaseAssumption DEF TypeOK, WholeAccepted, Loaded, Resolved, Dirs

LEMMA LoadedTyped ==
  ASSUME TypeOK
  PROVE  Loaded \in Dirs \cup {None}
  BY ReleaseAssumption DEF TypeOK, Loaded, Resolved, Dirs

\* The invariant holds initially (resetReleaseLayout, or a VPS without releases).
LEMMA InitIInv == Init => IInv
<1> SUFFICES ASSUME Init PROVE IInv
  OBVIOUS
<1> USE ReleaseAssumption DEF Init, Dirs
<1>1. TypeOK
  BY DEF TypeOK, Places
<1>2. Placed /\ RunsNew /\ CheckedOnly /\ ReportedRuns
  BY DEF Placed, Accepted, RunsNew, CheckedOnly, ReportedRuns
<1>3. WholeAccepted
  <2>1. CASE runtime = "link"
    BY <2>1 DEF WholeAccepted
  <2>2. CASE runtime = "file"
    BY <2>2 DEF WholeAccepted
  <2> QED
    BY <2>1, <2>2
<1> QED
  BY <1>1, <1>2, <1>3 DEF IInv

LEMMA TargetStep == ASSUME NEW r \in Revisions, IInv, Target(r) PROVE IInv'
  BY ReleaseAssumption
  DEF IInv, TypeOK, Placed, WholeAccepted, RunsNew, CheckedOnly, ReportedRuns, Accepted,
      Places, Dirs, Good, Target, disk, locals

LEMMA SyncStep == ASSUME IInv, Sync PROVE IInv'
<1> DEFINE stored == IF mark = None THEN known ELSE mark
<1>1. stored \in Good \cup {None} /\ stored \in Revisions \cup {None}
  BY DEF IInv, TypeOK, ReportedRuns
<1>2. /\ pc = "idle" /\ known' = stored
      /\ UNCHANGED <<desired, returned, disk, running, before, counts>>
  BY DEF Sync
<1>3. CASE desired \in {None, stored}
  <2>1. UNCHANGED <<pc, rev, ok>>
    BY <1>3 DEF Sync
  <2> HIDE DEF stored
  <2> QED
    BY <1>1, <1>2, <2>1, ReleaseAssumption
    DEF IInv, TypeOK, Placed, WholeAccepted, RunsNew, CheckedOnly, ReportedRuns, Accepted,
        Places, Dirs, disk, counts
<1>4. CASE desired \notin {None, stored}
  <2>1. pc' = "layout" /\ rev' = desired /\ ok' = FALSE
    BY <1>4 DEF Sync
  <2> HIDE DEF stored
  <2>2. TypeOK'
    BY <1>1, <1>2, <1>4, <2>1, ReleaseAssumption DEF IInv, TypeOK, Places, disk, counts
  <2>3. Placed' /\ WholeAccepted' /\ RunsNew' /\ CheckedOnly'
    BY <1>1, <1>2, <1>4, <2>1, ReleaseAssumption
    DEF IInv, TypeOK, Placed, WholeAccepted, RunsNew, CheckedOnly, Accepted, Dirs, disk
  <2>4. ReportedRuns'
    BY <1>1, <1>2, <2>1 DEF IInv, TypeOK, ReportedRuns, disk
  <2> QED
    BY <2>2, <2>3, <2>4 DEF IInv
<1> QED
  BY <1>3, <1>4

LEMMA LayoutCurrentStep == ASSUME IInv, LayoutCurrent PROVE IInv'
  BY ReleaseAssumption
  DEF IInv, TypeOK, Placed, WholeAccepted, RunsNew, CheckedOnly, ReportedRuns, Accepted,
      Places, Dirs, Good, LayoutCurrent, Missing, Goto, plane, locals, counts

LEMMA LayoutUnfileStep == ASSUME IInv, LayoutUnfile PROVE IInv'
  BY ReleaseAssumption
  DEF IInv, TypeOK, Placed, WholeAccepted, RunsNew, CheckedOnly, ReportedRuns, Accepted,
      Places, Dirs, Good, LayoutUnfile, Goto, plane, locals, counts

LEMMA LayoutLinkStep == ASSUME IInv, LayoutLink PROVE IInv'
  BY ReleaseAssumption
  DEF IInv, TypeOK, Placed, WholeAccepted, RunsNew, CheckedOnly, ReportedRuns, Accepted,
      Places, Dirs, Good, LayoutLink, Goto, plane, locals, counts

LEMMA CheckStep == ASSUME IInv, Check PROVE IInv'
  BY ReleaseAssumption
  DEF IInv, TypeOK, Placed, WholeAccepted, RunsNew, CheckedOnly, ReportedRuns, Accepted,
      Places, Dirs, Good, Check, Goto, plane, disk, counts

LEMMA ClearStep == ASSUME IInv, Clear PROVE IInv'
  BY ReleaseAssumption
  DEF IInv, TypeOK, Placed, WholeAccepted, RunsNew, CheckedOnly, ReportedRuns, Accepted,
      Places, Dirs, Good, Clear, plane, locals, counts

LEMMA FinalizeStep == ASSUME IInv, Finalize PROVE IInv'
  BY ReleaseAssumption
  DEF IInv, TypeOK, Placed, WholeAccepted, RunsNew, CheckedOnly, ReportedRuns, Accepted,
      Places, Dirs, Good, Finalize, Goto, plane, locals, counts

LEMMA RecordPreviousStep == ASSUME IInv, RecordPrevious PROVE IInv'
  BY ReleaseAssumption
  DEF IInv, TypeOK, Placed, WholeAccepted, RunsNew, CheckedOnly, ReportedRuns, Accepted,
      Places, Dirs, Good, RecordPrevious, Goto, plane, locals, counts

LEMMA ActivateStep == ASSUME IInv, Activate PROVE IInv'
  BY ReleaseAssumption
  DEF IInv, TypeOK, Placed, WholeAccepted, RunsNew, CheckedOnly, ReportedRuns, Accepted,
      Places, Dirs, Good, Activate, Goto, plane, locals, counts

LEMMA RestartStep == ASSUME IInv, Restart PROVE IInv'
  BY ReleaseAssumption, LoadedAccepted, LoadedTyped
  DEF IInv, TypeOK, Placed, WholeAccepted, RunsNew, CheckedOnly, ReportedRuns, Accepted,
      Places, Dirs, Good, Restart, Goto, plane, disk, locals, counts, Loaded, Resolved

LEMMA ProbeStep == ASSUME IInv, Probe PROVE IInv'
  BY ReleaseAssumption
  DEF IInv, TypeOK, Placed, WholeAccepted, RunsNew, CheckedOnly, ReportedRuns, Accepted,
      Places, Dirs, Good, Probe, Goto, plane, disk, locals, counts

LEMMA UnmarkStep == ASSUME IInv, Unmark PROVE IInv'
  BY ReleaseAssumption
  DEF IInv, TypeOK, Placed, WholeAccepted, RunsNew, CheckedOnly, ReportedRuns, Accepted,
      Places, Dirs, Good, Unmark, Goto, plane, locals, counts

LEMMA MarkStep == ASSUME IInv, Mark PROVE IInv'
  BY ReleaseAssumption
  DEF IInv, TypeOK, Placed, WholeAccepted, RunsNew, CheckedOnly, ReportedRuns, Accepted,
      Places, Dirs, Good, Mark, Goto, plane, counts

LEMMA RollbackStep == ASSUME IInv, Rollback PROVE IInv'
  BY ReleaseAssumption
  DEF IInv, TypeOK, Placed, WholeAccepted, RunsNew, CheckedOnly, ReportedRuns, Accepted,
      Places, Dirs, Good, Rollback, Goto, plane, locals, counts

LEMMA RestoreStep == ASSUME IInv, Restore PROVE IInv'
  BY ReleaseAssumption, LoadedAccepted, LoadedTyped
  DEF IInv, TypeOK, Placed, WholeAccepted, RunsNew, CheckedOnly, ReportedRuns, Accepted,
      Places, Dirs, Good, Restore, Goto, plane, disk, locals, counts

LEMMA ReportStep == ASSUME IInv, Report PROVE IInv'
  BY ReleaseAssumption
  DEF IInv, TypeOK, Placed, WholeAccepted, RunsNew, CheckedOnly, ReportedRuns, Accepted,
      Places, Dirs, Good, Report, Goto, disk, locals, counts

LEMMA CrashStep == ASSUME IInv, Crash PROVE IInv'
  BY ReleaseAssumption, LoadedAccepted, LoadedTyped
  DEF IInv, TypeOK, Placed, WholeAccepted, RunsNew, CheckedOnly, ReportedRuns, Accepted,
      Places, Dirs, Good, Crash, Faulty, Goto, plane, disk, locals

LEMMA CallFailsStep == ASSUME IInv, CallFails PROVE IInv'
  BY ReleaseAssumption
  DEF IInv, TypeOK, Placed, WholeAccepted, RunsNew, CheckedOnly, ReportedRuns, Accepted,
      Places, Dirs, Good, CallFails, Faulty, Goto, plane, disk, locals

LEMMA RestartFailsStep == ASSUME IInv, RestartFails PROVE IInv'
  BY ReleaseAssumption
  DEF IInv, TypeOK, Placed, WholeAccepted, RunsNew, CheckedOnly, ReportedRuns, Accepted,
      Places, Dirs, Good, RestartFails, Faulty, Goto, plane, disk, locals

LEMMA LostStep == ASSUME IInv, Lost PROVE IInv'
  BY ReleaseAssumption
  DEF IInv, TypeOK, Placed, WholeAccepted, RunsNew, CheckedOnly, ReportedRuns, Accepted,
      Places, Dirs, Good, Lost, Faulty, Goto, disk, locals

LEMMA RepairStep == ASSUME IInv, Repair PROVE IInv'
  BY ReleaseAssumption
  DEF IInv, TypeOK, Placed, WholeAccepted, RunsNew, CheckedOnly, ReportedRuns, Accepted,
      Places, Dirs, Good, Repair, Missing, plane, locals, counts, Loaded, Resolved

LEMMA NextIInv == ASSUME IInv, [Next]_vars PROVE IInv'
<1>1. CASE UNCHANGED vars
  BY <1>1 DEF vars, IInv, TypeOK, Placed, WholeAccepted, RunsNew, CheckedOnly, ReportedRuns,
      Accepted, Places, Dirs, Good
<1>2. CASE Next
  BY <1>2, TargetStep, SyncStep, LayoutCurrentStep, LayoutUnfileStep, LayoutLinkStep,
     CheckStep, ClearStep, FinalizeStep, RecordPreviousStep, ActivateStep, RestartStep,
     ProbeStep, UnmarkStep, MarkStep, RollbackStep, RestoreStep, ReportStep, CrashStep,
     CallFailsStep, RestartFailsStep, LostStep, RepairStep
  DEF Next, Apply
<1> QED
  BY <1>1, <1>2

THEOREM Invariance == Spec => []IInv
<1>1. Init => IInv
  BY InitIInv
<1>2. IInv /\ [Next]_vars => IInv'
  BY NextIInv
<1> QED
  BY <1>1, <1>2, PTL DEF Spec

\* Every reachable state of an agent and its release directories is well typed.
THEOREM TypeCorrect == Spec => []TypeOK
<1>1. IInv => TypeOK
  BY DEF IInv
<1> QED
  BY <1>1, Invariance, PTL

\* sing-box never loads what the checks of apply did not accept.
THEOREM ChecksAreNotSkipped == Spec => []CheckedOnly
<1>1. IInv => CheckedOnly
  BY DEF IInv
<1> QED
  BY <1>1, Invariance, PTL

\* A revision that sing-box cannot run is never reported or stored as applied.
THEOREM ReportsAreEarned == Spec => []ReportedRuns
<1>1. IInv => ReportedRuns
  BY DEF IInv
<1> QED
  BY <1>1, Invariance, PTL

\* A rollback puts `current` back to what the apply found.
THEOREM RollbackIsExact == Spec => []RollbackRestores
<1>1. IInv => RollbackRestores
  BY DEF IInv, Placed, RollbackRestores
<1> QED
  BY <1>1, Invariance, PTL

-----------------------------------------------------------------------------
(* Without faults                                                           *)

\* The release the agent last reported, the bootstrap release before that.
Base == IF mark = None THEN Boot ELSE mark

\* Until the restart the base release is whole and running, afterwards the new
\* one is whole and the base release is where `previous` points.
Undisturbed ==
  faults = 0 =>
    /\ pc \in {"idle", "layout", "report"} =>
         /\ running = Base /\ Resolved = Base /\ runtime # "none"
         /\ runtime = "file" => current = None
    /\ pc \in {"unfile", "link", "check", "clear", "previous", "activate"} =>
         running = Base /\ current = Base /\ release[Base] = "whole"
    /\ pc \in {"layout", "unfile", "link", "check", "clear", "previous", "activate",
               "restart", "probe", "unmark", "rollback"} => rev # Base
    /\ pc \in {"previous", "activate", "restart", "probe", "unmark", "mark"} =>
         release[rev] = "whole"
    /\ pc \in {"activate", "restart", "probe", "rollback", "restore"} =>
         previous = Base /\ release[Base] = "whole" /\ runtime = "link"
    /\ pc = "probe" => running \in {rev, None}
    /\ pc \in {"unmark", "mark"} => running = rev

LEMMA SyncQuiet == ASSUME IInv, Undisturbed, Sync PROVE Undisturbed'
  BY ReleaseAssumption
  DEF IInv, TypeOK, Placed, RunsNew, ReportedRuns, Accepted, Places, Dirs, Good, Undisturbed,
      Base, Resolved, Loaded, Missing, Goto, plane, disk, locals, counts, Sync

LEMMA LayoutCurrentQuiet == ASSUME IInv, Undisturbed, LayoutCurrent PROVE Undisturbed'
  BY ReleaseAssumption
  DEF IInv, TypeOK, Placed, RunsNew, ReportedRuns, Accepted, Places, Dirs, Good, Undisturbed,
      Base, Resolved, Loaded, Missing, Goto, plane, disk, locals, counts, LayoutCurrent

LEMMA LayoutUnfileQuiet == ASSUME IInv, Undisturbed, LayoutUnfile PROVE Undisturbed'
  BY ReleaseAssumption
  DEF IInv, TypeOK, Placed, RunsNew, ReportedRuns, Accepted, Places, Dirs, Good, Undisturbed,
      Base, Resolved, Loaded, Missing, Goto, plane, disk, locals, counts, LayoutUnfile

LEMMA LayoutLinkQuiet == ASSUME IInv, Undisturbed, LayoutLink PROVE Undisturbed'
  BY ReleaseAssumption
  DEF IInv, TypeOK, Placed, RunsNew, ReportedRuns, Accepted, Places, Dirs, Good, Undisturbed,
      Base, Resolved, Loaded, Missing, Goto, plane, disk, locals, counts, LayoutLink

LEMMA CheckQuiet == ASSUME IInv, Undisturbed, Check PROVE Undisturbed'
  BY ReleaseAssumption
  DEF IInv, TypeOK, Placed, RunsNew, ReportedRuns, Accepted, Places, Dirs, Good, Undisturbed,
      Base, Resolved, Loaded, Missing, Goto, plane, disk, locals, counts, Check

LEMMA ClearQuiet == ASSUME IInv, Undisturbed, Clear PROVE Undisturbed'
  BY ReleaseAssumption
  DEF IInv, TypeOK, Placed, RunsNew, ReportedRuns, Accepted, Places, Dirs, Good, Undisturbed,
      Base, Resolved, Loaded, Missing, Goto, plane, disk, locals, counts, Clear

LEMMA FinalizeQuiet == ASSUME IInv, Undisturbed, Finalize PROVE Undisturbed'
  BY ReleaseAssumption
  DEF IInv, TypeOK, Placed, RunsNew, ReportedRuns, Accepted, Places, Dirs, Good, Undisturbed,
      Base, Resolved, Loaded, Missing, Goto, plane, disk, locals, counts, Finalize

LEMMA RecordPreviousQuiet == ASSUME IInv, Undisturbed, RecordPrevious PROVE Undisturbed'
  BY ReleaseAssumption
  DEF IInv, TypeOK, Placed, RunsNew, ReportedRuns, Accepted, Places, Dirs, Good, Undisturbed,
      Base, Resolved, Loaded, Missing, Goto, plane, disk, locals, counts, RecordPrevious

LEMMA ActivateQuiet == ASSUME IInv, Undisturbed, Activate PROVE Undisturbed'
  BY ReleaseAssumption
  DEF IInv, TypeOK, Placed, RunsNew, ReportedRuns, Accepted, Places, Dirs, Good, Undisturbed,
      Base, Resolved, Loaded, Missing, Goto, plane, disk, locals, counts, Activate

LEMMA RestartQuiet == ASSUME IInv, Undisturbed, Restart PROVE Undisturbed'
  BY ReleaseAssumption
  DEF IInv, TypeOK, Placed, RunsNew, ReportedRuns, Accepted, Places, Dirs, Good, Undisturbed,
      Base, Resolved, Loaded, Missing, Goto, plane, disk, locals, counts, Restart

LEMMA ProbeQuiet == ASSUME IInv, Undisturbed, Probe PROVE Undisturbed'
  BY ReleaseAssumption
  DEF IInv, TypeOK, Placed, RunsNew, ReportedRuns, Accepted, Places, Dirs, Good, Undisturbed,
      Base, Resolved, Loaded, Missing, Goto, plane, disk, locals, counts, Probe

LEMMA UnmarkQuiet == ASSUME IInv, Undisturbed, Unmark PROVE Undisturbed'
  BY ReleaseAssumption
  DEF IInv, TypeOK, Placed, RunsNew, ReportedRuns, Accepted, Places, Dirs, Good, Undisturbed,
      Base, Resolved, Loaded, Missing, Goto, plane, disk, locals, counts, Unmark

LEMMA MarkQuiet == ASSUME IInv, Undisturbed, Mark PROVE Undisturbed'
  BY ReleaseAssumption
  DEF IInv, TypeOK, Placed, RunsNew, ReportedRuns, Accepted, Places, Dirs, Good, Undisturbed,
      Base, Resolved, Loaded, Missing, Goto, plane, disk, locals, counts, Mark

LEMMA RollbackQuiet == ASSUME IInv, Undisturbed, Rollback PROVE Undisturbed'
  BY ReleaseAssumption
  DEF IInv, TypeOK, Placed, RunsNew, ReportedRuns, Accepted, Places, Dirs, Good, Undisturbed,
      Base, Resolved, Loaded, Missing, Goto, plane, disk, locals, counts, Rollback

LEMMA RestoreQuiet == ASSUME IInv, Undisturbed, Restore PROVE Undisturbed'
  BY ReleaseAssumption
  DEF IInv, TypeOK, Placed, RunsNew, ReportedRuns, Accepted, Places, Dirs, Good, Undisturbed,
      Base, Resolved, Loaded, Missing, Goto, plane, disk, locals, counts, Restore

LEMMA ReportQuiet == ASSUME IInv, Undisturbed, Report PROVE Undisturbed'
  BY ReleaseAssumption
  DEF IInv, TypeOK, Placed, RunsNew, ReportedRuns, Accepted, Places, Dirs, Good, Undisturbed,
      Base, Resolved, Loaded, Missing, Goto, plane, disk, locals, counts, Report

LEMMA RepairQuiet == ASSUME IInv, Undisturbed, Repair PROVE Undisturbed'
  BY ReleaseAssumption
  DEF IInv, TypeOK, Placed, RunsNew, ReportedRuns, Accepted, Places, Dirs, Good, Undisturbed,
      Base, Resolved, Loaded, Missing, Goto, plane, disk, locals, counts, Repair

\* The four faults count up, a change of the target and a stutter touch nothing.
LEMMA OtherQuiet ==
  ASSUME IInv, Undisturbed,
         Crash \/ CallFails \/ RestartFails \/ Lost \/ (\E r \in Revisions : Target(r))
           \/ UNCHANGED vars
  PROVE  Undisturbed'
<1>1. CASE Crash \/ CallFails \/ RestartFails \/ Lost
  <2>1. faults' = faults + 1 /\ faults \in Nat
    BY <1>1 DEF Crash, CallFails, RestartFails, Lost, Faulty, IInv, TypeOK
  <2> QED
    BY <2>1 DEF Undisturbed
<1>2. CASE \E r \in Revisions : Target(r)
  BY <1>2 DEF Target, disk, locals, Undisturbed, Base, Resolved
<1>3. CASE UNCHANGED vars
  BY <1>3 DEF vars, Undisturbed, Base, Resolved
<1> QED
  BY <1>1, <1>2, <1>3

\* Without faults the switch is all or nothing, for any revisions in any order.
THEOREM SwitchIsAtomic == Spec => []AllOrNothing
<1>1. Init => Undisturbed
  BY ReleaseAssumption DEF Init, Undisturbed, Base, Resolved, Dirs
<1>2. IInv /\ Undisturbed /\ [Next]_vars => Undisturbed'
  BY OtherQuiet, SyncQuiet, LayoutCurrentQuiet, LayoutUnfileQuiet, LayoutLinkQuiet,
     CheckQuiet, ClearQuiet, FinalizeQuiet, RecordPreviousQuiet, ActivateQuiet,
     RestartQuiet, ProbeQuiet, UnmarkQuiet, MarkQuiet, RollbackQuiet, RestoreQuiet,
     ReportQuiet, RepairQuiet
  DEF Next, Apply
<1>3. Undisturbed => AllOrNothing
  BY DEF Undisturbed, AllOrNothing, Base
<1> QED
  BY <1>1, <1>2, <1>3, Invariance, PTL DEF Spec
=============================================================================

-------------------------- MODULE MinimalVpsProofs ---------------------------
(***************************************************************************)
(* Type correctness of MinimalVps for all its constants, and with it that  *)
(* one ticket at most can be fetched with, whatever requests cross.        *)
(***************************************************************************)
EXTENDS MinimalVps, SequenceTheorems, TLAPS

TicketRows == [used : BOOLEAN, expired : BOOLEAN]
Jobs ==
  {Idle, [op |-> "ticket"]}
  \cup [op : {"update"}, runtime : Runtimes, port : Ports, row : Rows]
  \cup [op : {"complete"}, by : Scripts, ticket : Nat, mode : Modes]
RunningScripts ==
  [step : {"replace", "restart", "report", "waiting"}, ticket : Nat, runtime : Runtimes, mode : Modes]

NodeOK    == Exists => node \in Rows
OneUsable == \A i, j \in DOMAIN tickets : ~tickets[i].used /\ ~tickets[j].used => i = j
TicketsOK == tickets \in Seq(TicketRows)
JobOK     == job \in [Handlers -> Jobs]
ScriptOK  == script \in [Scripts -> {NoScript} \cup RunningScripts]
MachineOK == /\ disk \in [Modes -> Runtimes \cup {None}]
             /\ running \in [Modes -> Runtimes \cup {None}]

\* TypeOK says nothing of jobs and scripts, which carry the values that later
\* reach the rows and the disk.
IInv == NodeOK /\ OneUsable /\ TicketsOK /\ JobOK /\ ScriptOK /\ MachineOK

-----------------------------------------------------------------------------
(* Values of jobs, scripts and tickets                                      *)

LEMMA JobFields ==
  ASSUME JobOK, NEW h \in Handlers
  PROVE  /\ job[h].op = "update" => /\ job[h].runtime \in Runtimes /\ job[h].port \in Ports
         /\ job[h].op = "complete" => /\ job[h].by \in Scripts /\ job[h].ticket \in Nat
                                      /\ job[h].mode \in Modes
BY DEF JobOK, Jobs, Idle

LEMMA ScriptFields ==
  ASSUME ScriptOK, NEW s \in Scripts, script[s].step # "none"
  PROVE  script[s] \in RunningScripts
BY DEF ScriptOK, NoScript

\* A script that only moves on keeps its type.
LEMMA ScriptMoves ==
  ASSUME ScriptOK, NEW s \in Scripts, script[s].step # "none",
         NEW step \in {"replace", "restart", "report", "waiting"},
         script' = [script EXCEPT ![s].step = step]
  PROVE  ScriptOK'
<1>1. [script[s] EXCEPT !.step = step] \in RunningScripts
  BY ScriptFields DEF RunningScripts
<1>2. script' = [script EXCEPT ![s] = [script[s] EXCEPT !.step = step]]
  OBVIOUS
<1>3. QED
  BY <1>1, <1>2 DEF ScriptOK

LEMMA ScriptEnds ==
  ASSUME ScriptOK, NEW s \in Scripts, script' = [script EXCEPT ![s] = NoScript]
  PROVE  ScriptOK'
BY DEF ScriptOK

LEMMA JobBecomes ==
  ASSUME JobOK, NEW h \in Handlers, NEW new \in Jobs, job' = [job EXCEPT ![h] = new]
  PROVE  JobOK'
BY DEF JobOK

LEMMA SupersededType ==
  ASSUME NEW all \in Seq(TicketRows)
  PROVE  /\ Superseded(all) \in Seq(TicketRows) /\ Len(Superseded(all)) = Len(all)
         /\ DOMAIN Superseded(all) = DOMAIN all
         /\ \A i \in DOMAIN all : Superseded(all)[i].used
<1>1. DOMAIN all = 1..Len(all) /\ Len(all) \in Nat
  OBVIOUS
<1>2. \A i \in 1..Len(all) : /\ [all[i] EXCEPT !.used = TRUE] \in TicketRows
                             /\ [all[i] EXCEPT !.used = TRUE].used
  <2> TAKE i \in 1..Len(all)
  <2>1. all[i] \in TicketRows
    BY <1>1
  <2>2. QED
    BY <2>1 DEF TicketRows
<1>3. /\ Superseded(all) \in [1..Len(all) -> TicketRows]
      /\ \A i \in 1..Len(all) : Superseded(all)[i].used
  BY <1>1, <1>2 DEF Superseded
<1>4. QED
  BY <1>1, <1>3

\* The tickets after freshInstallTicket: the older ones are used up.
LEMMA FreshTickets ==
  ASSUME TicketsOK, tickets' = Append(Superseded(tickets), Ticket)
  PROVE  TicketsOK' /\ OneUsable'
<1> DEFINE old == Superseded(tickets)
<1>1. /\ old \in Seq(TicketRows) /\ Len(old) = Len(tickets)
      /\ \A i \in 1..Len(old) : old[i].used
  BY SupersededType DEF TicketsOK
<1>2. Ticket \in TicketRows
  BY DEF Ticket, TicketRows
<1>3. /\ tickets' \in Seq(TicketRows) /\ DOMAIN tickets' = 1..(Len(old) + 1)
      /\ \A i \in 1..Len(old) : tickets'[i] = old[i]
  <2> HIDE DEF old
  <2>1. tickets' = Append(old, Ticket)
    BY DEF old
  <2>2. QED
    BY <1>1, <1>2, <2>1, AppendProperties
<1>4. \A i \in DOMAIN tickets' : ~tickets'[i].used => i = Len(old) + 1
  <2> HIDE DEF old
  <2>1. Len(old) \in Nat
    BY <1>1
  <2>2. QED
    BY <1>1, <1>3, <2>1
<1>5. QED
  BY <1>3, <1>4 DEF TicketsOK, OneUsable

\* Marking a ticket as used, or as expired, makes none usable.
LEMMA TicketMarked ==
  ASSUME TicketsOK, OneUsable, NEW i \in Nat,
         \/ tickets' = [tickets EXCEPT ![i].used = TRUE]
         \/ tickets' = [tickets EXCEPT ![i].expired = TRUE]
  PROVE  TicketsOK' /\ OneUsable'
<1>1. tickets \in [1..Len(tickets) -> TicketRows] /\ Len(tickets) \in Nat /\ DOMAIN tickets = 1..Len(tickets)
  BY DEF TicketsOK
<1>2. /\ DOMAIN tickets' = 1..Len(tickets)
      /\ \A j \in 1..Len(tickets) : /\ tickets'[j] \in TicketRows
                                    /\ ~tickets'[j].used => ~tickets[j].used
  BY <1>1 DEF TicketRows
<1>3. tickets' \in [1..Len(tickets) -> TicketRows]
  BY <1>1, <1>2
<1>4. QED
  BY <1>1, <1>2, <1>3 DEF TicketsOK, OneUsable

-----------------------------------------------------------------------------
(* The invariant                                                            *)

LEMMA InitIInv == Init => IInv
<1> SUFFICES ASSUME Init PROVE IInv
  OBVIOUS
<1>1. NodeOK /\ JobOK /\ ScriptOK /\ MachineOK
  BY DEF Init, NodeOK, Exists, JobOK, Jobs, ScriptOK, MachineOK
<1>2. TicketsOK /\ OneUsable
  BY DEF Init, TicketsOK, OneUsable
<1>3. QED
  BY <1>1, <1>2 DEF IInv

LEMMA NextIInv == IInv /\ [Next]_vars => IInv'
<1> SUFFICES ASSUME IInv, [Next]_vars PROVE IInv'
  OBVIOUS
<1>i. NodeOK /\ OneUsable /\ TicketsOK /\ JobOK /\ ScriptOK /\ MachineOK
  BY DEF IInv
<1>t. UNCHANGED tickets => TicketsOK' /\ OneUsable'
  BY <1>i DEF TicketsOK, OneUsable
<1>n. UNCHANGED node => NodeOK'
  BY <1>i DEF NodeOK, Exists
<1>m. UNCHANGED machine => MachineOK'
  BY <1>i DEF MachineOK, machine
<1>j. UNCHANGED job => JobOK'
  BY <1>i DEF JobOK
<1>s. UNCHANGED script => ScriptOK'
  BY <1>i DEF ScriptOK
<1> USE DEF server
<1>1. ASSUME NEW runtime \in Runtimes, NEW port \in Ports, createMinimalVps(runtime, port)
      PROVE  IInv'
  <2>1. node' \in Rows /\ tickets' = <<Ticket>> /\ UNCHANGED <<job, script, machine>>
    BY <1>1 DEF createMinimalVps, Rows, Modes
  <2>2. TicketsOK' /\ OneUsable'
    BY <2>1 DEF TicketsOK, OneUsable, TicketRows, Ticket
  <2>3. QED
    BY <2>1, <2>2, <1>m, <1>j, <1>s DEF IInv, NodeOK
<1>2. ASSUME NEW h \in Handlers, NEW runtime \in Runtimes, NEW port \in Ports,
             ReadForUpdate(h, runtime, port)
      PROVE  IInv'
  <2>1. [op |-> "update", runtime |-> runtime, port |-> port, row |-> node] \in Jobs
    BY <1>2, <1>i DEF ReadForUpdate, NodeOK, Jobs
  <2>2. JobOK'
    BY <1>2, <1>i, <2>1, JobBecomes DEF ReadForUpdate
  <2>3. QED
    BY <1>2, <2>2, <1>t, <1>n, <1>m, <1>s DEF ReadForUpdate, IInv
<1>3. ASSUME NEW h \in Handlers, updateMinimalVps(h)
      PROVE  IInv'
  <2>1. job[h].runtime \in Runtimes /\ job[h].port \in Ports
    BY <1>3, <1>i, JobFields DEF updateMinimalVps
  <2>2. NodeOK'
    <3>1. CASE Exists
      <4>1. node \in Rows
        BY <1>i, <3>1 DEF NodeOK
      <4>2. node' \in Rows
        BY <1>3, <2>1, <3>1, <4>1 DEF updateMinimalVps, Rows, Modes
      <4>3. QED
        BY <4>2 DEF NodeOK
    <3>2. CASE ~Exists
      BY <1>3, <1>n, <3>2 DEF updateMinimalVps
    <3>3. QED
      BY <3>1, <3>2
  <2>3. JobOK'
    BY <1>3, <1>i, JobBecomes DEF updateMinimalVps, Jobs
  <2>4. QED
    BY <1>3, <2>2, <2>3, <1>t, <1>m, <1>s DEF updateMinimalVps, IInv
<1>4. ASSUME NEW h \in Handlers, vpsInstall(h)
      PROVE  IInv'
  <2>1. JobOK'
    BY <1>4, <1>i, JobBecomes DEF vpsInstall, Jobs
  <2>2. QED
    BY <1>4, <2>1, <1>t, <1>n, <1>m, <1>s DEF vpsInstall, IInv
<1>5. ASSUME NEW h \in Handlers, freshInstallTicket(h)
      PROVE  IInv'
  <2>1. JobOK'
    BY <1>5, <1>i, JobBecomes DEF freshInstallTicket, Jobs
  <2>2. TicketsOK' /\ OneUsable'
    BY <1>5, <1>i, <1>t, FreshTickets DEF freshInstallTicket
  <2>3. QED
    BY <1>5, <2>1, <2>2, <1>n, <1>m, <1>s DEF freshInstallTicket, IInv
<1>6. ASSUME NEW enabled \in BOOLEAN, setEnabled(enabled)
      PROVE  IInv'
  <2>1. NodeOK'
    BY <1>6, <1>i DEF setEnabled, NodeOK, Rows
  <2>2. QED
    BY <1>6, <2>1, <1>t, <1>m, <1>j, <1>s DEF setEnabled, IInv
<1>7. ASSUME deleteVps
      PROVE  IInv'
  <2>1. NodeOK' /\ TicketsOK' /\ OneUsable'
    BY <1>7 DEF deleteVps, NodeOK, Exists, TicketsOK, OneUsable
  <2>2. QED
    BY <1>7, <2>1, <1>m, <1>j, <1>s DEF deleteVps, IInv
<1>8. ASSUME NEW s \in Scripts, NEW i \in DOMAIN tickets, NEW mode \in Modes,
             minimalInstaller(s, i, mode)
      PROVE  IInv'
  <2> DEFINE new == [step |-> "replace", ticket |-> i, runtime |-> RuntimeOf(node), mode |-> mode]
  <2>1. i \in Nat
    BY <1>i DEF TicketsOK
  <2>2. new \in RunningScripts
    BY <1>8, <1>i, <2>1 DEF minimalInstaller, NodeOK, Rows, RuntimeOf, RunningScripts
  <2>3. ScriptOK'
    BY <1>8, <1>i, <2>2 DEF minimalInstaller, ScriptOK
  <2>4. QED
    BY <1>8, <2>3, <1>t, <1>n, <1>m, <1>j DEF minimalInstaller, IInv
<1>9. ASSUME NEW s \in Scripts, Replace(s)
      PROVE  IInv'
  <2>1. script[s] \in RunningScripts
    BY <1>9, <1>i, ScriptFields DEF Replace
  <2>2. MachineOK'
    BY <1>9, <1>i, <2>1 DEF Replace, MachineOK, RunningScripts
  <2>3. ScriptOK'
    BY <1>9, <1>i, ScriptMoves DEF Replace
  <2>4. QED
    BY <1>9, <2>2, <2>3, <1>t, <1>n, <1>j DEF Replace, IInv
<1>10. ASSUME NEW s \in Scripts, Restart(s)
       PROVE  IInv'
  <2>1. script[s] \in RunningScripts
    BY <1>10, <1>i, ScriptFields DEF Restart
  <2>2. MachineOK'
    BY <1>10, <1>i, <2>1 DEF Restart, MachineOK, RunningScripts
  <2>3. ScriptOK'
    BY <1>10, <1>i, ScriptMoves, ScriptEnds DEF Restart
  <2>4. QED
    BY <1>10, <2>2, <2>3, <1>t, <1>n, <1>j DEF Restart, IInv
<1>11. ASSUME NEW s \in Scripts, ScriptStops(s)
       PROVE  IInv'
  <2>1. ScriptOK'
    BY <1>11, <1>i, ScriptEnds DEF ScriptStops
  <2>2. QED
    BY <1>11, <2>1, <1>t, <1>n, <1>m, <1>j DEF ScriptStops, IInv
<1>12. ASSUME Reboot
       PROVE  IInv'
  <2>1. MachineOK' /\ ScriptOK'
    BY <1>12, <1>i DEF Reboot, MachineOK, ScriptOK
  <2>2. QED
    BY <1>12, <2>1, <1>t, <1>n, <1>j DEF Reboot, IInv
<1>13. ASSUME NEW h \in Handlers, NEW s \in Scripts, ReadForComplete(h, s)
       PROVE  IInv'
  <2>1. script[s] \in RunningScripts
    BY <1>13, <1>i, ScriptFields DEF ReadForComplete
  <2>2. CASE Told(s) /\ UNCHANGED job
    <3>1. ScriptOK'
      BY <2>2, <1>i, ScriptEnds DEF Told
    <3>2. QED
      BY <1>13, <2>2, <3>1, <1>t, <1>n, <1>m, <1>j DEF ReadForComplete, IInv
  <2>3. CASE /\ job' = [job EXCEPT ![h] = [op |-> "complete", by |-> s, ticket |-> script[s].ticket,
                                           mode |-> script[s].mode]]
             /\ script' = [script EXCEPT ![s].step = "waiting"]
    <3>1. [op |-> "complete", by |-> s, ticket |-> script[s].ticket, mode |-> script[s].mode] \in Jobs
      BY <2>1 DEF RunningScripts, Jobs
    <3>2. JobOK'
      BY <2>3, <3>1, <1>i, JobBecomes
    <3>3. ScriptOK'
      BY <1>13, <2>3, <1>i, ScriptMoves DEF ReadForComplete
    <3>4. QED
      BY <1>13, <3>2, <3>3, <1>t, <1>n, <1>m DEF ReadForComplete, IInv
  <2>4. QED
    BY <1>13, <2>2, <2>3 DEF ReadForComplete
<1>14. ASSUME NEW h \in Handlers, minimalComplete(h)
       PROVE  IInv'
  <2>1. job[h].by \in Scripts /\ job[h].ticket \in Nat /\ job[h].mode \in Modes
    BY <1>14, <1>i, JobFields DEF minimalComplete
  <2>2. NodeOK' /\ TicketsOK' /\ OneUsable'
    <3>1. CASE Exists
      <4>1. node \in Rows
        BY <1>i, <3>1 DEF NodeOK
      <4>2. node' \in Rows
        BY <1>14, <2>1, <3>1, <4>1 DEF minimalComplete, Rows, Modes
      <4>3. tickets' = [tickets EXCEPT ![job[h].ticket].used = TRUE]
        BY <1>14, <3>1 DEF minimalComplete
      <4>4. QED
        BY <1>i, <2>1, <4>2, <4>3, TicketMarked DEF NodeOK
    <3>2. CASE ~Exists
      BY <1>14, <3>2, <1>t, <1>n DEF minimalComplete
    <3>3. QED
      BY <3>1, <3>2
  <2>3. JobOK'
    BY <1>14, <1>i, JobBecomes DEF minimalComplete, Jobs
  <2>4. ScriptOK'
    <3> DEFINE s == job[h].by
    <3>1. CASE script' = [script EXCEPT ![s] = NoScript]
      BY <3>1, <2>1, <1>i, ScriptEnds
    <3>2. CASE script[s].step = "waiting" /\ script' = [script EXCEPT ![s].step = "report"]
      BY <3>2, <2>1, <1>i, ScriptMoves
    <3>3. CASE UNCHANGED script
      BY <3>3, <1>s
    <3>4. QED
      BY <1>14, <3>1, <3>2, <3>3 DEF minimalComplete
  <2>5. QED
    BY <1>14, <2>2, <2>3, <2>4, <1>m DEF minimalComplete, IInv
<1>15. ASSUME NEW h \in Handlers, HandlerDies(h)
       PROVE  IInv'
  <2>1. JobOK'
    BY <1>15, <1>i, JobBecomes DEF HandlerDies, Jobs
  <2>2. ScriptOK'
    <3>1. CASE /\ job[h].op = "complete" /\ script[job[h].by].step = "waiting"
               /\ script' = [script EXCEPT ![job[h].by].step = "report"]
      BY <3>1, <1>i, JobFields, ScriptMoves
    <3>2. CASE UNCHANGED script
      BY <3>2, <1>s
    <3>3. QED
      BY <1>15, <3>1, <3>2 DEF HandlerDies
  <2>3. QED
    BY <1>15, <2>1, <2>2, <1>t, <1>n, <1>m DEF HandlerDies, IInv
<1>16. ASSUME NEW i \in DOMAIN tickets, Expire(i)
       PROVE  IInv'
  <2>1. i \in Nat
    BY <1>i DEF TicketsOK
  <2>2. TicketsOK' /\ OneUsable'
    BY <1>16, <2>1, <1>i, TicketMarked DEF Expire
  <2>3. QED
    BY <1>16, <2>2, <1>n, <1>m, <1>j, <1>s DEF Expire, IInv
<1>17. ASSUME NEW m \in Modes, Ends(m) \/ Starts(m)
       PROVE  IInv'
  <2>1. MachineOK'
    BY <1>17, <1>i DEF Ends, Starts, MachineOK
  <2>2. QED
    BY <1>17, <2>1, <1>t, <1>n, <1>j, <1>s DEF Ends, Starts, IInv
<1>18. CASE UNCHANGED vars
  BY <1>18, <1>t, <1>n, <1>m, <1>j, <1>s DEF vars, IInv
<1>19. QED
  BY <1>1, <1>2, <1>3, <1>4, <1>5, <1>6, <1>7, <1>8, <1>9, <1>10, <1>11, <1>12, <1>13, <1>14,
     <1>15, <1>16, <1>17, <1>18 DEF Next

LEMMA IInvTypeOK == IInv => TypeOK
BY DEF IInv, NodeOK, Rows, Modes, OneUsable, MachineOK, TypeOK

\* The rows are well typed and two tickets of a node are never usable at one
\* time: freshInstallTicket marks the older ones in the batch that inserts
\* (api.ts:322), and nothing else makes a ticket usable.
THEOREM Typed == Spec => []TypeOK
<1>1. Spec => []IInv
  BY InitIInv, NextIInv, PTL DEF Spec
<1>2. QED
  BY <1>1, IInvTypeOK, PTL

-----------------------------------------------------------------------------
(* What a subscription offers is installed                                  *)

Clean     == ~crossed /\ ~crowded
Active(s) == script[s] # NoScript

\* An edit is written and the tickets it replaces are not yet.
Pending == \E g \in Handlers : job[g].op = "ticket"

\* The installation of mode m holds this runtime, and runs it or nothing.
Holds(m, runtime) == disk[m] = runtime /\ running[m] \in {None, runtime}

\* The installation, and whatever a script will still do to it, is what the row says.
Same(m) == /\ Holds(m, node.runtime)
           /\ \A s \in Scripts : Active(s) => script[s].runtime = node.runtime

NotYet      == node = None => /\ \A h \in Handlers : job[h] = Idle
                              /\ \A s \in Scripts : ~Active(s)
Orphanless  == ~Exists => tickets = <<>>
TicketKnown == Exists => \A s \in Scripts : Active(s) => script[s].ticket \in DOMAIN tickets
Withdrawn   == Exists /\ node.provisioned => ~node.draft

OneScript == \A s, t \in Scripts : Active(s) /\ Active(t) => s = t
StepDone  ==
  \A s \in Scripts : /\ script[s].step \in {"restart", "report", "waiting"} => disk[script[s].mode] = script[s].runtime
                     /\ script[s].step \in {"report", "waiting"} => Holds(script[s].mode, script[s].runtime)
ReadFresh == Exists => \A h \in Handlers : job[h].op = "update" => job[h].row.runtime = node.runtime
TicketFresh ==
  Exists => \A s \in Scripts : Active(s) /\ ~tickets[script[s].ticket].used =>
                                 Pending \/ script[s].runtime = node.runtime
CompleteFresh   == Exists => \A h \in Handlers : job[h].op = "complete" => Pending \/ Same(job[h].mode)
ProvisionedSame == Exists /\ node.provisioned => Same(node.mode)

Basics    == NotYet /\ Orphanless /\ TicketKnown /\ Withdrawn
Undisturbed == OneScript /\ StepDone /\ ReadFresh /\ TicketFresh /\ CompleteFresh /\ ProvisionedSame

\* A script is one report away from offering the node as long as its ticket is
\* unused; the row it was fetched with is the row now, unless the batch that
\* uses up its ticket is still to come (TicketFresh, CompleteFresh).
OInv == Basics /\ (Clean => Undisturbed)

\* Types of the values that pass from one variable to another.
LEMMA Values ==
  ASSUME IInv
  PROVE  /\ \A h \in Handlers : job[h] # Idle <=> job[h].op # "idle"
         /\ \A h \in Handlers : job[h].op = "update" => job[h].row \in Rows
         /\ \A h \in Handlers : job[h].op = "complete" => job[h].mode \in Modes
         /\ Exists => node.mode \in Modes
         /\ \A s \in Scripts : Active(s) <=> script[s].step # "none"
         /\ \A s \in Scripts : Active(s) => script[s] \in RunningScripts
BY DEF IInv, NodeOK, Rows, JobOK, Jobs, Idle, ScriptOK, RunningScripts, NoScript, Active

\* Whoever is disturbed stays so.
LEMMA CleanBefore == [Next]_vars /\ Clean' => Clean
<1> SUFFICES ASSUME [Next]_vars PROVE Clean' => Clean
  OBVIOUS
<1>1. ASSUME NEW h \in Handlers, updateMinimalVps(h) \/ freshInstallTicket(h) \/ minimalComplete(h)
      PROVE  Clean' => Clean
  <2>1. crossed' = (crossed \/ Busy(h)) /\ UNCHANGED crowded
    BY <1>1 DEF updateMinimalVps, freshInstallTicket, minimalComplete
  <2>2. QED
    BY <2>1, Zenon DEF Clean
<1>2. ASSUME NEW h \in Handlers, HandlerDies(h)
      PROVE  Clean' => Clean
  <2>1. crossed' = (crossed \/ job[h].op = "ticket") /\ UNCHANGED crowded
    BY <1>2 DEF HandlerDies
  <2>2. QED
    BY <2>1, Zenon DEF Clean
<1>3. ASSUME NEW s \in Scripts, NEW i, NEW mode, minimalInstaller(s, i, mode)
      PROVE  Clean' => Clean
  <2>1. crowded' = (crowded \/ \E t \in Scripts \ {s} : script[t] # NoScript) /\ UNCHANGED crossed
    BY <1>3 DEF minimalInstaller
  <2>2. QED
    BY <2>1, Zenon DEF Clean
<1>4. ASSUME UNCHANGED <<crossed, crowded>>
      PROVE  Clean' => Clean
  BY <1>4 DEF Clean
<1>5. QED
  BY <1>1, <1>2, <1>3, <1>4
     DEF Next, vars, createMinimalVps, ReadForUpdate, vpsInstall, setEnabled, deleteVps, Replace,
         Restart, ScriptStops, Reboot, Ends, Starts, ReadForComplete, Expire

LEMMA InitOInv == Init => OInv
<1> SUFFICES ASSUME Init PROVE OInv
  OBVIOUS
<1>1. ~Exists /\ tickets = <<>> /\ \A h \in Handlers : job[h] = Idle
  BY DEF Init, Exists
<1>2. \A s \in Scripts : ~Active(s) /\ script[s].step = "none"
  BY DEF Init, Active, NoScript
<1>3. Basics
  BY <1>1, <1>2 DEF Basics, NotYet, Orphanless, TicketKnown, Withdrawn
<1>4. OneScript /\ StepDone
  BY <1>2 DEF OneScript, StepDone
<1>5. QED
  BY <1>1, <1>3, <1>4 DEF OInv, Undisturbed, ReadFresh, TicketFresh, CompleteFresh, ProvisionedSame

\* A step that starts no script: those that stay keep what they were given.
Advance ==
  \A s \in Scripts : Active(s)' => /\ Active(s)
                                   /\ script'[s].ticket = script[s].ticket
                                   /\ script'[s].runtime = script[s].runtime

LEMMA MoveAdvances ==
  ASSUME IInv, NEW s \in Scripts, script[s].step # "none", NEW step,
         script' = [script EXCEPT ![s].step = step]
  PROVE  Advance
<1>1. script[s] \in RunningScripts /\ Active(s)
  BY Values
<1>2. script'[s].ticket = script[s].ticket /\ script'[s].runtime = script[s].runtime
  BY <1>1 DEF IInv, ScriptOK, RunningScripts
<1>3. \A t \in Scripts \ {s} : script'[t] = script[t]
  BY DEF IInv, ScriptOK
<1>4. QED
  BY <1>1, <1>2, <1>3 DEF Advance, Active

LEMMA EndAdvances ==
  ASSUME IInv, NEW s \in Scripts, script' = [script EXCEPT ![s] = NoScript]
  PROVE  Advance
BY DEF IInv, ScriptOK, Advance, Active

LEMMA StepAdvances ==
  ASSUME IInv, [Next]_vars
  PROVE  Advance \/ \E s \in Scripts, i \in DOMAIN tickets, mode \in Modes : minimalInstaller(s, i, mode)
<1>1. UNCHANGED script => Advance
  BY DEF Advance, Active
<1>2. ASSUME NEW s \in Scripts, Replace(s) \/ Restart(s)
      PROVE  Advance
  BY <1>2, MoveAdvances, EndAdvances DEF Replace, Restart
<1>3. ASSUME NEW s \in Scripts, ScriptStops(s)
      PROVE  Advance
  BY <1>3, EndAdvances DEF ScriptStops
<1>4. CASE Reboot
  BY <1>4 DEF Reboot, Advance, Active
<1>5. ASSUME NEW h \in Handlers, NEW s \in Scripts, ReadForComplete(h, s)
      PROVE  Advance
  BY <1>5, MoveAdvances, EndAdvances DEF ReadForComplete, Told
<1>6. ASSUME NEW h \in Handlers, minimalComplete(h) \/ HandlerDies(h)
      PROVE  Advance
  <2> DEFINE s == job[h].by
  <2>1. job[h].op = "complete" => s \in Scripts
    BY JobFields DEF IInv
  <2>2. \/ UNCHANGED script
        \/ s \in Scripts /\ script' = [script EXCEPT ![s] = NoScript]
        \/ /\ s \in Scripts /\ script[s].step = "waiting"
           /\ script' = [script EXCEPT ![s].step = "report"]
    BY <1>6, <2>1 DEF minimalComplete, HandlerDies
  <2>3. QED
    BY <2>2, <1>1, MoveAdvances, EndAdvances
<1>7. QED
  BY <1>1, <1>2, <1>3, <1>4, <1>5, <1>6
     DEF Next, Modes, vars, server, createMinimalVps, ReadForUpdate, updateMinimalVps, vpsInstall,
         freshInstallTicket, setEnabled, deleteVps, Ends, Starts, Expire

LEMMA BasicsStep ==
  ASSUME IInv, Basics, [Next]_vars
  PROVE  Basics'
<1>r. \A row \in Rows : row # None /\ row # Deleted
  BY ConstantsAssumption
<1>v. \A h \in Handlers : node = None => job[h].op = "idle"
  BY Values DEF Basics, NotYet
<1>a. ASSUME Advance, UNCHANGED node, DOMAIN tickets \subseteq DOMAIN tickets', ~Exists => UNCHANGED tickets,
             node = None => UNCHANGED job
      PROVE  Basics'
  BY <1>a DEF Basics, NotYet, Orphanless, TicketKnown, Withdrawn, Advance, Exists, Active
<1>e. ASSUME Advance, Exists, node' \in Rows, node'.provisioned => ~node'.draft, DOMAIN tickets' = DOMAIN tickets
      PROVE  Basics'
  BY <1>e, <1>r DEF Basics, NotYet, Orphanless, TicketKnown, Withdrawn, Advance, Exists, Active
<1>x. UNCHANGED script => Advance
  BY DEF Advance, Active
<1>1. ASSUME NEW runtime \in Runtimes, NEW port \in Ports, createMinimalVps(runtime, port)
      PROVE  Basics'
  <2>1. node' \in Rows /\ ~node'.provisioned
    BY <1>1 DEF createMinimalVps, Rows, Modes
  <2>2. \A s \in Scripts : ~Active(s)'
    BY <1>1 DEF createMinimalVps, Basics, NotYet, Active
  <2>3. QED
    BY <2>1, <2>2, <1>r DEF Basics, NotYet, Orphanless, TicketKnown, Withdrawn, Exists
<1>2. ASSUME NEW h \in Handlers,
             vpsInstall(h) \/ \E runtime \in Runtimes, port \in Ports : ReadForUpdate(h, runtime, port)
      PROVE  Basics'
  BY <1>2, <1>a, <1>x DEF ReadForUpdate, vpsInstall, server, Exists
<1>3. ASSUME NEW h \in Handlers, updateMinimalVps(h)
      PROVE  Basics'
  <2>1. CASE Exists
    <3>1. node \in Rows /\ job[h].runtime \in Runtimes /\ job[h].port \in Ports
      BY <1>3, <2>1, JobFields DEF IInv, NodeOK, updateMinimalVps
    <3>2. node' \in Rows /\ (node'.provisioned => ~node'.draft)
      BY <1>3, <2>1, <3>1 DEF updateMinimalVps, Rows, Modes, Basics, Withdrawn
    <3>3. QED
      BY <1>3, <2>1, <3>2, <1>e, <1>x DEF updateMinimalVps
  <2>2. CASE ~Exists
    BY <1>3, <2>2, <1>a, <1>x, <1>v DEF updateMinimalVps
  <2>3. QED
    BY <2>1, <2>2
<1>4. ASSUME NEW h \in Handlers, freshInstallTicket(h)
      PROVE  Basics'
  <2>1. DOMAIN tickets \subseteq DOMAIN tickets'
    <3>1. CASE Exists
      <4> DEFINE old == Superseded(tickets)
      <4>1. tickets \in Seq(TicketRows)
        BY DEF IInv, TicketsOK
      <4>2. old \in Seq(TicketRows) /\ DOMAIN old = DOMAIN tickets
        BY <4>1, SupersededType
      <4>3. Ticket \in TicketRows
        BY DEF Ticket, TicketRows
      <4>4. tickets' = Append(old, Ticket)
        BY <1>4, <3>1 DEF freshInstallTicket
      <4> HIDE DEF old
      <4>5. QED
        BY <4>2, <4>3, <4>4, AppendProperties
    <3>2. QED
      BY <1>4, <3>1 DEF freshInstallTicket
  <2>2. QED
    BY <1>4, <2>1, <1>a, <1>x, <1>v DEF freshInstallTicket
<1>5. ASSUME NEW enabled \in BOOLEAN, setEnabled(enabled)
      PROVE  Basics'
  <2>1. node' \in Rows /\ (node'.provisioned => ~node'.draft)
    BY <1>5 DEF setEnabled, IInv, NodeOK, Rows, Basics, Withdrawn
  <2>2. QED
    BY <1>5, <2>1, <1>e, <1>x DEF setEnabled
<1>6. ASSUME deleteVps
      PROVE  Basics'
  BY <1>6, ConstantsAssumption DEF deleteVps, Basics, NotYet, Orphanless, TicketKnown, Withdrawn, Exists
<1>7. ASSUME NEW s \in Scripts, NEW i \in DOMAIN tickets, NEW mode \in Modes, minimalInstaller(s, i, mode)
      PROVE  Basics'
  <2>1. script'[s].ticket = i /\ \A t \in Scripts \ {s} : script'[t] = script[t]
    BY <1>7 DEF minimalInstaller, IInv, ScriptOK
  <2>2. QED
    BY <1>7, <2>1 DEF minimalInstaller, server, Basics, NotYet, Orphanless, TicketKnown, Withdrawn, Exists, Active
<1>8. ASSUME NEW s \in Scripts, Replace(s) \/ Restart(s) \/ ScriptStops(s)
      PROVE  Basics'
  <2>1. Advance
    BY <1>8, MoveAdvances, EndAdvances DEF Replace, Restart, ScriptStops
  <2>2. QED
    BY <1>8, <2>1, <1>a DEF Replace, Restart, ScriptStops, server
<1>9. ASSUME Reboot
      PROVE  Basics'
  <2>1. Advance
    BY <1>9 DEF Reboot, Advance, Active
  <2>2. QED
    BY <1>9, <2>1, <1>a DEF Reboot, server
<1>10. ASSUME NEW h \in Handlers, NEW s \in Scripts, ReadForComplete(h, s)
       PROVE  Basics'
  <2>1. Advance
    BY <1>10, MoveAdvances, EndAdvances DEF ReadForComplete, Told
  <2>2. node # None
    BY <1>10, Values DEF ReadForComplete, Basics, NotYet
  <2>3. QED
    BY <1>10, <2>1, <2>2, <1>a DEF ReadForComplete, server
<1>11. ASSUME NEW h \in Handlers, minimalComplete(h), Advance
       PROVE  Basics'
  <2>1. CASE Exists
    <3>1. node \in Rows /\ job[h].mode \in Modes
      BY <1>11, <2>1, JobFields DEF IInv, NodeOK, minimalComplete
    <3>2. node' \in Rows /\ ~node'.draft
      BY <1>11, <2>1, <3>1 DEF minimalComplete, Rows, Modes
    <3>3. DOMAIN tickets' = DOMAIN tickets
      BY <1>11, <2>1 DEF minimalComplete
    <3>4. QED
      BY <1>11, <2>1, <3>2, <3>3, <1>e
  <2>2. CASE ~Exists
    BY <1>11, <2>2, <1>a, <1>v DEF minimalComplete, server
  <2>3. QED
    BY <2>1, <2>2
<1>12. ASSUME NEW h \in Handlers, HandlerDies(h), Advance
       PROVE  Basics'
  BY <1>12, <1>a, <1>v, Values DEF HandlerDies, server
<1>13. ASSUME NEW i \in DOMAIN tickets, Expire(i)
       PROVE  Basics'
  BY <1>13, <1>a, <1>x DEF Expire, Basics, Orphanless
<1>14. ASSUME UNCHANGED vars \/ \E m \in Modes : Ends(m) \/ Starts(m)
       PROVE  Basics'
  BY <1>14, <1>a, <1>x DEF vars, server, Ends, Starts
<1>15. Advance \/ \E s \in Scripts, i \in DOMAIN tickets, mode \in Modes : minimalInstaller(s, i, mode)
  BY StepAdvances
<1>16. ASSUME NEW h \in Handlers, minimalComplete(h) \/ HandlerDies(h)
       PROVE  Basics'
  <2>1. CASE Advance
    BY <1>16, <2>1, <1>11, <1>12
  <2>2. QED
    BY <2>1, <1>15, <1>7
<1>17. QED
  BY <1>1, <1>2, <1>3, <1>4, <1>5, <1>6, <1>7, <1>8, <1>9, <1>10, <1>13, <1>14, <1>16 DEF Next

\* Nobody else is worked on when a request writes and the run stays clean.
LEMMA Alone ==
  ASSUME IInv, Clean', NEW h \in Handlers,
         updateMinimalVps(h) \/ freshInstallTicket(h) \/ minimalComplete(h)
  PROVE  \A g \in Handlers \ {h} : job[g] = Idle
<1>1. crossed' = (crossed \/ Busy(h))
  BY DEF updateMinimalVps, freshInstallTicket, minimalComplete
<1>2. ~Busy(h)
  BY <1>1, Zenon DEF Clean
<1>3. QED
  BY <1>2 DEF Busy

\* A step that only lets scripts go on, or end, disturbs nothing of the row.
LEMMA SameStays ==
  ASSUME NEW m \in Modes, Same(m), Advance, node'.runtime = node.runtime, UNCHANGED machine
  PROVE  Same(m)'
BY DEF Same, Holds, Advance, machine

LEMMA OneScriptStays ==
  ASSUME OneScript, Advance
  PROVE  OneScript'
BY DEF OneScript, Advance

LEMMA UndisturbedStep ==
  ASSUME IInv, Basics, Undisturbed, [Next]_vars, Clean'
  PROVE  Undisturbed'
<1>i. OneScript /\ StepDone /\ ReadFresh /\ TicketFresh /\ CompleteFresh /\ ProvisionedSame
  BY DEF Undisturbed
<1>v. /\ \A h \in Handlers : job[h].op = "complete" => job[h].mode \in Modes
      /\ Exists => node.mode \in Modes
  BY Values
<1>x. UNCHANGED <<script, machine>> => Advance /\ StepDone'
  BY <1>i DEF Advance, Active, StepDone, Holds, machine
\* The row is gone or is not yet: only the scripts matter.
<1>g. ASSUME ~Exists', OneScript', StepDone'
      PROVE  Undisturbed'
  BY <1>g DEF Undisturbed, ReadFresh, TicketFresh, CompleteFresh, ProvisionedSame
\* The row stays what it was for the scripts, and no request begins.
<1>k. ASSUME Advance, UNCHANGED machine, StepDone',
             Exists' => /\ Exists /\ node'.runtime = node.runtime /\ node'.provisioned = node.provisioned
                        /\ node'.mode = node.mode,
             \A s \in Scripts : Exists /\ Active(s)' /\ ~tickets'[script[s].ticket].used => ~tickets[script[s].ticket].used,
             \A h \in Handlers : job'[h] = job[h] \/ (job'[h] = Idle /\ job[h].op # "ticket")
      PROVE  Undisturbed'
  <2>1. OneScript'
    BY <1>k, <1>i, OneScriptStays
  <2>2. CASE Exists'
    <3>1. Pending => Pending'
      BY <1>k DEF Pending
    <3>2. \A m \in Modes : Same(m) => Same(m)'
      BY <1>k, <2>2, SameStays
    <3>3. ReadFresh'
      BY <1>k, <1>i, <2>2 DEF ReadFresh, Idle
    <3>4. TicketFresh'
      BY <1>k, <1>i, <2>2, <3>1 DEF TicketFresh, Advance
    <3>5. CompleteFresh'
      BY <1>k, <1>i, <1>v, <2>2, <3>1, <3>2 DEF CompleteFresh, Idle
    <3>6. ProvisionedSame'
      BY <1>k, <1>i, <1>v, <2>2, <3>2 DEF ProvisionedSame, Same
    <3>7. QED
      BY <1>k, <2>1, <3>3, <3>4, <3>5, <3>6 DEF Undisturbed
  <2>3. QED
    BY <1>k, <1>g, <2>1, <2>2
<1>1. ASSUME NEW runtime \in Runtimes, NEW port \in Ports, createMinimalVps(runtime, port)
      PROVE  Undisturbed'
  <2>1. /\ \A h \in Handlers : job'[h].op = "idle"
        /\ \A s \in Scripts : ~Active(s)'
        /\ UNCHANGED <<script, machine>>
    BY <1>1 DEF createMinimalVps, Basics, NotYet, Active, Idle
  <2>2. ~node'.provisioned
    BY <1>1 DEF createMinimalVps
  <2>3. OneScript' /\ StepDone'
    BY <1>i, <1>x, <2>1, OneScriptStays
  <2>4. QED
    BY <2>1, <2>2, <2>3 DEF Undisturbed, ReadFresh, TicketFresh, CompleteFresh, ProvisionedSame
<1>2. ASSUME NEW h \in Handlers, NEW runtime \in Runtimes, NEW port \in Ports,
             ReadForUpdate(h, runtime, port)
      PROVE  Undisturbed'
  <2>1. /\ job[h] = Idle /\ job'[h].op = "update" /\ job'[h].row = node
        /\ \A g \in Handlers \ {h} : job'[g] = job[g]
        /\ UNCHANGED <<server, script, machine>>
    BY <1>2 DEF ReadForUpdate, IInv, JobOK
  <2>2. Pending' = Pending
    BY <2>1 DEF Pending, Idle
  <2>3. (\A m \in Modes : Same(m) => Same(m)') /\ Exists' = Exists
    BY <2>1 DEF Same, Holds, Exists, Active, machine, server
  <2>4. OneScript' /\ StepDone'
    BY <1>i, <1>x, <2>1, OneScriptStays
  <2>5. ReadFresh' /\ CompleteFresh'
    BY <1>i, <1>v, <2>1, <2>2, <2>3 DEF ReadFresh, CompleteFresh, server
  <2>6. TicketFresh' /\ ProvisionedSame'
    BY <1>i, <1>v, <2>1, <2>2, <2>3 DEF TicketFresh, ProvisionedSame, server, Active
  <2>7. QED
    BY <2>4, <2>5, <2>6 DEF Undisturbed
<1>3. ASSUME NEW h \in Handlers, vpsInstall(h)
      PROVE  Undisturbed'
  <2>1. /\ job'[h].op = "ticket"
        /\ \A g \in Handlers \ {h} : job'[g] = job[g]
        /\ UNCHANGED <<server, script, machine>>
    BY <1>3 DEF vpsInstall, IInv, JobOK
  <2>2. Pending'
    BY <2>1 DEF Pending
  <2>3. (\A m \in Modes : Same(m) => Same(m)') /\ Exists' = Exists
    BY <2>1 DEF Same, Holds, Exists, Active, machine, server
  <2>4. OneScript' /\ StepDone'
    BY <1>i, <1>x, <2>1, OneScriptStays
  <2>5. QED
    BY <1>i, <1>v, <2>1, <2>2, <2>3, <2>4
       DEF Undisturbed, ReadFresh, CompleteFresh, TicketFresh, ProvisionedSame, server
<1>4. ASSUME NEW h \in Handlers, updateMinimalVps(h)
      PROVE  Undisturbed'
  <2>1. \A g \in Handlers \ {h} : job'[g] = Idle /\ job[g] = Idle
    BY <1>4, Alone DEF updateMinimalVps, IInv, JobOK
  <2>2. UNCHANGED <<tickets, script, machine>> /\ job[h].op = "update"
    BY <1>4 DEF updateMinimalVps
  <2>3. OneScript' /\ StepDone' /\ Advance
    BY <1>i, <1>x, <2>2, OneScriptStays
  <2>4. CASE Exists
    <3> DEFINE new == job[h].runtime
               changed == runtimeChanged(job[h].row.runtime, new)
    <3>1. /\ node \in Rows /\ new \in Runtimes /\ job[h].row.runtime = node.runtime
          /\ node.runtime \in Runtimes
      BY <1>i, <2>2, <2>4, JobFields DEF IInv, NodeOK, Rows, ReadFresh
    <3>2. CASE changed
      <4>1. job'[h].op = "ticket" /\ ~node'.provisioned
        BY <1>4, <2>4, <3>1, <3>2 DEF updateMinimalVps, IInv, JobOK, Rows
      <4>2. Pending'
        BY <4>1 DEF Pending
      <4>3. QED
        BY <2>1, <2>3, <4>1, <4>2
           DEF Undisturbed, ReadFresh, CompleteFresh, TicketFresh, ProvisionedSame, Idle
    <3>3. CASE ~changed
      <4>1. new = node.runtime
        BY <3>1, <3>3, ConstantsAssumption DEF runtimeChanged
      <4>2. /\ job'[h] = Idle /\ node'.runtime = node.runtime /\ node'.provisioned = node.provisioned
            /\ node'.mode = node.mode
        BY <1>4, <2>4, <3>1, <3>3, <4>1 DEF updateMinimalVps, IInv, JobOK, Rows
      <4>3. QED
        BY <1>k, <2>1, <2>2, <2>3, <2>4, <4>2
    <3>4. QED
      BY <3>2, <3>3
  <2>5. CASE ~Exists
    BY <1>4, <1>g, <2>3, <2>5 DEF updateMinimalVps, Exists
  <2>6. QED
    BY <2>4, <2>5
<1>5. ASSUME NEW h \in Handlers, freshInstallTicket(h)
      PROVE  Undisturbed'
  <2>1. \A g \in Handlers : job'[g] = Idle
    BY <1>5, Alone DEF freshInstallTicket, IInv, JobOK
  <2>2. UNCHANGED <<node, script, machine>>
    BY <1>5 DEF freshInstallTicket
  <2>3. OneScript' /\ StepDone' /\ Advance
    BY <1>i, <1>x, <2>2, OneScriptStays
  <2>4. CASE Exists
    <3> DEFINE old == Superseded(tickets)
    <3>1. /\ old \in Seq(TicketRows) /\ Len(old) \in Nat /\ DOMAIN tickets = 1..Len(old)
          /\ \A i \in DOMAIN tickets : old[i].used
      BY SupersededType DEF IInv, TicketsOK
    <3>2. tickets' = Append(old, Ticket) /\ Ticket \in TicketRows
      BY <1>5, <2>4 DEF freshInstallTicket, Ticket, TicketRows
    <3>3. \A i \in DOMAIN tickets : tickets'[i].used
      <4> HIDE DEF old
      <4>1. QED
        BY <3>1, <3>2, AppendProperties
    <3>4. TicketFresh'
      BY <2>2, <2>4, <3>3 DEF TicketFresh, Basics, TicketKnown, Active
    <3>5. ProvisionedSame'
      BY <1>i, <1>v, <2>2, <2>3, SameStays DEF ProvisionedSame, Exists
    <3>6. QED
      BY <2>1, <2>3, <3>4, <3>5 DEF Undisturbed, ReadFresh, CompleteFresh, Idle
  <2>5. CASE ~Exists
    BY <1>g, <2>2, <2>3, <2>5 DEF Exists
  <2>6. QED
    BY <2>4, <2>5
<1>6. ASSUME NEW enabled \in BOOLEAN, setEnabled(enabled)
      PROVE  Undisturbed'
  <2>1. UNCHANGED <<tickets, script, machine, job>>
    BY <1>6 DEF setEnabled
  <2>2. /\ Exists /\ node'.runtime = node.runtime /\ node'.provisioned = node.provisioned
        /\ node'.mode = node.mode
    BY <1>6 DEF setEnabled, IInv, NodeOK, Rows
  <2>3. QED
    BY <1>k, <1>x, <2>1, <2>2
<1>7. ASSUME deleteVps
      PROVE  Undisturbed'
  <2>1. ~Exists' /\ UNCHANGED <<script, machine>>
    BY <1>7 DEF deleteVps, Exists
  <2>2. QED
    BY <1>g, <1>i, <1>x, <2>1, OneScriptStays
<1>8. ASSUME NEW s \in Scripts, NEW i \in DOMAIN tickets, NEW mode \in Modes, minimalInstaller(s, i, mode)
      PROVE  Undisturbed'
  <2>1. \A t \in Scripts \ {s} : ~Active(t)
    <3>1. crowded' = (crowded \/ \E t \in Scripts \ {s} : script[t] # NoScript)
      BY <1>8 DEF minimalInstaller
    <3>2. QED
      BY <3>1, Zenon DEF Clean, Active
  <2>2. /\ script'[s].step = "replace" /\ script'[s].runtime = node.runtime
        /\ \A t \in Scripts \ {s} : script'[t] = script[t] /\ script'[t].step = "none"
        /\ UNCHANGED <<server, job, machine>>
    BY <1>8, <2>1, Values DEF minimalInstaller, RuntimeOf, IInv, ScriptOK, Active, NoScript
  <2>3. \A t \in Scripts : Active(t)' => t = s
    BY <2>1, <2>2 DEF Active
  <2>4. OneScript' /\ StepDone'
    BY <2>2, <2>3 DEF OneScript, StepDone
  <2>5. \A m \in Modes : Same(m) => Same(m)'
    BY <2>2, <2>3 DEF Same, Holds, machine, server
  <2>6. Pending' = Pending /\ Exists' = Exists
    BY <2>2 DEF Pending, Exists, server
  <2>7. ReadFresh' /\ TicketFresh' /\ CompleteFresh' /\ ProvisionedSame'
    BY <1>i, <1>v, <2>2, <2>3, <2>5, <2>6 DEF ReadFresh, TicketFresh, CompleteFresh, ProvisionedSame, server
  <2>8. QED
    BY <2>4, <2>7 DEF Undisturbed
<1>s. ASSUME NEW s \in Scripts, Active(s)
      PROVE  \A t \in Scripts \ {s} : ~Active(t) /\ script[t].step = "none"
  BY <1>s, <1>i, Values DEF OneScript
<1>9. ASSUME NEW s \in Scripts, Replace(s)
      PROVE  Undisturbed'
  <2>1. /\ Active(s) /\ script'[s].step = "restart" /\ script'[s].runtime = script[s].runtime
        /\ script'[s].mode = script[s].mode /\ script[s].mode \in Modes
        /\ \A t \in Scripts \ {s} : script'[t] = script[t]
        /\ UNCHANGED <<server, job, running>>
    BY <1>9, Values DEF Replace, IInv, ScriptOK, RunningScripts
  <2>8. /\ disk'[script[s].mode] = script[s].runtime
        /\ \A m \in Modes : disk'[m] = disk[m] \/ disk'[m] = script[s].runtime
    BY <1>9, <2>1 DEF Replace, IInv, MachineOK
  <2>2. Advance
    BY <1>9, MoveAdvances DEF Replace
  <2>3. OneScript' /\ StepDone'
    BY <1>i, <1>s, <2>1, <2>8, <2>2, OneScriptStays DEF StepDone
  <2>4. \A m \in Modes : Same(m) => Same(m)'
    BY <2>1, <2>8, <2>2 DEF Same, Holds, Advance, server
  <2>5. Pending' = Pending /\ Exists' = Exists
    BY <2>1 DEF Pending, Exists, server
  <2>6. ReadFresh' /\ TicketFresh' /\ CompleteFresh' /\ ProvisionedSame'
    BY <1>i, <1>v, <2>1, <2>2, <2>4, <2>5
       DEF ReadFresh, TicketFresh, CompleteFresh, ProvisionedSame, Advance, server
  <2>7. QED
    BY <2>3, <2>6 DEF Undisturbed
<1>10. ASSUME NEW s \in Scripts, Restart(s)
       PROVE  Undisturbed'
  <2>1. /\ Active(s) /\ script[s].mode \in Modes /\ disk[script[s].mode] = script[s].runtime
        /\ \/ script'[s].step = "none"
           \/ /\ script'[s].step = "report" /\ script'[s].runtime = script[s].runtime
              /\ script'[s].mode = script[s].mode
        /\ \A t \in Scripts \ {s} : script'[t] = script[t]
        /\ UNCHANGED <<server, job, disk>>
    BY <1>10, <1>i, Values DEF Restart, IInv, ScriptOK, RunningScripts, StepDone, NoScript
  <2>8. /\ running'[script[s].mode] \in {None, script[s].runtime}
        /\ \A m \in Modes : running'[m] = running[m] \/ running'[m] \in {None, disk[m]}
    BY <1>10, <2>1 DEF Restart, IInv, MachineOK
  <2>2. Advance
    BY <1>10, MoveAdvances, EndAdvances DEF Restart
  <2>3. OneScript' /\ StepDone'
    BY <1>i, <1>s, <2>1, <2>8, <2>2, OneScriptStays DEF StepDone, Holds
  <2>4. \A m \in Modes : Same(m) => Same(m)'
    BY <2>1, <2>8, <2>2 DEF Same, Holds, Advance, server
  <2>5. Pending' = Pending /\ Exists' = Exists
    BY <2>1 DEF Pending, Exists, server
  <2>6. ReadFresh' /\ TicketFresh' /\ CompleteFresh' /\ ProvisionedSame'
    BY <1>i, <1>v, <2>1, <2>2, <2>4, <2>5
       DEF ReadFresh, TicketFresh, CompleteFresh, ProvisionedSame, Advance, server
  <2>7. QED
    BY <2>3, <2>6 DEF Undisturbed
<1>e. ASSUME NEW s \in Scripts, script' = [script EXCEPT ![s] = NoScript], UNCHANGED machine
      PROVE  Advance /\ StepDone'
  <2>1. script'[s].step = "none" /\ \A t \in Scripts \ {s} : script'[t] = script[t]
    BY <1>e DEF IInv, ScriptOK, NoScript
  <2>2. QED
    BY <1>e, <1>i, <2>1, EndAdvances DEF StepDone, Holds, machine
<1>11. ASSUME NEW s \in Scripts, ScriptStops(s)
       PROVE  Undisturbed'
  BY <1>11, <1>e, <1>k DEF ScriptStops, server, Exists
<1>12. ASSUME Reboot
       PROVE  Undisturbed'
  <2>1. /\ \A s \in Scripts : ~Active(s)' /\ script'[s].step = "none"
        /\ \A m \in Modes : running'[m] = None
        /\ UNCHANGED <<server, job, disk>>
    BY <1>12 DEF Reboot, Active, NoScript
  <2>2. OneScript' /\ StepDone'
    BY <2>1 DEF OneScript, StepDone
  <2>3. \A m \in Modes : Same(m) => Same(m)'
    BY <2>1 DEF Same, Holds, server
  <2>4. Pending' = Pending /\ Exists' = Exists
    BY <2>1 DEF Pending, Exists, server
  <2>5. QED
    BY <1>i, <1>v, <2>1, <2>2, <2>3, <2>4
       DEF Undisturbed, ReadFresh, TicketFresh, CompleteFresh, ProvisionedSame, server
\* A script that has restarted sing-box goes between its report and the answer.
<1>w. ASSUME NEW s \in Scripts, script[s].step \in {"report", "waiting"}, UNCHANGED machine,
             NEW step \in {"report", "waiting"}, script' = [script EXCEPT ![s].step = step]
      PROVE  Advance /\ StepDone'
  <2>1. /\ script'[s].step \in {"report", "waiting"} /\ script'[s].runtime = script[s].runtime
        /\ script'[s].mode = script[s].mode
        /\ \A t \in Scripts \ {s} : script'[t] = script[t]
    BY <1>w, Values DEF IInv, ScriptOK, RunningScripts
  <2>2. QED
    BY <1>w, <1>i, <2>1, MoveAdvances DEF StepDone, Holds, machine
<1>13. ASSUME NEW h \in Handlers, NEW s \in Scripts, ReadForComplete(h, s)
       PROVE  Undisturbed'
  <2> DEFINE i == script[s].ticket
  <2>1. CASE Told(s) /\ UNCHANGED job
    BY <1>13, <2>1, <1>e, <1>k DEF ReadForComplete, Told, server, Exists
  <2>2. CASE /\ ~Refused(i, script[s].mode) /\ ~tickets[i].used
             /\ job' = [job EXCEPT ![h] = [op |-> "complete", by |-> s, ticket |-> i, mode |-> script[s].mode]]
             /\ script' = [script EXCEPT ![s].step = "waiting"]
    <3>1. Advance /\ StepDone'
      BY <1>13, <2>2, <1>w DEF ReadForComplete
    <3>2. OneScript'
      BY <1>i, <3>1, OneScriptStays
    <3>3. /\ job[h] = Idle /\ job'[h].op = "complete" /\ job'[h].mode = script[s].mode
          /\ \A g \in Handlers \ {h} : job'[g] = job[g]
          /\ UNCHANGED <<server, machine>>
      BY <1>13, <2>2 DEF ReadForComplete, IInv, JobOK
    <3>4. Pending' = Pending /\ Exists' = Exists
      BY <3>3 DEF Pending, Idle, Exists, server
    <3>5. \A m \in Modes : Same(m) => Same(m)'
      BY <3>1, <3>3, SameStays DEF server
    <3>6. Active(s) /\ script[s].mode \in Modes /\ Holds(script[s].mode, script[s].runtime)
      BY <1>13, <1>i, Values DEF ReadForComplete, StepDone, RunningScripts
    <3>7. Exists => Pending \/ Same(script[s].mode)
      BY <1>i, <1>s, <2>2, <3>6 DEF TicketFresh, Same
    <3>8. CompleteFresh'
      BY <1>i, <1>v, <3>3, <3>4, <3>5, <3>6, <3>7 DEF CompleteFresh
    <3>9. ReadFresh' /\ TicketFresh' /\ ProvisionedSame'
      BY <1>i, <1>v, <3>1, <3>3, <3>4, <3>5 DEF ReadFresh, TicketFresh, ProvisionedSame, Advance, server
    <3>10. QED
      BY <3>1, <3>2, <3>8, <3>9 DEF Undisturbed
  <2>3. QED
    BY <1>13, <2>1, <2>2 DEF ReadForComplete
<1>14. ASSUME NEW h \in Handlers, minimalComplete(h)
       PROVE  Undisturbed'
  <2> DEFINE s == job[h].by
  <2>1. (\A g \in Handlers : job'[g] = Idle) /\ (\A g \in Handlers \ {h} : job[g] = Idle) /\ UNCHANGED machine
    BY <1>14, Alone DEF minimalComplete, IInv, JobOK
  <2>2. job[h].op = "complete" /\ s \in Scripts
    BY <1>14, JobFields DEF minimalComplete, IInv
  <2>3. Advance /\ StepDone'
    <3>1. CASE script' = [script EXCEPT ![s] = NoScript]
      BY <2>1, <2>2, <3>1, <1>e
    <3>2. CASE script[s].step = "waiting" /\ script' = [script EXCEPT ![s].step = "report"]
      BY <2>1, <2>2, <3>2, <1>w
    <3>3. CASE UNCHANGED script
      BY <2>1, <3>3, <1>x
    <3>4. QED
      BY <1>14, <3>1, <3>2, <3>3 DEF minimalComplete
  <2>4. OneScript'
    BY <1>i, <2>3, OneScriptStays
  <2>5. CASE Exists
    <3>1. ~Pending
      BY <2>1, <2>2 DEF Pending, Idle
    <3>2. node \in Rows /\ node'.runtime = node.runtime /\ node'.mode = job[h].mode
      BY <1>14, <2>5 DEF minimalComplete, IInv, NodeOK, Rows
    <3>6. job[h].mode \in Modes /\ Same(job[h].mode)
      BY <1>i, <1>v, <2>2, <2>5, <3>1 DEF CompleteFresh
    <3>3. Same(node.mode)'
      BY <2>1, <2>3, <3>2, <3>6, SameStays DEF Same, Holds
    <3>4. TicketFresh'
      BY <2>3, <3>3 DEF TicketFresh, Same
    <3>5. QED
      BY <2>1, <2>3, <2>4, <3>3, <3>4 DEF Undisturbed, ReadFresh, CompleteFresh, ProvisionedSame, Idle
  <2>6. CASE ~Exists
    BY <1>14, <1>g, <2>3, <2>4, <2>6 DEF minimalComplete, server, Exists
  <2>7. QED
    BY <2>5, <2>6
<1>15. ASSUME NEW h \in Handlers, HandlerDies(h)
       PROVE  Undisturbed'
  <2> DEFINE s == job[h].by
  <2>1. job[h].op # "ticket"
    <3>1. crossed' = (crossed \/ job[h].op = "ticket")
      BY <1>15 DEF HandlerDies
    <3>2. QED
      BY <3>1, Zenon DEF Clean
  <2>2. UNCHANGED <<server, machine>> /\ \A g \in Handlers : job'[g] = job[g] \/ (job'[g] = Idle /\ job[g].op # "ticket")
    BY <1>15, <2>1 DEF HandlerDies, IInv, JobOK
  <2>3. Advance /\ StepDone'
    <3>1. CASE job[h].op = "complete" /\ script[s].step = "waiting" /\ script' = [script EXCEPT ![s].step = "report"]
      <4>1. s \in Scripts
        BY <3>1, JobFields DEF IInv
      <4>2. QED
        BY <2>2, <3>1, <4>1, <1>w
    <3>2. CASE UNCHANGED script
      BY <2>2, <3>2, <1>x
    <3>3. QED
      BY <1>15, <3>1, <3>2 DEF HandlerDies
  <2>4. QED
    BY <1>k, <2>2, <2>3 DEF server, Exists
<1>16. ASSUME NEW i \in DOMAIN tickets, Expire(i)
       PROVE  Undisturbed'
  <2>1. UNCHANGED <<node, job, script, machine>>
    BY <1>16 DEF Expire
  <2>2. \A j \in DOMAIN tickets : tickets'[j].used = tickets[j].used
    BY <1>16 DEF Expire, IInv, TicketsOK, TicketRows
  <2>3. \A s \in Scripts : Exists /\ Active(s)' => script[s].ticket \in DOMAIN tickets
    BY <2>1 DEF Basics, TicketKnown, Active
  <2>4. QED
    BY <1>k, <1>x, <2>1, <2>2, <2>3 DEF Exists
<1>17. ASSUME NEW m \in Modes, Ends(m) \/ Starts(m)
       PROVE  Undisturbed'
  <2>1. UNCHANGED <<server, job, script, disk>> /\ \A o \in Modes : running'[o] = running[o] \/ running'[o] \in {None, disk[o]}
    BY <1>17 DEF Ends, Starts, IInv, MachineOK
  <2>2. \A s \in Scripts : Active(s) => script[s].mode \in Modes
    BY Values DEF RunningScripts
  <2>3. OneScript' /\ StepDone'
    BY <1>i, <2>1, <2>2, Values DEF OneScript, StepDone, Holds, Active
  <2>4. \A o \in Modes : Same(o) => Same(o)'
    BY <2>1 DEF Same, Holds, Active, server
  <2>5. Pending' = Pending /\ Exists' = Exists
    BY <2>1 DEF Pending, Exists, server
  <2>6. ReadFresh' /\ TicketFresh' /\ CompleteFresh' /\ ProvisionedSame'
    BY <1>i, <1>v, <2>1, <2>4, <2>5
       DEF ReadFresh, TicketFresh, CompleteFresh, ProvisionedSame, Active, server
  <2>7. QED
    BY <2>3, <2>6 DEF Undisturbed
<1>18. CASE UNCHANGED vars
  BY <1>18, <1>k, <1>x DEF vars, server, Exists
<1>19. QED
  BY <1>1, <1>2, <1>3, <1>4, <1>5, <1>6, <1>7, <1>8, <1>9, <1>10, <1>11, <1>12, <1>13, <1>14,
     <1>15, <1>16, <1>17, <1>18 DEF Next

LEMMA NextOInv == IInv /\ OInv /\ [Next]_vars => OInv'
BY BasicsStep, UndisturbedStep, CleanBefore DEF OInv

\* A subscription offers a minimal VPS with what its sing-box has on disk, and
\* it runs that or nothing, unless requests wrote across each other or two scripts were there at
\* one time (README.md:84, api.ts:416).
THEOREM OfferedInstalled == Spec => []OfferedIsInstalled
<1>1. Spec => [](IInv /\ OInv)
  BY InitIInv, NextIInv, InitOInv, NextOInv, PTL DEF Spec
<1>2. IInv /\ OInv => OfferedIsInstalled
  BY DEF OInv, Clean, Undisturbed, ProvisionedSame, Same, Holds, OfferedIsInstalled, Installed,
         Offered, RuntimeOf
<1>3. QED
  BY <1>1, <1>2, PTL

\* A script is told ok without a write only for a node that is offered as it
\* was installed (api.ts:498), under the same exceptions.
THEOREM ToldOffered == Spec => ToldIsOffered
<1> DEFINE Answered(h, s) == /\ ReadForComplete(h, s) /\ ~Refused(script[s].ticket, script[s].mode)
                          /\ script'[s] = NoScript
                          /\ ~crossed /\ ~crowded
           Honest == \A h \in Handlers, s \in Scripts : Answered(h, s) => Offered' /\ Installed
<1>1. Spec => [](IInv /\ OInv)
  BY InitIInv, NextIInv, InitOInv, NextOInv, PTL DEF Spec
<1>2. IInv /\ OInv => [Honest]_vars
  <2>1. ASSUME IInv, OInv, NEW h \in Handlers, NEW s \in Scripts, Answered(h, s)
        PROVE  Offered' /\ Installed
    <3> DEFINE i == script[s].ticket
    <3>1. script[s] \in RunningScripts /\ UNCHANGED node
      BY <2>1, Values, ScriptFields DEF ReadForComplete, IInv, server
    <3>2. i \in DOMAIN tickets /\ node.enabled
      BY <2>1 DEF Refused
    <3>3. Exists
      BY <2>1, <3>2 DEF OInv, Basics, Orphanless
    <3>4. Idempotent(i)
      <4>1. script' # [script EXCEPT ![s].step = "waiting"]
        BY <2>1, <3>1 DEF IInv, ScriptOK, RunningScripts, NoScript
      <4>2. QED
        BY <2>1, <4>1 DEF ReadForComplete
    <3>5. node.provisioned /\ ~node.draft
      BY <2>1, <3>3, <3>4 DEF Idempotent, OInv, Basics, Withdrawn
    <3>6. Same(node.mode)
      BY <2>1, <3>3, <3>5 DEF OInv, Clean, Undisturbed, ProvisionedSame
    <3>7. QED
      BY <3>1, <3>2, <3>3, <3>5, <3>6 DEF Offered, Exists, Same, Holds, Installed, RuntimeOf
  <2>2. QED
    BY <2>1
<1>3. [Honest]_vars <=> [\A h \in Handlers, s \in Scripts :
       /\ ReadForComplete(h, s) /\ ~Refused(script[s].ticket, script[s].mode) /\ script'[s] = NoScript
       /\ ~crossed /\ ~crowded
       => Offered' /\ Installed]_vars
  OBVIOUS
<1>4. QED
  <2> HIDE DEF Honest
  <2>1. QED
    BY <1>1, <1>2, <1>3, PTL DEF Spec, ToldIsOffered
=============================================================================

--------------------------- MODULE EnrollmentProofs ---------------------------
(***************************************************************************)
(* Proofs about Enrollment, for any number of machines, tickets, claims    *)
(* and overlapping handlers, without the bounds of the model checker.      *)
(*                                                                         *)
(* OneHostPerTicket and HeldIsServed are about credentials on machines;    *)
(* the invariant speaks of an id from the moment the batch commits it:     *)
(* granted ids, on a handler, on the way, in an installer, in a config or  *)
(* in the agents table.  Granted ids of one ticket are equal (OneGrant);   *)
(* while the node exists the reason is the ticket's row (BoundGrant), and  *)
(* after a deletion no new one appears.  A claim stays on the machine that *)
(* drew it (ClaimsApart), so equal ids are on one machine.                 *)
(***************************************************************************)
EXTENDS Enrollment, TLAPS

\* x was granted by registerAgent, to whomever it travels.
Granted(x) ==
  \/ x \in agents
  \/ \E h \in Handlers : At(h, "answer") /\ job[h].req.id = x
  \/ \E m \in answers : m.ok /\ m.id = x
  \/ \E v \in Hosts : run[v].pc \in {"write", "clean"} /\ Mine(v).id = x
  \/ \E v \in Hosts : config[v] = x

\* Claim c is on machine v, or in a message or a handler's request of v.
Holds(v, c) ==
  \/ run[v].claim = c \/ claimFile[v] = c
  \/ config[v] # None /\ config[v].claim = c
  \/ \E m \in requests \cup answers : m.host = v /\ m.id.claim = c
  \/ \E h \in Handlers : ~At(h, "idle") /\ ~At(h, "delete")
                         /\ job[h].req.host = v /\ job[h].req.id.claim = c

JobShape == \A h \in Handlers : ~At(h, "idle") /\ ~At(h, "delete") => job[h].req \in Requests

RunShape ==
  \A v \in Hosts :
    /\ run[v].pc \notin {"idle"} => run[v].ticket \in Tickets
    /\ run[v].pc \notin {"idle", "claim"} => run[v].claim \in Claims
    /\ run[v].pc \in {"claim", "send"} => run[v].tries < MaxTries

BoundGrant == present => \A x \in Ids : Granted(x) => bound[x.ticket] = x

BoundClaim == \A t \in Tickets : bound[t] # None => claimOf[t] = bound[t].claim

OneGrant == \A x, y \in Ids : Granted(x) /\ Granted(y) /\ x.ticket = y.ticket => x = y

ServedGrant ==
  present => \A x \in Ids : Granted(x) =>
    \/ x \in agents
    \/ nodeAgent # None /\ nodeAgent.ticket # x.ticket

ClaimsApart ==
  \A c \in Claims : /\ \A v, w \in Hosts : Holds(v, c) /\ Holds(w, c) => v = w
                    /\ c \notin drawn => \A v \in Hosts : ~Holds(v, c)

IInv ==
  /\ TypeOK /\ JobShape /\ RunShape
  /\ BoundGrant /\ BoundClaim /\ OneGrant /\ ServedGrant /\ ClaimsApart

-----------------------------------------------------------------------------
(* Types                                                                    *)

LEMMA JobType ==
  /\ NoJob \in Jobs /\ NoJob.pc = "idle"
  /\ \A m \in Requests : [NoJob EXCEPT !.pc = "ticket", !.req = m] \in Jobs
  <1>1. NoJob \in Jobs /\ NoJob.pc = "idle"
    BY DEF NoJob, Jobs, JobPlaces
  <1>2. \A m \in Requests : [NoJob EXCEPT !.pc = "ticket", !.req = m] \in Jobs
    BY <1>1 DEF Jobs, JobPlaces
  <1>3. QED
    BY <1>1, <1>2

LEMMA RunType ==
  /\ NoRun \in Runs /\ NoRun.pc = "idle" /\ NoRun.claim = None
  /\ \A t \in Tickets : [NoRun EXCEPT !.pc = "claim", !.ticket = t] \in Runs
  <1>1. NoRun \in Runs /\ NoRun.pc = "idle" /\ NoRun.claim = None
    BY ConstantsAssumption DEF NoRun, Runs, RunPlaces
  <1>2. \A t \in Tickets : [NoRun EXCEPT !.pc = "claim", !.ticket = t] \in Runs
    BY <1>1 DEF Runs, RunPlaces
  <1>3. QED
    BY <1>1, <1>2

\* One handler moves: the others, and the types of all, are as they were.
LEMMA BecomeType ==
  ASSUME TypeOK, NEW h \in Handlers, NEW new \in Jobs, Become(h, new)
  PROVE  /\ job' \in [Handlers -> Jobs]
         /\ \A g \in Handlers : job'[g] = IF g = h THEN new ELSE job[g]
  BY DEF TypeOK, Become

\* The same for the installers.
LEMMA ProceedType ==
  ASSUME TypeOK, NEW v \in Hosts, NEW new \in Runs, Proceed(v, new)
  PROVE  /\ run' \in [Hosts -> Runs]
         /\ \A w \in Hosts : run'[w] = IF w = v THEN new ELSE run[w]
  BY DEF TypeOK, Proceed

\* What an installer sends is a request.
LEMMA MineType ==
  ASSUME TypeOK, RunShape, NEW v \in Hosts, run[v].pc \notin {"idle", "claim"}
  PROVE  /\ Mine(v) \in Requests /\ Mine(v).host = v /\ Mine(v).id \in Ids
         /\ Mine(v).id.claim = run[v].claim /\ Mine(v).id.ticket = run[v].ticket
  BY DEF RunShape, Mine, Requests, Ids, Id

\* An answer keeps the answers well typed and ends the handler.
LEMMA AnswerType ==
  ASSUME TypeOK, JobShape, NEW h \in Handlers, NEW ok \in BOOLEAN, Answer(h, ok),
         ~At(h, "idle"), ~At(h, "delete")
  PROVE  /\ answers' \subseteq Answers
         /\ job' \in [Handlers -> Jobs]
         /\ \A g \in Handlers : job'[g] = IF g = h THEN NoJob ELSE job[g]
         /\ answers' = answers \cup {[host |-> job[h].req.host, id |-> job[h].req.id, ok |-> ok]}
  <1>1. job[h].req \in Requests
    BY DEF JobShape
  <1>2. [host |-> job[h].req.host, id |-> job[h].req.id, ok |-> ok] \in Answers
    BY <1>1 DEF Requests, Answers
  <1>3. QED
    BY <1>2, JobType, BecomeType DEF Answer, TypeOK

-----------------------------------------------------------------------------
(* Steps that grant nothing                                                 *)

\* Nothing new is granted, nothing new is held, the tables stay: all is well.
LEMMA QuietStep ==
  ASSUME IInv, TypeOK', JobShape', RunShape',
         UNCHANGED <<present, claimOf, bound, agents, nodeAgent, drawn>>,
         \A x \in Ids : Granted(x)' => Granted(x),
         \A v \in Hosts, c \in Claims : Holds(v, c)' => Holds(v, c)
  PROVE  IInv'
  <1>1. BoundGrant' /\ BoundClaim' /\ OneGrant' /\ ServedGrant'
    BY DEF IInv, BoundGrant, BoundClaim, OneGrant, ServedGrant
  <1>2. ClaimsApart'
    BY DEF IInv, ClaimsApart
  <1>3. QED
    BY <1>1, <1>2 DEF IInv

\* A handler that goes on with its request, or drops it, without granting.
LEMMA JobQuiet ==
  ASSUME IInv, NEW h \in Handlers, NEW new \in Jobs, Become(h, new),
         UNCHANGED <<tables, answers, run, disks, newest, drawn>>,
         requests' \subseteq requests,
         runs' \in Nat, losses' \in Nat, crashes' \in Nat, deletes' \in Nat,
         new.pc # "answer",
         \/ new.pc \in {"idle", "delete"}
         \/ ~At(h, "idle") /\ ~At(h, "delete") /\ new.req = job[h].req
         \/ new.req \in requests
  PROVE  IInv'
  <1>1. /\ job' \in [Handlers -> Jobs]
        /\ \A g \in Handlers : job'[g] = IF g = h THEN new ELSE job[g]
    BY BecomeType DEF IInv
  <1>2. TypeOK'
    BY <1>1 DEF IInv, TypeOK, tables, disks
  <1>3. JobShape'
    BY <1>1 DEF IInv, JobShape, At, TypeOK
  <1>4. RunShape'
    BY DEF IInv, RunShape
  <1>5. \A x \in Ids : Granted(x)' => Granted(x)
    BY <1>1 DEF Granted, tables, disks, At, Mine
  <1>6. \A v \in Hosts, c \in Claims : Holds(v, c)' => Holds(v, c)
    BY <1>1 DEF Holds, disks, At
  <1>7. QED
    BY <1>2, <1>3, <1>4, <1>5, <1>6, QuietStep DEF tables

\* An answer grants only what is granted already, and tells nobody a new claim.
LEMMA AnswerGrants ==
  ASSUME IInv, NEW h \in Handlers, NEW ok \in BOOLEAN, Answer(h, ok),
         ~At(h, "idle"), ~At(h, "delete"),
         ok => Granted(job[h].req.id),
         UNCHANGED <<agents, requests, run, disks>>
  PROVE  /\ JobShape'
         /\ \A x \in Ids : Granted(x)' => Granted(x)
         /\ \A v \in Hosts, c \in Claims : Holds(v, c)' => Holds(v, c)
  <1>1. /\ \A g \in Handlers : job'[g] = IF g = h THEN NoJob ELSE job[g]
        /\ answers' = answers \cup {[host |-> job[h].req.host, id |-> job[h].req.id, ok |-> ok]}
    BY AnswerType DEF IInv
  <1>2. JobShape'
    BY <1>1, JobType DEF IInv, JobShape, At
  <1>3. \A x \in Ids : Granted(x)' => Granted(x)
    <2> SUFFICES ASSUME NEW x \in Ids, Granted(x)', ~Granted(x) PROVE FALSE
      OBVIOUS
    <2>1. PICK m \in answers' : m.ok /\ m.id = x
      BY <1>1, JobType DEF Granted, disks, At, Mine
    <2>2. m \notin answers
      BY <2>1 DEF Granted
    <2>3. m.id = job[h].req.id /\ m.ok = ok
      BY <1>1, <2>2
    <2>4. QED
      BY <2>1, <2>3
  <1>4. \A v \in Hosts, c \in Claims : Holds(v, c)' => Holds(v, c)
    <2> SUFFICES ASSUME NEW v \in Hosts, NEW c \in Claims, Holds(v, c)', ~Holds(v, c)
                 PROVE  FALSE
      OBVIOUS
    <2>1. PICK m \in requests' \cup answers' : m.host = v /\ m.id.claim = c
      BY <1>1, JobType DEF Holds, disks, At
    <2>2. m \notin requests \cup answers
      BY <2>1 DEF Holds
    <2>3. m.host = job[h].req.host /\ m.id = job[h].req.id
      BY <1>1, <2>2
    <2>4. QED
      BY <2>1, <2>3 DEF Holds
  <1>5. QED
    BY <1>2, <1>3, <1>4

\* A handler that answers, and leaves the tables as they are.
LEMMA JobAnswers ==
  ASSUME IInv, NEW h \in Handlers, NEW ok \in BOOLEAN, Answer(h, ok),
         ~At(h, "idle"), ~At(h, "delete"),
         ok => Granted(job[h].req.id),
         UNCHANGED <<tables, requests, run, disks, newest, drawn, bounds>>
  PROVE  IInv'
  <1>1. answers' \subseteq Answers /\ job' \in [Handlers -> Jobs]
    BY AnswerType DEF IInv
  <1>2. TypeOK'
    BY <1>1 DEF IInv, TypeOK, tables, disks, bounds
  <1>3. RunShape'
    BY DEF IInv, RunShape
  <1>4. QED
    BY <1>2, <1>3, AnswerGrants, QuietStep DEF tables

\* An installer that goes on: it sends only its own request, takes up only a
\* granted id, and learns no claim.
LEMMA RunQuiet ==
  ASSUME IInv, NEW v \in Hosts, NEW new \in Runs, Proceed(v, new),
         UNCHANGED <<tables, job, newest, drawn>>,
         requests' \subseteq Requests, answers' \subseteq answers,
         \A m \in requests' : m \in requests \/ (m.host = v /\ m.id.claim = run[v].claim),
         runs' \in Nat, losses' \in Nat, crashes' \in Nat, deletes' \in Nat,
         claimFile' \in [Hosts -> Claims \cup {None}], config' \in [Hosts -> Ids \cup {None}],
         \A w \in Hosts : claimFile'[w] \in {None, claimFile[w]},
         \A w \in Hosts : \/ config'[w] = config[w]
                          \/ /\ Granted(config'[w])
                             /\ w = v /\ config'[w].claim = run[v].claim,
         new.claim \in {None, run[v].claim},
         new.pc # "idle" => new.ticket \in Tickets,
         new.pc \notin {"idle", "claim"} => new.claim \in Claims,
         new.pc \in {"claim", "send"} => new.tries < MaxTries,
         new.pc \in {"write", "clean"} => Granted(Id(new.ticket, new.claim))
  PROVE  IInv'
  <1>1. /\ run' \in [Hosts -> Runs]
        /\ \A w \in Hosts : run'[w] = IF w = v THEN new ELSE run[w]
    BY ProceedType DEF IInv
  <1>2. TypeOK'
    BY <1>1 DEF IInv, TypeOK, tables
  <1>3. JobShape'
    BY DEF IInv, JobShape, At
  <1>4. RunShape'
    BY <1>1 DEF IInv, RunShape
  <1>5. \A x \in Ids : Granted(x)' => Granted(x)
    <2> SUFFICES ASSUME NEW x \in Ids, Granted(x)' PROVE Granted(x)
      OBVIOUS
    <2>1. CASE x \in agents'
      BY <2>1 DEF Granted, tables
    <2>2. CASE \E h \in Handlers : At(h, "answer")' /\ job'[h].req.id = x
      BY <2>2 DEF Granted, At
    <2>3. CASE \E m \in answers' : m.ok /\ m.id = x
      BY <2>3 DEF Granted
    <2>4. CASE \E w \in Hosts : run'[w].pc \in {"write", "clean"} /\ Mine(w)'.id = x
      BY <2>4, <1>1 DEF Granted, Mine
    <2>5. CASE \E w \in Hosts : config'[w] = x
      BY <2>5 DEF Granted
    <2>6. QED
      BY <2>1, <2>2, <2>3, <2>4, <2>5 DEF Granted
  <1>6. \A w \in Hosts, c \in Claims : Holds(w, c)' => Holds(w, c)
    <2> SUFFICES ASSUME NEW w \in Hosts, NEW c \in Claims, Holds(w, c)' PROVE Holds(w, c)
      OBVIOUS
    <2>1. CASE run'[w].claim = c
      BY <2>1, <1>1, ConstantsAssumption DEF Holds
    <2>2. CASE claimFile'[w] = c
      BY <2>2, ConstantsAssumption DEF Holds
    <2>3. CASE config'[w] # None /\ config'[w].claim = c
      BY <2>3 DEF Holds
    <2>4. CASE \E m \in requests' \cup answers' : m.host = w /\ m.id.claim = c
      BY <2>4 DEF Holds
    <2>5. CASE \E h \in Handlers : /\ ~At(h, "idle")' /\ ~At(h, "delete")'
                                  /\ job'[h].req.host = w /\ job'[h].req.id.claim = c
      BY <2>5 DEF Holds, At
    <2>6. QED
      BY <2>1, <2>2, <2>3, <2>4, <2>5 DEF Holds
  <1>7. QED
    BY <1>2, <1>3, <1>4, <1>5, <1>6, QuietStep DEF tables

-----------------------------------------------------------------------------
(* The handlers                                                             *)

\* Requests are taken up, read for and dropped without granting anything.
LEMMA AcceptStep == ASSUME IInv, NEW h \in Handlers, NEW m \in requests, Accept(h, m) PROVE IInv'
  <1> DEFINE new == [NoJob EXCEPT !.pc = "ticket", !.req = m]
  <1>1. m \in Requests
    BY DEF IInv, TypeOK
  <1>2. new \in Jobs /\ new.pc = "ticket" /\ new.req = m
    BY <1>1, JobType DEF NoJob
  <1>3. /\ Become(h, new) /\ requests' \subseteq requests
        /\ UNCHANGED <<tables, answers, run, disks, newest, drawn>>
        /\ runs' \in Nat /\ losses' \in Nat /\ crashes' \in Nat /\ deletes' \in Nat
    BY DEF Accept, bounds, IInv, TypeOK
  <1> HIDE DEF new
  <1>4. QED
    BY <1>2, <1>3, JobQuiet

LEMMA SelectTicketStep == ASSUME IInv, NEW h \in Handlers, SelectTicket(h) PROVE IInv'
  <1> DEFINE t == job[h].req.id.ticket
             new == [job[h] EXCEPT !.pc = "claim", !.seen = bound[t]]
  <1>1. CASE Usable(t)
    <2>1. t \in Tickets /\ job[h] \in Jobs
      BY <1>1 DEF Usable, IInv, TypeOK
    <2>2. new \in Jobs /\ new.pc = "claim" /\ new.req = job[h].req
      BY <2>1 DEF IInv, TypeOK, Jobs, JobPlaces
    <2>3. /\ Become(h, new) /\ requests' \subseteq requests
          /\ UNCHANGED <<tables, answers, run, disks, newest, drawn>>
          /\ runs' \in Nat /\ losses' \in Nat /\ crashes' \in Nat /\ deletes' \in Nat
          /\ ~At(h, "idle") /\ ~At(h, "delete")
      BY <1>1 DEF SelectTicket, bounds, IInv, TypeOK, At
    <2> HIDE DEF new
    <2>4. QED
      BY <2>2, <2>3, JobQuiet
  <1>2. CASE ~Usable(t)
    BY <1>2, JobAnswers DEF SelectTicket, At
  <1>3. QED
    BY <1>1, <1>2

LEMMA SelectOldStep == ASSUME IInv, NEW h \in Handlers, SelectOld(h) PROVE IInv'
  <1> DEFINE new == [job[h] EXCEPT !.pc = "batch", !.old = nodeAgent]
  <1>1. new \in Jobs /\ new.pc = "batch" /\ new.req = job[h].req
    BY DEF IInv, TypeOK, Jobs, JobPlaces
  <1>2. /\ Become(h, new) /\ requests' \subseteq requests
        /\ UNCHANGED <<tables, answers, run, disks, newest, drawn>>
        /\ runs' \in Nat /\ losses' \in Nat /\ crashes' \in Nat /\ deletes' \in Nat
        /\ ~At(h, "idle") /\ ~At(h, "delete")
    BY DEF SelectOld, net, bounds, IInv, TypeOK, At
  <1> HIDE DEF new
  <1>3. QED
    BY <1>1, <1>2, JobQuiet

LEMMA JobFailsStep == ASSUME IInv, NEW h \in Handlers, JobFails(h) PROVE IInv'
  <1>1. /\ Become(h, NoJob) /\ requests' \subseteq requests
        /\ UNCHANGED <<tables, answers, run, disks, newest, drawn>>
        /\ runs' \in Nat /\ losses' \in Nat /\ crashes' \in Nat /\ deletes' \in Nat
    BY DEF JobFails, net, IInv, TypeOK
  <1>2. QED
    BY <1>1, JobType, JobQuiet

LEMMA SelectNodeStep == ASSUME IInv, NEW h \in Handlers, SelectNode(h) PROVE IInv'
  <1> DEFINE new == [NoJob EXCEPT !.pc = "delete", !.old = nodeAgent]
  <1>1. new \in Jobs /\ new.pc = "delete"
    BY JobType DEF IInv, TypeOK, Jobs, JobPlaces, NoJob
  <1>2. /\ Become(h, new) /\ requests' \subseteq requests
        /\ UNCHANGED <<tables, answers, run, disks, newest, drawn>>
        /\ runs' \in Nat /\ losses' \in Nat /\ crashes' \in Nat /\ deletes' \in Nat
    BY DEF SelectNode, net, IInv, TypeOK
  <1> HIDE DEF new
  <1>3. QED
    BY <1>1, <1>2, JobQuiet

\* The retry of a registration gets an id that has its row: it was granted.
LEMMA SelectExistingStep == ASSUME IInv, NEW h \in Handlers, SelectExisting(h) PROVE IInv'
  <1> DEFINE new == [job[h] EXCEPT !.pc = "old"]
  <1>1. CASE job[h].req.id \in agents
    <2>1. Granted(job[h].req.id)
      BY <1>1 DEF Granted
    <2>2. QED
      BY <1>1, <2>1, JobAnswers DEF SelectExisting, At
  <1>2. CASE job[h].req.id \notin agents
    <2>1. new \in Jobs /\ new.pc = "old" /\ new.req = job[h].req
      BY DEF IInv, TypeOK, Jobs, JobPlaces
    <2>2. /\ Become(h, new) /\ requests' \subseteq requests
          /\ UNCHANGED <<tables, answers, run, disks, newest, drawn>>
          /\ runs' \in Nat /\ losses' \in Nat /\ crashes' \in Nat /\ deletes' \in Nat
          /\ ~At(h, "idle") /\ ~At(h, "delete")
      BY <1>2 DEF SelectExisting, Move, bounds, IInv, TypeOK, At
    <2> HIDE DEF new
    <2>3. QED
      BY <2>1, <2>2, JobQuiet
  <1>3. QED
    BY <1>1, <1>2

LEMMA GrantStep == ASSUME IInv, NEW h \in Handlers, Grant(h) PROVE IInv'
  <1>1. Granted(job[h].req.id)
    BY DEF Grant, Granted
  <1>2. QED
    BY <1>1, JobAnswers DEF Grant, At

\* A claim is written where none was: no agent and no grant of the ticket existed.
LEMMA ClaimTicketStep == ASSUME IInv, NEW h \in Handlers, ClaimTicket(h) PROVE IInv'
  <1> DEFINE id == job[h].req.id
             new == [job[h] EXCEPT !.pc = IF job[h].seen = None THEN "old" ELSE "existing"]
             ok == Claimable(id) /\ job[h].seen \in {None, id}
  <1>0. job[h].req \in Requests /\ job[h] \in Jobs /\ ~At(h, "idle") /\ ~At(h, "delete")
    BY DEF ClaimTicket, At, IInv, JobShape, TypeOK
  <1>1. id \in Ids /\ id.ticket \in Tickets /\ id.claim \in Claims
    BY <1>0 DEF Requests, Ids
  <1>2. claimOf' \in [Tickets -> Claims \cup {None}]
    BY <1>1 DEF ClaimTicket, IInv, TypeOK
  <1>3. \A t \in Tickets : claimOf[t] # None => claimOf'[t] = claimOf[t]
    BY <1>1 DEF ClaimTicket, Claimable, IInv, TypeOK
  <1>4. BoundClaim'
    BY <1>3, ConstantsAssumption DEF ClaimTicket, IInv, BoundClaim, TypeOK, Ids
  <1>5. /\ TypeOK' /\ JobShape'
        /\ \A x \in Ids : Granted(x)' => Granted(x)
        /\ \A v \in Hosts, c \in Claims : Holds(v, c)' => Holds(v, c)
    <2>1. CASE ok
      <3>1. new \in Jobs /\ new.pc \in {"old", "existing"} /\ new.req = job[h].req
        BY <1>0 DEF Jobs, JobPlaces
      <3>2. Become(h, new) /\ answers' = answers
        BY <2>1 DEF ClaimTicket, Move
      <3> HIDE DEF new
      <3>3. /\ job' \in [Handlers -> Jobs]
            /\ \A g \in Handlers : job'[g] = IF g = h THEN new ELSE job[g]
        BY <3>1, <3>2, BecomeType DEF IInv
      <3>4. TypeOK'
        BY <1>2, <3>2, <3>3 DEF ClaimTicket, IInv, TypeOK, disks, bounds
      <3>5. JobShape'
        BY <1>0, <3>1, <3>3 DEF IInv, JobShape, At
      <3>6. \A x \in Ids : Granted(x)' => Granted(x)
        BY <3>1, <3>2, <3>3 DEF ClaimTicket, Granted, disks, At, Mine
      <3>7. \A v \in Hosts, c \in Claims : Holds(v, c)' => Holds(v, c)
        BY <1>0, <3>1, <3>2, <3>3 DEF ClaimTicket, Holds, disks, At
      <3>8. QED
        BY <3>4, <3>5, <3>6, <3>7
    <2>2. CASE ~ok
      <3>1. Answer(h, FALSE)
        BY <2>2 DEF ClaimTicket
      <3>2. /\ answers' \subseteq Answers
            /\ job' \in [Handlers -> Jobs]
        BY <1>0, <3>1, AnswerType DEF IInv
      <3>3. TypeOK'
        BY <1>2, <3>2 DEF ClaimTicket, IInv, TypeOK, disks, bounds
      <3>4. UNCHANGED <<agents, requests, run, disks>>
        BY DEF ClaimTicket
      <3>5. QED
        BY <1>0, <3>1, <3>3, <3>4, AnswerGrants
    <2>3. QED
      BY <2>1, <2>2
  <1>6. RunShape'
    BY DEF ClaimTicket, IInv, RunShape
  <1>7. BoundGrant' /\ OneGrant' /\ ServedGrant'
    BY <1>5 DEF ClaimTicket, IInv, BoundGrant, OneGrant, ServedGrant
  <1>8. ClaimsApart'
    BY <1>5 DEF ClaimTicket, IInv, ClaimsApart
  <1>9. QED
    BY <1>4, <1>5, <1>6, <1>7, <1>8 DEF IInv

\* The batch grants one id and binds its ticket to it; whoever else was granted
\* something holds another ticket, and the node is the new agent's.
LEMMA RegisterBatchStep == ASSUME IInv, NEW h \in Handlers, RegisterBatch(h) PROVE IInv'
  <1> DEFINE id == job[h].req.id
             new == [job[h] EXCEPT !.pc = "answer"]
  <1>0. /\ job[h].req \in Requests /\ job[h] \in Jobs
        /\ ~At(h, "idle") /\ ~At(h, "delete") /\ At(h, "batch")
    BY DEF RegisterBatch, At, IInv, JobShape, TypeOK
  <1>1. id \in Ids /\ id.ticket \in Tickets /\ id.claim \in Claims
    BY <1>0 DEF Requests, Ids
  <1>2. CASE ~(present /\ id \in Inserted(id))
    <2>1. Answer(h, FALSE) /\ UNCHANGED <<tables, requests, run, disks, newest, drawn, bounds>>
      BY <1>2 DEF RegisterBatch, tables
    <2>2. QED
      BY <1>0, <2>1, JobAnswers
  <1>3. CASE present /\ id \in Inserted(id)
    <2>1. new \in Jobs /\ new.pc = "answer" /\ new.req = job[h].req
      BY <1>0 DEF Jobs, JobPlaces
    <2>2. Become(h, new) /\ answers' = answers
      BY <1>3 DEF RegisterBatch, Move
    <2> HIDE DEF new
    <2>3. /\ job' \in [Handlers -> Jobs]
          /\ \A g \in Handlers : job'[g] = IF g = h THEN new ELSE job[g]
      BY <2>1, <2>2, BecomeType DEF IInv
    <2>4. /\ bound' = IF Bindable(id) THEN [bound EXCEPT ![id.ticket] = id] ELSE bound
          /\ agents' = Replaced(id, job[h].old) /\ nodeAgent' = id
          /\ UNCHANGED <<present, issued, expired, claimOf, requests, run, disks,
                         newest, drawn, bounds>>
      BY <1>3 DEF RegisterBatch
    <2>5. bound' \in [Tickets -> Ids \cup {None}] /\ agents' \subseteq agents \cup {id}
      BY <1>1, <2>4 DEF IInv, TypeOK, Replaced, Inserted
    <2>6. TypeOK'
      BY <1>1, <2>2, <2>3, <2>4, <2>5 DEF IInv, TypeOK, disks, bounds
    <2>7. JobShape' /\ RunShape'
      BY <1>0, <2>1, <2>3, <2>4 DEF IInv, JobShape, RunShape, At
    <2>8. \A x \in Ids : Granted(x)' => Granted(x) \/ x = id
      BY <2>1, <2>2, <2>3, <2>4, <2>5 DEF Granted, disks, At, Mine
    <2>9. \A v \in Hosts, c \in Claims : Holds(v, c)' => Holds(v, c)
      BY <1>0, <2>1, <2>2, <2>3, <2>4 DEF Holds, disks, At
    <2>10. /\ bound'[id.ticket] = id
           /\ \A t \in Tickets : bound[t] # None => bound'[t] = bound[t]
      <3>1. CASE Bindable(id)
        BY <1>1, <2>4, <3>1 DEF Bindable, IInv, TypeOK
      <3>2. CASE ~Bindable(id)
        <4>1. id \in agents
          BY <1>3, <3>2 DEF Inserted
        <4>2. bound[id.ticket] = id
          BY <1>1, <1>3, <4>1 DEF IInv, BoundGrant, Granted
        <4>3. QED
          BY <2>4, <3>2, <4>2
      <3>3. QED
        BY <3>1, <3>2
    <2>11. BoundGrant'
      <3> SUFFICES ASSUME NEW x \in Ids, Granted(x)' PROVE bound'[x.ticket] = x
        BY DEF BoundGrant
      <3>1. CASE x = id
        BY <3>1, <2>10
      <3>2. CASE x # id
        <4>1. bound[x.ticket] = x /\ x.ticket \in Tickets
          BY <1>3, <2>8, <3>2 DEF IInv, BoundGrant, Ids
        <4>2. x # None
          BY ConstantsAssumption DEF Ids
        <4>3. QED
          BY <2>10, <4>1, <4>2
      <3>3. QED
        BY <3>1, <3>2
    <2>12. BoundClaim'
      <3> SUFFICES ASSUME NEW t \in Tickets, bound'[t] # None PROVE claimOf'[t] = bound'[t].claim
        BY DEF BoundClaim
      <3>1. CASE bound'[t] = bound[t]
        BY <3>1, <2>4 DEF IInv, BoundClaim
      <3>2. CASE bound'[t] # bound[t]
        BY <1>1, <2>4, <3>2 DEF Bindable, IInv, TypeOK
      <3>3. QED
        BY <3>1, <3>2
    <2>13. OneGrant'
      BY <1>3, <2>4, <2>11 DEF BoundGrant, OneGrant
    <2>14. ServedGrant'
      <3> SUFFICES ASSUME NEW x \in Ids, Granted(x)', x \notin agents'
                   PROVE  nodeAgent' # None /\ nodeAgent'.ticket # x.ticket
        BY DEF ServedGrant
      <3>1. id \in agents'
        BY <1>3, <2>4 DEF Replaced, Inserted
      <3>2. x # id
        BY <3>1
      <3>3. x.ticket # id.ticket
        BY <1>1, <1>3, <2>4, <2>10, <2>11, <3>2 DEF BoundGrant
      <3>4. id # None
        BY <1>1, ConstantsAssumption DEF Ids
      <3>5. QED
        BY <2>4, <3>3, <3>4
    <2>15. ClaimsApart'
      BY <2>4, <2>9 DEF IInv, ClaimsApart
    <2>16. QED
      BY <2>6, <2>7, <2>11, <2>12, <2>13, <2>14, <2>15 DEF IInv
  <1>4. QED
    BY <1>2, <1>3

\* A deletion ends what BoundGrant and ServedGrant promise, and grants nothing.
LEMMA DeleteBatchStep == ASSUME IInv, NEW h \in Handlers, DeleteBatch(h) PROVE IInv'
  <1>1. /\ job' \in [Handlers -> Jobs]
        /\ \A g \in Handlers : job'[g] = IF g = h THEN NoJob ELSE job[g]
    BY JobType, BecomeType DEF DeleteBatch, IInv
  <1>2. TypeOK'
    BY <1>1 DEF DeleteBatch, IInv, TypeOK, net, disks, bounds
  <1>3. JobShape' /\ RunShape'
    BY <1>1, JobType DEF DeleteBatch, IInv, JobShape, RunShape, At
  <1>4. \A x \in Ids : Granted(x)' => Granted(x)
    BY <1>1, JobType DEF DeleteBatch, Granted, net, disks, At, Mine
  <1>5. \A v \in Hosts, c \in Claims : Holds(v, c)' => Holds(v, c)
    BY <1>1, JobType DEF DeleteBatch, Holds, net, disks, At
  <1>6. BoundGrant' /\ BoundClaim' /\ ServedGrant'
    BY DEF DeleteBatch, BoundGrant, BoundClaim, ServedGrant
  <1>7. OneGrant'
    BY <1>4 DEF IInv, OneGrant
  <1>8. ClaimsApart'
    BY <1>5 DEF DeleteBatch, IInv, ClaimsApart
  <1>9. QED
    BY <1>2, <1>3, <1>6, <1>7, <1>8 DEF IInv

-----------------------------------------------------------------------------
(* The installers                                                           *)

LEMMA StartInstallStep ==
  ASSUME IInv, NEW v \in Hosts, NEW t \in Tickets, StartInstall(v, t) PROVE IInv'
  <1> DEFINE new == [NoRun EXCEPT !.pc = "claim", !.ticket = t]
  <1>0. new.pc = "claim" /\ new.ticket = t /\ new.claim = None /\ new.tries = 0
    BY DEF NoRun
  <1>1. new \in Runs /\ new.tries < MaxTries
    <2>1. new \in Runs
      BY RunType
    <2>2. QED
      BY <1>0, <2>1, ConstantsAssumption
  <1>2. /\ Proceed(v, new) /\ UNCHANGED <<tables, job, net, disks, newest, drawn>>
        /\ runs' \in Nat /\ losses' \in Nat /\ crashes' \in Nat /\ deletes' \in Nat
    BY DEF StartInstall, IInv, TypeOK
  <1> HIDE DEF new
  <1>3. QED
    BY <1>0, <1>1, <1>2, RunQuiet DEF net, disks, IInv, TypeOK

\* A claim is new to everybody, or was on this machine before.
LEMMA LoadClaimStep == ASSUME IInv, NEW v \in Hosts, LoadClaim(v) PROVE IInv'
  <1>1. PICK c \in Claims :
          /\ IF claimFile[v] = None THEN c \notin drawn ELSE c = claimFile[v]
          /\ Proceed(v, [run[v] EXCEPT !.pc = "send", !.claim = c])
          /\ claimFile' = [claimFile EXCEPT ![v] = c]
          /\ drawn' = drawn \cup {c}
    BY DEF LoadClaim
  <1> DEFINE new == [run[v] EXCEPT !.pc = "send", !.claim = c]
  <1>2. /\ new \in Runs /\ new.pc = "send" /\ new.claim = c /\ new.tries = run[v].tries
        /\ new.ticket = run[v].ticket
    BY DEF IInv, TypeOK, Runs, RunPlaces
  <1>3. Proceed(v, new)
    BY <1>1
  <1> HIDE DEF new
  <1>4. /\ run' \in [Hosts -> Runs]
        /\ \A w \in Hosts : run'[w] = IF w = v THEN new ELSE run[w]
    BY <1>2, <1>3, ProceedType DEF IInv
  <1>5. UNCHANGED <<tables, job, net, config, newest, bounds>>
    BY DEF LoadClaim
  <1>6. TypeOK'
    BY <1>1, <1>4, <1>5 DEF IInv, TypeOK, tables, net, bounds
  <1>7. JobShape'
    BY <1>5 DEF IInv, JobShape, At
  <1>8. RunShape'
    BY <1>2, <1>4 DEF LoadClaim, IInv, RunShape
  <1>9. \A x \in Ids : Granted(x)' => Granted(x)
    BY <1>2, <1>4, <1>5 DEF Granted, tables, net, At, Mine
  <1>10. \A w \in Hosts, d \in Claims : Holds(w, d)' => Holds(w, d) \/ (w = v /\ d = c)
    BY <1>1, <1>2, <1>4, <1>5 DEF Holds, net, At, IInv, TypeOK
  <1>11. claimFile[v] = None \/ Holds(v, c)
    BY <1>1 DEF Holds
  <1>12. ClaimsApart'
    <2>1. \A w \in Hosts : Holds(w, c) => w = v
      BY <1>1, <1>11 DEF IInv, ClaimsApart
    <2>2. ASSUME NEW d \in Claims, NEW w1 \in Hosts, NEW w2 \in Hosts,
                 Holds(w1, d)', Holds(w2, d)'
          PROVE  w1 = w2
      <3>1. CASE d = c
        BY <2>1, <2>2, <3>1, <1>10
      <3>2. CASE d # c
        BY <2>2, <3>2, <1>10 DEF IInv, ClaimsApart
      <3>3. QED
        BY <3>1, <3>2
    <2>3. ASSUME NEW d \in Claims, d \notin drawn', NEW w \in Hosts, Holds(w, d)'
          PROVE  FALSE
      BY <2>3, <1>1, <1>10 DEF IInv, ClaimsApart
    <2>4. QED
      BY <2>2, <2>3 DEF ClaimsApart
  <1>13. BoundGrant' /\ BoundClaim' /\ OneGrant' /\ ServedGrant'
    BY <1>5, <1>9 DEF tables, IInv, BoundGrant, BoundClaim, OneGrant, ServedGrant
  <1>14. QED
    BY <1>6, <1>7, <1>8, <1>12, <1>13 DEF IInv

LEMMA SendRegisterStep == ASSUME IInv, NEW v \in Hosts, SendRegister(v) PROVE IInv'
  <1> DEFINE new == [run[v] EXCEPT !.pc = "waiting", !.tries = @ + 1]
  <1>0. run[v] \in Runs /\ run[v].pc = "send"
    BY DEF SendRegister, IInv, TypeOK
  <1>1. run[v].tries + 1 \in 0..MaxTries
    BY <1>0, ConstantsAssumption DEF IInv, RunShape, Runs
  <1>2. /\ new \in Runs /\ new.pc = "waiting" /\ new.ticket = run[v].ticket
        /\ new.claim = run[v].claim
    BY <1>0, <1>1 DEF Runs, RunPlaces
  <1>3. /\ Proceed(v, new)
        /\ UNCHANGED <<tables, job, answers, disks, newest, drawn, bounds>>
        /\ requests' = requests \cup {Mine(v)}
    BY DEF SendRegister
  <1>4. Mine(v) \in Requests /\ Mine(v).host = v /\ Mine(v).id.claim = run[v].claim
    BY <1>0, MineType DEF IInv
  <1>5. new.ticket \in Tickets /\ new.claim \in Claims
    BY <1>0, <1>2 DEF IInv, RunShape
  <1> HIDE DEF new
  <1>6. QED
    BY <1>2, <1>3, <1>4, <1>5, RunQuiet DEF disks, bounds, IInv, TypeOK

\* A failed attempt goes back to sending, or ends the run.
LEMMA RetryStep ==
  ASSUME IInv, NEW v \in Hosts, Retry(v), run[v].pc = "waiting",
         UNCHANGED <<tables, job, requests, disks, newest, drawn, runs, crashes, deletes>>,
         answers' \subseteq answers, losses' \in Nat
  PROVE  IInv'
  <1> DEFINE again == [run[v] EXCEPT !.pc = "send"]
             new == IF run[v].tries = MaxTries THEN NoRun ELSE again
  <1>0. run[v] \in Runs /\ run[v].ticket \in Tickets /\ run[v].claim \in Claims
    BY DEF IInv, TypeOK, RunShape
  <1>1. /\ again \in Runs /\ again.pc = "send" /\ again.ticket = run[v].ticket
        /\ again.claim = run[v].claim /\ again.tries = run[v].tries
    BY <1>0 DEF Runs, RunPlaces
  <1>2. run[v].tries # MaxTries => run[v].tries < MaxTries
    BY <1>0, ConstantsAssumption DEF Runs
  <1> HIDE DEF again
  <1>3. /\ new \in Runs /\ new.claim \in {None, run[v].claim}
        /\ new.pc # "idle" => new.pc = "send" /\ new.ticket \in Tickets
                              /\ new.claim \in Claims /\ new.tries < MaxTries
        /\ new.pc \in {"idle", "send"}
    BY <1>0, <1>1, <1>2, RunType
  <1>4. Proceed(v, new)
    BY DEF Retry, again
  <1> HIDE DEF new
  <1>5. QED
    BY <1>3, <1>4, RunQuiet DEF disks, IInv, TypeOK

\* An installer takes up the id that an answer carries.
LEMMA ReceiveGrantStep == ASSUME IInv, NEW v \in Hosts, ReceiveGrant(v) PROVE IInv'
  <1> DEFINE new == [run[v] EXCEPT !.pc = "write"]
             m == [host |-> v, id |-> Mine(v).id, ok |-> TRUE]
  <1>0. run[v] \in Runs /\ run[v].pc = "waiting"
    BY DEF ReceiveGrant, IInv, TypeOK
  <1>1. /\ new \in Runs /\ new.pc = "write" /\ new.ticket = run[v].ticket
        /\ new.claim = run[v].claim
    BY <1>0 DEF Runs, RunPlaces
  <1>2. new.ticket \in Tickets /\ new.claim \in Claims
    BY <1>0, <1>1 DEF IInv, RunShape
  <1>3. /\ Proceed(v, new) /\ m \in answers /\ answers' \subseteq answers
        /\ UNCHANGED <<tables, job, requests, disks, newest, drawn, bounds>>
    BY DEF ReceiveGrant
  <1>4. m.ok /\ m.id = Id(new.ticket, new.claim)
    BY <1>1 DEF Mine
  <1> HIDE DEF new, m
  <1>5. Granted(Id(new.ticket, new.claim))
    BY <1>3, <1>4 DEF Granted
  <1>6. QED
    BY <1>1, <1>2, <1>3, <1>5, RunQuiet DEF disks, bounds, IInv, TypeOK

LEMMA WriteConfigStep == ASSUME IInv, NEW v \in Hosts, WriteConfig(v) PROVE IInv'
  <1> DEFINE new == [run[v] EXCEPT !.pc = "clean"]
  <1>0. run[v] \in Runs /\ run[v].pc = "write"
    BY DEF WriteConfig, IInv, TypeOK
  <1>1. /\ new \in Runs /\ new.pc = "clean" /\ new.ticket = run[v].ticket
        /\ new.claim = run[v].claim
    BY <1>0 DEF Runs, RunPlaces
  <1>2. new.ticket \in Tickets /\ new.claim \in Claims
    BY <1>0, <1>1 DEF IInv, RunShape
  <1>3. /\ Proceed(v, new) /\ config' = [config EXCEPT ![v] = Mine(v).id]
        /\ UNCHANGED <<tables, job, net, claimFile, newest, drawn, bounds>>
    BY DEF WriteConfig
  <1>4. Mine(v).id \in Ids /\ Mine(v).id.claim = run[v].claim
    BY <1>0, MineType DEF IInv
  <1>5. Granted(Mine(v).id) /\ Mine(v).id = Id(new.ticket, new.claim)
    BY <1>0, <1>1 DEF Granted, Mine
  <1>6. /\ config' \in [Hosts -> Ids \cup {None}]
        /\ \A w \in Hosts : config'[w] = IF w = v THEN Mine(v).id ELSE config[w]
    BY <1>3, <1>4 DEF IInv, TypeOK
  <1> HIDE DEF new
  <1>7. QED
    BY <1>1, <1>2, <1>3, <1>4, <1>5, <1>6, RunQuiet DEF net, bounds, IInv, TypeOK

LEMMA RemoveClaimStep == ASSUME IInv, NEW v \in Hosts, RemoveClaim(v) PROVE IInv'
  <1>1. /\ Proceed(v, NoRun) /\ claimFile' = [claimFile EXCEPT ![v] = None]
        /\ UNCHANGED <<tables, job, net, config, newest, drawn, bounds>>
    BY DEF RemoveClaim
  <1>2. claimFile' \in [Hosts -> Claims \cup {None}]
        /\ \A w \in Hosts : claimFile'[w] \in {None, claimFile[w]}
    BY <1>1 DEF IInv, TypeOK
  <1>3. QED
    BY <1>1, <1>2, RunType, RunQuiet DEF net, bounds, IInv, TypeOK

LEMMA InstallerDiesStep == ASSUME IInv, NEW v \in Hosts, InstallerDies(v) PROVE IInv'
  <1>1. /\ Proceed(v, NoRun)
        /\ UNCHANGED <<tables, job, net, disks, newest, drawn, runs, losses, deletes>>
        /\ crashes' \in Nat
    BY DEF InstallerDies, IInv, TypeOK
  <1>2. QED
    BY <1>1, RunType, RunQuiet DEF net, disks, IInv, TypeOK

\* Every step of an installer.
LEMMA InstallerSteps == ASSUME IInv, NEW v \in Hosts, InstallerStep(v) PROVE IInv'
  <1>1. CASE ReceiveRefusal(v) \/ GiveUp(v)
    <2>1. Retry(v) /\ run[v].pc = "waiting" /\ answers' \subseteq answers /\ losses' \in Nat
      BY <1>1 DEF ReceiveRefusal, GiveUp, net, bounds, IInv, TypeOK
    <2>2. UNCHANGED <<tables, job, requests, disks, newest, drawn, runs, crashes, deletes>>
      BY <1>1 DEF ReceiveRefusal, GiveUp, net, bounds
    <2>3. QED
      BY <2>1, <2>2, RetryStep
  <1>2. QED
    BY <1>1, LoadClaimStep, SendRegisterStep, ReceiveGrantStep, WriteConfigStep,
       RemoveClaimStep DEF InstallerStep

-----------------------------------------------------------------------------
(* The specification                                                        *)

\* New and expired tickets, and messages that get lost.
LEMMA OutsideStep ==
  ASSUME IInv,
         \/ \E t \in Tickets : CreateTicket(t) \/ Expire(t)
         \/ \E m \in requests : LoseRequest(m)
         \/ \E m \in answers : LoseAnswer(m)
         \/ UNCHANGED vars
  PROVE  IInv'
  <1>1. /\ UNCHANGED <<present, claimOf, bound, agents, nodeAgent, drawn, job, run, disks>>
        /\ requests' \subseteq requests /\ answers' \subseteq answers
    BY DEF CreateTicket, Expire, LoseRequest, LoseAnswer, vars, tables, net
  <1>2. /\ issued' \subseteq Tickets /\ expired' \subseteq Tickets /\ newest' \in Tickets
        /\ runs' \in Nat /\ losses' \in Nat /\ crashes' \in Nat /\ deletes' \in Nat
    BY ConstantsAssumption
       DEF CreateTicket, Expire, LoseRequest, LoseAnswer, vars, tables, bounds, IInv, TypeOK
  <1>3. TypeOK'
    BY <1>1, <1>2 DEF IInv, TypeOK, disks
  <1>4. JobShape' /\ RunShape'
    BY <1>1 DEF IInv, JobShape, RunShape, At
  <1>5. \A x \in Ids : Granted(x)' => Granted(x)
    BY <1>1 DEF Granted, disks, At, Mine
  <1>6. \A v \in Hosts, c \in Claims : Holds(v, c)' => Holds(v, c)
    BY <1>1 DEF Holds, disks, At
  <1>7. QED
    BY <1>1, <1>3, <1>4, <1>5, <1>6, QuietStep

\* Every step keeps the invariant.
LEMMA IInvStep == IInv /\ [Next]_vars => IInv'
  <1> SUFFICES ASSUME IInv, [Next]_vars PROVE IInv'
    OBVIOUS
  <1>1. ASSUME NEW h \in Handlers, JobStep(h) \/ SelectNode(h) \/ JobFails(h) PROVE IInv'
    BY <1>1, SelectTicketStep, ClaimTicketStep, SelectExistingStep, SelectOldStep,
       RegisterBatchStep, GrantStep, DeleteBatchStep, SelectNodeStep, JobFailsStep
       DEF JobStep
  <1>2. ASSUME NEW h \in Handlers, NEW m \in requests, Accept(h, m) PROVE IInv'
    BY <1>2, AcceptStep
  <1>3. ASSUME NEW v \in Hosts, InstallerStep(v) \/ InstallerDies(v) PROVE IInv'
    BY <1>3, InstallerSteps, InstallerDiesStep
  <1>4. ASSUME NEW v \in Hosts, NEW t \in Tickets, StartInstall(v, t) PROVE IInv'
    BY <1>4, StartInstallStep
  <1>5. QED
    BY <1>1, <1>2, <1>3, <1>4, OutsideStep DEF Next

LEMMA IInvCorrect == Spec => []IInv
  <1>1. Init => IInv
    <2> SUFFICES ASSUME Init PROVE IInv
      OBVIOUS
    <2>1. TypeOK
      BY JobType, RunType DEF Init, TypeOK
    <2>2. JobShape /\ RunShape
      BY JobType, RunType DEF Init, JobShape, RunShape, At
    <2>3. \A x \in Ids : ~Granted(x)
      BY JobType, RunType, ConstantsAssumption DEF Init, Granted, At, Ids
    <2>4. \A v \in Hosts, c \in Claims : ~Holds(v, c)
      BY JobType, RunType, ConstantsAssumption DEF Init, Holds, At
    <2>5. QED
      BY <2>1, <2>2, <2>3, <2>4
         DEF Init, IInv, BoundGrant, BoundClaim, OneGrant, ServedGrant, ClaimsApart
  <1>2. QED
    BY <1>1, IInvStep, PTL DEF Spec

\* Every variable has its type in every reachable state.
THEOREM TypeCorrect == Spec => []TypeOK
  <1>1. IInv => TypeOK
    BY DEF IInv
  <1>2. QED
    BY <1>1, IInvCorrect, PTL

\* An agent row is always the one its ticket is claimed and bound for
\* (OneAgentPerTicket): duplicates and competitors never make a second one.
THEOREM TicketsMakeOneAgent == Spec => []OneAgentPerTicket
  <1>1. IInv => OneAgentPerTicket
    <2> SUFFICES ASSUME IInv, present, NEW id \in agents
                 PROVE  claimOf[id.ticket] = id.claim /\ bound[id.ticket] = id
      BY DEF OneAgentPerTicket
    <2>1. id \in Ids /\ id.ticket \in Tickets /\ id # None
      BY ConstantsAssumption DEF IInv, TypeOK, Ids
    <2>2. bound[id.ticket] = id
      BY <2>1 DEF IInv, BoundGrant, Granted
    <2>3. QED
      BY <2>1, <2>2 DEF IInv, BoundClaim
  <1>2. QED
    BY <1>1, IInvCorrect, PTL

\* Two machines never hold credentials of one ticket (OneHostPerTicket).
THEOREM TicketsServeOneHost == Spec => []OneHostPerTicket
  <1>1. IInv => OneHostPerTicket
    <2> SUFFICES ASSUME IInv, NEW v \in Hosts, NEW w \in Hosts, v # w,
                        config[v] # None, config[w] # None, config[v].ticket = config[w].ticket
                 PROVE  FALSE
      BY DEF OneHostPerTicket
    <2>1. config[v] \in Ids /\ config[w] \in Ids
      BY DEF IInv, TypeOK
    <2>2. config[v] = config[w]
      BY <2>1 DEF IInv, OneGrant, Granted
    <2>3. config[v].claim \in Claims
      BY <2>1 DEF Ids
    <2>4. QED
      BY <2>2, <2>3 DEF IInv, ClaimsApart, Holds
  <1>2. QED
    BY <1>1, IInvCorrect, PTL

\* Credentials on a machine stay good until the node is deleted or given to an
\* agent of another ticket (HeldIsServed).
THEOREM CredentialsLast == Spec => []HeldIsServed
  <1>1. IInv => HeldIsServed
    BY DEF IInv, TypeOK, ServedGrant, Granted, HeldIsServed
  <1>2. QED
    BY <1>1, IInvCorrect, PTL

-----------------------------------------------------------------------------
(* One handler at a time                                                    *)

\* What a handler read as the old agent is the node's agent still.
OldIsCurrent ==
  \A h \in Handlers : At(h, "batch") \/ At(h, "delete") => job[h].old = nodeAgent

\* If register and delete requests never overlap, no agent row is left without
\* the node (NoOrphans).  With two handlers this is false: each deletes the agent
\* it read, and neither has read the other's.
THEOREM SequentialLeavesNoOrphans ==
  ASSUME NEW k, Handlers = {k}
  PROVE  Spec => []NoOrphans
  <1> DEFINE Inv == NoOrphans /\ OldIsCurrent
  <1>1. Init => Inv
    BY JobType DEF Init, NoOrphans, OldIsCurrent, At
  <1>2. IInv /\ Inv /\ [Next]_vars => Inv'
    <2> SUFFICES ASSUME IInv, Inv, [Next]_vars PROVE Inv'
      OBVIOUS
    <2>1. ASSUME UNCHANGED <<agents, nodeAgent, job>> PROVE Inv'
      BY <2>1 DEF NoOrphans, OldIsCurrent, At
    <2>t. job[k] \in Jobs /\ job \in [Handlers -> Jobs]
      BY DEF IInv, TypeOK
    <2>2. ASSUME NEW new, Become(k, new), UNCHANGED <<agents, nodeAgent>>,
                 new.pc \notin {"batch", "delete"} \/ new.old = nodeAgent
          PROVE  Inv'
      BY <2>2, <2>t DEF Become, NoOrphans, OldIsCurrent, At
    <2>3. CASE SelectTicket(k)
      <3>1. PICK new : /\ Become(k, new) /\ new.pc \in {"idle", "claim"}
                       /\ UNCHANGED <<agents, nodeAgent>>
        BY <2>3, <2>t, JobType DEF SelectTicket, Answer, tables, Jobs
      <3>2. QED
        BY <3>1, <2>2
    <2>4. CASE ClaimTicket(k)
      <3>1. PICK new : /\ Become(k, new) /\ new.pc \in {"idle", "old", "existing"}
                       /\ UNCHANGED <<agents, nodeAgent>>
        BY <2>4, <2>t, JobType DEF ClaimTicket, Answer, Move, Jobs
      <3>2. QED
        BY <3>1, <2>2
    <2>5. CASE SelectExisting(k) \/ Grant(k) \/ JobFails(k)
      <3>1. PICK new : /\ Become(k, new) /\ new.pc \in {"idle", "old"}
                       /\ UNCHANGED <<agents, nodeAgent>>
        BY <2>5, <2>t, JobType DEF SelectExisting, Grant, JobFails, Answer, Move, tables, Jobs
      <3>2. QED
        BY <3>1, <2>2
    <2>6. CASE SelectOld(k) \/ SelectNode(k)
      <3>1. PICK new : /\ Become(k, new) /\ new.old = nodeAgent
                       /\ UNCHANGED <<agents, nodeAgent>>
        BY <2>6, <2>t DEF SelectOld, SelectNode, tables, Jobs, NoJob
      <3>2. QED
        BY <3>1, <2>2
    <2>7. CASE RegisterBatch(k)
      <3> DEFINE id == job[k].req.id
      <3>1. CASE present /\ id \in Inserted(id)
        <4>1. agents' = Replaced(id, nodeAgent) /\ nodeAgent' = id
          BY <2>7, <3>1 DEF RegisterBatch, OldIsCurrent
        <4>2. NoOrphans'
          BY <4>1 DEF Replaced, Inserted, NoOrphans
        <4>3. job'[k].pc = "answer"
          BY <2>7, <3>1, <2>t DEF RegisterBatch, Move, Become, Jobs
        <4>4. QED
          BY <4>2, <4>3 DEF OldIsCurrent, At
      <3>2. CASE ~(present /\ id \in Inserted(id))
        BY <2>7, <3>2, <2>2, JobType DEF RegisterBatch, Answer
      <3>3. QED
        BY <3>1, <3>2
    <2>8. CASE DeleteBatch(k)
      <3>1. job'[k].pc = "idle"
        BY <2>8, <2>t, JobType DEF DeleteBatch, Become
      <3>2. agents' = {}
        BY <2>8 DEF DeleteBatch, OldIsCurrent, NoOrphans
      <3>3. QED
        BY <3>1, <3>2 DEF OldIsCurrent, NoOrphans, At
    <2>9. CASE \E m \in requests : Accept(k, m)
      <3>1. PICK new : Become(k, new) /\ new.pc = "ticket" /\ UNCHANGED <<agents, nodeAgent>>
        BY <2>9 DEF Accept, tables, NoJob
      <3>2. QED
        BY <3>1, <2>2
    <2>10. ASSUME NEW v \in Hosts,
                  InstallerStep(v) \/ InstallerDies(v) \/ \E t \in Tickets : StartInstall(v, t)
           PROVE  Inv'
      <3>1. UNCHANGED <<agents, nodeAgent, job>>
        BY <2>10 DEF InstallerStep, LoadClaim, SendRegister, ReceiveGrant, ReceiveRefusal, GiveUp,
                     WriteConfig, RemoveClaim, InstallerDies, StartInstall, tables
      <3>2. QED
        BY <3>1, <2>1
    <2>11. ASSUME \/ \E t \in Tickets : CreateTicket(t) \/ Expire(t)
                  \/ \E m \in requests : LoseRequest(m)
                  \/ \E m \in answers : LoseAnswer(m)
                  \/ UNCHANGED vars
           PROVE  Inv'
      BY <2>1, <2>11 DEF CreateTicket, Expire, LoseRequest, LoseAnswer, vars, tables
    <2>12. QED
      BY <2>3, <2>4, <2>5, <2>6, <2>7, <2>8, <2>9, <2>10, <2>11 DEF Next, JobStep
  <1>3. QED
    BY <1>1, <1>2, IInvCorrect, PTL DEF Spec
=============================================================================

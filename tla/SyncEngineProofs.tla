-------------------------- MODULE SyncEngineProofs --------------------------
(***************************************************************************)
(* Proofs about SyncEngine, for any files, contents, page size and any     *)
(* number of edits, revisions, lost messages and process stops.            *)
(***************************************************************************)
EXTENDS SyncEngine, WellFoundedInduction, TLAPS

-----------------------------------------------------------------------------
(* Sequences, minima and the records of the model *)

\* A sequence with one element replaced.
LEMMA Replaced ==
    ASSUME NEW S, NEW q \in Seq(S), NEW i \in 1..Len(q), NEW e \in S
    PROVE  /\ [q EXCEPT ![i] = e] \in Seq(S)
           /\ Len([q EXCEPT ![i] = e]) = Len(q)
  OBVIOUS

\* A sequence with every element replaced.
LEMMA Mapped ==
    ASSUME NEW S, NEW q \in Seq(S), NEW g \in [DOMAIN q -> S]
    PROVE  /\ g \in Seq(S)
           /\ Len(g) = Len(q)
  OBVIOUS

\* First is the least element: what ORDER BY ... LIMIT 1 selects.
LEMMA FirstIsLeast ==
    ASSUME NEW S, S \subseteq Nat, S # {}
    PROVE  First(S) \in S /\ \A j \in S : First(S) <= j
<1>1. \E n \in S : \A j \in S : <<j, n>> \notin OpToRel(<, Nat)
  BY NatLessThanWellFounded, WFMin
<1>2. \A j, n \in Nat : <<j, n>> \notin OpToRel(<, Nat) => n <= j
  BY DEF OpToRel
<1> QED
  BY <1>1, <1>2 DEF First

\* Latest is the greatest element of a bounded set of sequence numbers.
LEMMA LatestIsGreatest ==
    ASSUME NEW n \in Nat, NEW S, S \subseteq 1..n
    PROVE  IF S = {} THEN Latest(S) = 0
           ELSE Latest(S) \in S /\ \A t \in S : t <= Latest(S)
<1>1. CASE S = {}
  BY <1>1 DEF Latest
<1>2. CASE S # {}
  <2> DEFINE T == {n - s : s \in S}
  <2>1. T \subseteq Nat /\ T # {}
    <3>1. \A s \in S : n - s \in Nat
      OBVIOUS
    <3> QED
      BY <1>2, <3>1
  <2>2. First(T) \in T /\ \A j \in T : First(T) <= j
    BY <2>1, FirstIsLeast
  <2>3. PICK s \in S : First(T) = n - s
    BY <2>2
  <2>4. \A t \in S : First(T) <= n - t
    BY <2>2
  <2>5. \A t \in S : t <= s
    <3> HIDE DEF T
    <3> QED
      BY <2>3, <2>4
  <2> QED
    BY <1>2, <2>5 DEF Latest
<1> QED
  BY <1>1, <1>2

\* Latest is a number: 0 stands for no revision.
LEMMA LatestInNat ==
    ASSUME NEW n \in Nat, NEW S, S \subseteq 1..n
    PROVE  Latest(S) \in Nat
<1> DEFINE latest == Latest(S)
<1>1. latest = 0 \/ latest \in S
  BY LatestIsGreatest
<1> HIDE DEF latest
<1>2. latest = 0 \/ latest \in 1..n
  BY <1>1
<1>3. latest \in Nat
  BY <1>2
<1> QED
  BY <1>3 DEF latest

\* A greatest element is the Latest.
LEMMA GreatestIsLatest ==
    ASSUME NEW n \in Nat, NEW S, S \subseteq 1..n, NEW m \in S, \A t \in S : t <= m
    PROVE  Latest(S) = m
<1> DEFINE latest == Latest(S)
<1>1. latest \in S /\ \A t \in S : t <= latest
  BY LatestIsGreatest
<1> HIDE DEF latest
<1>2. m \in 1..n /\ latest \in 1..n
  BY <1>1
<1>3. m <= latest /\ latest <= m
  BY <1>1
<1>4. latest = m
  BY <1>2, <1>3
<1> QED
  BY <1>4 DEF latest

-----------------------------------------------------------------------------
(* The inductive invariant *)

\* The inbox is a prefix of the log that the cursor cuts in finished and
\* pending entries, and nothing points behind the log.
Positions ==
    /\ cursor <= Len(inbox) /\ Len(inbox) <= Len(log) /\ window <= Len(log)
    /\ engine.at = "item" => engine.page <= Len(log)
    /\ \A s \in 1..Len(inbox) : (s <= cursor) <=> (inbox[s].state # "pending")

AckedOps(f) == {i \in 1..Len(queue[f]) : queue[f][i].stage = "acked"}
\* The revisions of a file that sync_finish or sync_ack has recorded.
Dealt(f) == {s \in RevisionsOf(f) : s <= cursor \/ (Own(s) /\ log[s].by \in AckedOps(f))}

\* An own commit, on the wire or in the log, is an operation of its file with
\* its base frozen, and the log has it once.
OwnOps ==
    /\ \A f \in Files, i \in Nat : <<f, i>> \in wire =>
         i \in 1..Len(queue[f]) /\ queue[f][i].frozen
    /\ \A s \in 1..Len(log) : Own(s) =>
         /\ log[s].by \in 1..Len(queue[log[s].file])
         /\ queue[log[s].file][log[s].by].frozen
    /\ \A s, t \in 1..Len(log) :
         Own(s) /\ log[s].by = log[t].by /\ log[s].file = log[t].file => s = t

\* An acknowledged operation is in the log.
AckedInLog == \A f \in Files : \A i \in AckedOps(f) : Committed(f, i) # {}

HeadsLatest == \A f \in Files : heads[f].revision = Latest(Dealt(f))

SyncInv == TypeOK /\ Positions /\ OwnOps /\ AckedInLog /\ HeadsLatest

\* The revision of an inbox entry.
LEMMA EntryRevision ==
    ASSUME TypeOK, Positions, NEW s \in 1..Len(inbox)
    PROVE  /\ s \in Nat /\ s \in 1..Len(log) /\ inbox[s] \in Entries
           /\ log[s] \in Revisions /\ log[s].file \in Files
           /\ log[s].content \in Hashes
<1>1. s \in 1..Len(log) /\ inbox[s] \in Entries
  BY DEF TypeOK, Positions
<1>2. log[s] \in Revisions
  BY <1>1 DEF TypeOK
<1> QED
  BY <1>1, <1>2 DEF Revisions

-----------------------------------------------------------------------------
(* Record updates *)

\* The records of the model after the updates its actions make.
LEMMA EngineUpdates ==
    ASSUME engine \in Engines, NEW at \in Points
    PROVE  /\ [engine EXCEPT !.at = at] \in Engines
           /\ \A phase \in {"pull", "push", "last"} :
                [engine EXCEPT !.at = at, !.phase = phase] \in Engines
           /\ \A n \in Nat : [engine EXCEPT !.at = at, !.page = n] \in Engines
           /\ \A f \in Files, n \in Nat :
                [engine EXCEPT !.at = at, !.file = f, !.op = n] \in Engines
  BY DEF Engines

\* Every piece of work under the lock is well typed.
LEMMA HoldUpdates ==
    /\ NoHold \in Holds
    /\ \A step \in {"none", "apply", "finish", "decide", "settle"}, s \in Nat,
          outcome \in {"applied", "conflict"} : Holding(step, s, outcome) \in Holds
  BY DEF Holds, Holding, NoHold

\* Creating, moving and freezing an operation keep its type.
LEMMA JobUpdates ==
    /\ \A c \in Hashes : NewJob(c) \in Jobs
    /\ \A job \in Jobs, stage \in Stages : [job EXCEPT !.stage = stage] \in Jobs
    /\ heads \in [Files -> Heads] =>
         \A job \in Jobs, f \in Files : Frozen(job, f) \in Jobs
  BY DEF Jobs, NewJob, Frozen, Stages, Heads

\* A new stage for any operation of a queue keeps its type.
LEMMA StageUpdates ==
    ASSUME NEW q \in Seq(Jobs), NEW stage \in Stages
    PROVE  \A i \in DOMAIN q : q[i] \in Jobs /\ [q[i] EXCEPT !.stage = stage] \in Jobs
<1> SUFFICES ASSUME NEW i \in DOMAIN q
             PROVE  q[i] \in Jobs /\ [q[i] EXCEPT !.stage = stage] \in Jobs
  OBVIOUS
<1>1. q[i] \in Jobs
  OBVIOUS
<1> QED
  BY <1>1, JobUpdates

\* The updates of an inbox entry, its conflict and its decision keep its type.
LEMMA EntryUpdates ==
    ASSUME NEW e \in Entries
    PROVE  /\ \A state \in {"pending", "applied", "conflict"} :
                [e EXCEPT !.state = state] \in Entries
           /\ \A conflict \in {"none", "open", "superseded", "resolved"} :
                [e EXCEPT !.conflict = conflict] \in Entries
           /\ [e EXCEPT !.done = TRUE] \in Entries
           /\ \A d \in Decisions : [e EXCEPT !.decision = d] \in Entries
           /\ [e EXCEPT !.decision.copied = TRUE] \in Entries
           /\ [e EXCEPT !.decision.committed = TRUE] \in Entries
           /\ \A n \in Nat : [e EXCEPT !.decision.committed = TRUE,
                                       !.decision.op = n] \in Entries
  BY DEF Entries, Decisions

\* Spending a bound that is left keeps the bounds natural numbers.
LEMMA BudgetUpdates ==
    ASSUME budget \in Budgets
    PROVE  /\ budget.edits > 0 => [budget EXCEPT !.edits = @ - 1] \in Budgets
           /\ budget.externals > 0 => [budget EXCEPT !.externals = @ - 1] \in Budgets
           /\ budget.others > 0 => [budget EXCEPT !.others = @ - 1] \in Budgets
           /\ budget.losses > 0 => [budget EXCEPT !.losses = @ - 1] \in Budgets
           /\ budget.crashes > 0 => [budget EXCEPT !.crashes = @ - 1] \in Budgets
  BY DEF Budgets

\* sync_stage inserts a well-typed entry.
LEMMA ReceivedType == Received \in Entries
<1>1. (CHOOSE f \in Files : TRUE) \in Files
  BY ConstantsAssumption
<1> QED
  BY <1>1 DEF Received, NoDecision, Entries, Decisions, Hashes

\* A write of a known content keeps disk, catalogue and queues in their types.
LEMMA WriteType ==
    ASSUME TypeOK, NEW f \in Files, NEW c \in Hashes,
           LocalWrite(f, c) \/ RemoteWrite(f, c)
    PROVE  /\ disk' \in [Files -> Hashes] /\ observed' \in [Files -> Hashes]
           /\ queue' \in [Files -> Seq(Jobs)]
<1>1. NewJob(c) \in Jobs
  BY DEF NewJob, Jobs, Stages
<1>2. Append(queue[f], NewJob(c)) \in Seq(Jobs)
  BY <1>1 DEF TypeOK
<1> QED
  BY <1>2 DEF TypeOK, LocalWrite, RemoteWrite

-----------------------------------------------------------------------------
(* Types *)

\* The server, the person and other programs keep every variable in its type.
LEMMA OutsideType ==
    ASSUME TypeOK, Positions, Server \/ Person \/ Environment
    PROVE  TypeOK'
<1>1. ASSUME NEW f \in Files, NEW i \in 1..Len(queue[f]), Serve(f, i)
      PROVE  TypeOK'
  <2>1. queue[f][i] \in Jobs /\ i \in Nat
    BY DEF TypeOK
  <2>2. Revision(f, queue[f][i].base, queue[f][i].content, i) \in Revisions
    BY <2>1 DEF Revision, Revisions, Jobs
  <2>3. log' \in Seq(Revisions)
    BY <1>1, <2>2 DEF Serve, TypeOK
  <2> QED
    BY <1>1, <2>3 DEF Serve, TypeOK, durable
<1>2. ASSUME NEW f \in Files, NEW c \in Hashes, OtherCommit(f, c)
      PROVE  TypeOK'
  <2>1. ServerHead(f) \in Nat
    <3>1. Len(log) \in Nat /\ RevisionsOf(f) \subseteq 1..Len(log)
      BY DEF RevisionsOf, TypeOK
    <3> QED
      BY <3>1, LatestInNat DEF ServerHead
  <2>2. Revision(f, ServerHead(f), c, Other) \in Revisions
    BY <2>1 DEF Revision, Revisions, Other
  <2>3. log' \in Seq(Revisions)
    BY <1>2, <2>2 DEF OtherCommit, TypeOK
  <2> QED
    BY <1>2, <2>3, BudgetUpdates DEF OtherCommit, TypeOK, durable
<1>3. ASSUME NEW f \in Files, NEW c \in Hashes, Edit(f, c)
      PROVE  TypeOK'
  BY <1>3, WriteType, BudgetUpdates DEF Edit, TypeOK, network
<1>4. ASSUME NEW f \in Files, NEW c \in Hashes, ExternalEdit(f, c)
      PROVE  TypeOK'
  BY <1>4, BudgetUpdates DEF ExternalEdit, TypeOK, network
<1>5. ASSUME NEW s \in 1..Len(inbox), NEW choice \in Choices, NEW g \in Files,
             Decide(s, choice, g)
      PROVE  TypeOK'
  <2> DEFINE f == log[s].file
             d == [choice |-> choice, expected |-> disk[f],
                   live |-> observed[f] # Absent, copy |-> g,
                   copied |-> FALSE, committed |-> FALSE, op |-> 0,
                   seen |-> Len(queue[f])]
  <2>1. f \in Files
    BY EntryRevision
  <2>2. d \in Decisions
    BY <2>1, ConstantsAssumption DEF Decisions, TypeOK
  <2>3. inbox' = [inbox EXCEPT ![s].decision = d]
    BY <1>5 DEF Decide
  <2>4. [inbox[s] EXCEPT !.decision = d] \in Entries
    <3> HIDE DEF d
    <3> QED
      BY <2>2, EntryUpdates, EntryRevision
  <2>5. inbox' \in Seq(Entries)
    <3> HIDE DEF d
    <3> QED
      BY <2>3, <2>4, Replaced DEF TypeOK
  <2>6. hold' \in Holds
    BY SMTT(30), <1>5, HoldUpdates DEF Decide
  <2> QED
    BY <1>5, <2>5, <2>6 DEF Decide, TypeOK, network
<1>6. CASE GiveUp
  BY ZenonT(30), <1>6, EngineUpdates, BudgetUpdates DEF GiveUp, Goto, TypeOK, durable, Points
<1>7. CASE Crash
  BY <1>7, EngineUpdates, HoldUpdates, BudgetUpdates
     DEF Crash, Goto, TypeOK, durable, Points
<1> QED
  BY <1>1, <1>2, <1>3, <1>4, <1>5, <1>6, <1>7 DEF Server, Person, Environment

\* The pull side of the cycle keeps every variable in its type.
LEMMA PullType ==
    ASSUME TypeOK, Positions, Pull
    PROVE  TypeOK'
<1>1. CASE StartCycle
  <2>1. \A f \in Files : Append(queue[f], NewJob(disk[f])) \in Seq(Jobs)
    BY JobUpdates DEF TypeOK
  <2>2. queue' \in [Files -> Seq(Jobs)]
    BY SMTT(30), <1>1, <2>1 DEF StartCycle, TypeOK
  <2>3. engine' \in Engines
    BY <1>1, EngineUpdates DEF StartCycle, GotoPhase, TypeOK, Points
  <2> QED
    BY <1>1, <2>2, <2>3 DEF StartCycle, TypeOK, network
<1>2. CASE ResumeNext
  <2>1. First(Unsettled) \in Nat
    BY SMTT(30), <1>2, FirstIsLeast DEF ResumeNext, Unsettled
  <2> QED
    BY <1>2, <2>1, HoldUpdates DEF ResumeNext, TypeOK, network, durable
<1>3. CASE ResumeDone
  BY ZenonT(30), <1>3, EngineUpdates DEF ResumeDone, Goto, TypeOK, Points, network, durable
<1>4. CASE Drain
  <2>1. Pending # {} => First(Pending) \in Nat
    BY SMTT(30), FirstIsLeast DEF Pending
  <2> QED
    BY <1>4, <2>1, HoldUpdates, EngineUpdates
       DEF Drain, Goto, TypeOK, Points, network, durable
<1>5. PullsDone => engine' \in Engines
  BY EngineUpdates DEF PullsDone, GotoPhase, TypeOK, Points
<1>6. CASE Fetch
  <2>1. Boundary \in Nat /\ PageEnd \in Nat
    BY SMTT(30), ConstantsAssumption DEF Boundary, PageEnd, TypeOK
  <2>2. window' \in Nat /\ engine' \in Engines
    BY ZenonT(30), <1>5, <1>6, <2>1, EngineUpdates DEF Fetch, TypeOK, Points
  <2> QED
    BY <1>6, <2>2 DEF Fetch, TypeOK, network
<1>7. CASE Stage
  <2>1. inbox' \in Seq(Entries)
    BY <1>7, ReceivedType DEF Stage, TypeOK
  <2>2. hold' \in Holds
    BY <1>7, HoldUpdates DEF Stage, TypeOK
  <2> QED
    BY <1>7, <2>1, <2>2 DEF Stage, TypeOK, network
<1>8. CASE EndPage
  <2>1. engine' \in Engines
    BY <1>5, <1>8, EngineUpdates DEF EndPage, GotoPhase, TypeOK, Points
  <2> QED
    BY <1>8, <2>1 DEF EndPage, TypeOK, network, durable
<1> QED
  BY <1>1, <1>2, <1>3, <1>4, <1>6, <1>7, <1>8 DEF Pull

\* A head moves to a later revision of the file.
LEMMA NewerType ==
    ASSUME TypeOK, NEW f \in Files, NEW s \in Nat, NEW c \in Hashes
    PROVE  Newer(f, s, c) \in [Files -> Heads]
  BY DEF Newer, TypeOK, Heads

\* An acknowledgement keeps heads and queues in their types.
LEMMA AckedType ==
    ASSUME TypeOK, NEW f \in Files, NEW i \in 1..Len(queue[f]), NEW s \in Nat,
           Acked(f, i, s)
    PROVE  heads' \in [Files -> Heads] /\ queue' \in [Files -> Seq(Jobs)]
<1>1. queue[f] \in Seq(Jobs) /\ queue[f][i] \in Jobs
  BY DEF TypeOK
<1>2. queue[f][i].content \in Hashes
  BY <1>1 DEF Jobs
<1>3. [queue[f][i] EXCEPT !.stage = "acked"] \in Jobs
  BY <1>1, JobUpdates DEF Stages
<1>4. [queue[f] EXCEPT ![i] = [queue[f][i] EXCEPT !.stage = "acked"]] \in Seq(Jobs)
  BY <1>1, <1>3, Replaced
<1> QED
  BY <1>2, <1>4, NewerType DEF Acked, TypeOK

\* Applying and finishing a revision keeps every variable in its type.
LEMMA ApplyType ==
    ASSUME TypeOK, Positions, OwnOps, Apply
    PROVE  TypeOK'
<1> SUFFICES ASSUME NEW s \in 1..Len(inbox),
                    ApplyOwn(s) \/ ApplyKnown(s) \/ ApplyConflict(s)
                    \/ ApplyFile(s) \/ Finish(s)
             PROVE  TypeOK'
  BY DEF Apply
<1> DEFINE f == log[s].file
<1>1. /\ s \in Nat /\ s \in 1..Len(log) /\ inbox[s] \in Entries
      /\ f \in Files /\ log[s].content \in Hashes
  BY EntryRevision
<1>2. inbox \in Seq(Entries) /\ queue[f] \in Seq(Jobs)
  BY <1>1 DEF TypeOK
<1>3. \A outcome \in {"applied", "conflict"} :
        ToFinish(s, outcome) => hold' \in Holds
  BY <1>1, HoldUpdates DEF ToFinish
<1>4. CASE ApplyOwn(s)
  <2>1. log[s].by \in 1..Len(queue[f])
    BY <1>1, <1>4 DEF ApplyOwn, OwnRevision, OwnOps, Own
  <2>2. heads' \in [Files -> Heads] /\ queue' \in [Files -> Seq(Jobs)]
    BY <1>1, <1>4, <2>1, AckedType DEF ApplyOwn
  <2> QED
    BY <1>3, <1>4, <2>2 DEF ApplyOwn, TypeOK, network
<1>5. CASE ApplyKnown(s)
  BY <1>3, <1>5 DEF ApplyKnown, TypeOK, network, durable
<1>6. CASE ApplyConflict(s)
  <2>1. inbox' \in [DOMAIN inbox -> Entries]
    <3>1. \A t \in DOMAIN inbox : inbox[t] \in Entries
      BY <1>2
    <3> QED
      BY <1>6, <3>1, EntryUpdates DEF ApplyConflict
  <2>2. inbox' \in Seq(Entries)
    BY <1>2, <2>1, Mapped
  <2>3. \A i \in DOMAIN queue[f] : queue[f][i] \in Jobs
    BY <1>2
  <2>4. queue'[f] \in [DOMAIN queue[f] -> Jobs]
    BY <1>1, <1>6, <2>3, JobUpdates DEF ApplyConflict, TypeOK, Stages
  <2>5. queue'[f] \in Seq(Jobs)
    BY <1>2, <2>4, Mapped
  <2>6. queue' \in [Files -> Seq(Jobs)]
    BY <1>1, <1>6, <2>5 DEF ApplyConflict, TypeOK
  <2> QED
    BY SMTT(30), <1>3, <1>6, <2>2, <2>6 DEF ApplyConflict, TypeOK, network
<1>7. CASE ApplyFile(s)
  <2>1. [inbox EXCEPT ![s].done = TRUE] \in Seq(Entries)
    BY <1>1, <1>2, EntryUpdates, Replaced
  <2>2. /\ disk' \in [Files -> Hashes] /\ observed' \in [Files -> Hashes]
        /\ queue' \in [Files -> Seq(Jobs)] /\ inbox' \in Seq(Entries)
    <3>1. CASE UNCHANGED <<disk, observed, queue, inbox>>
      BY <3>1 DEF TypeOK
    <3>2. CASE RemoteWrite(f, log[s].content)
               /\ inbox' = [inbox EXCEPT ![s].done = TRUE]
      BY <1>1, <2>1, <3>2, WriteType
    <3> QED
      BY <1>7, <3>1, <3>2 DEF ApplyFile
  <2> QED
    BY <1>3, <1>7, <2>2 DEF ApplyFile, TypeOK, network
<1>8. CASE Finish(s)
  <2>1. hold.outcome \in {"applied", "conflict"}
    BY DEF TypeOK, Holds
  <2>2. inbox' \in Seq(Entries)
    BY <1>1, <1>2, <1>8, <2>1, EntryUpdates, Replaced DEF Finish
  <2>3. heads' \in [Files -> Heads]
    BY <1>1, <1>8, NewerType DEF Finish
  <2> QED
    BY <1>1, <1>8, <2>2, <2>3, HoldUpdates DEF Finish, TypeOK, network
<1> QED
  BY <1>4, <1>5, <1>6, <1>7, <1>8

\* push_one keeps every variable in its type.
LEMMA PushType ==
    ASSUME TypeOK, Positions, Push
    PROVE  TypeOK'
<1>1. CASE Capture
  <2>1. Captured \in [Files -> Seq(Jobs)]
    <3> SUFFICES ASSUME NEW f \in Files PROVE Captured[f] \in Seq(Jobs)
      BY DEF Captured
    <3>1. queue[f] \in Seq(Jobs)
      BY DEF TypeOK
    <3>2. \A i \in DOMAIN queue[f] :
            queue[f][i] \in Jobs /\ [queue[f][i] EXCEPT !.stage = "queued"] \in Jobs
      BY <3>1, StageUpdates DEF Stages
    <3>3. Captured[f] \in [DOMAIN queue[f] -> Jobs]
      BY SMTT(30), <3>2 DEF Captured
    <3> QED
      BY <3>1, <3>3, Mapped
  <2> QED
    BY <1>1, <2>1 DEF Capture, TypeOK, network
<1>2. CASE NothingToPush
  BY ZenonT(30), <1>2, EngineUpdates DEF NothingToPush, GotoPhase, TypeOK, Points, network, durable
<1>3. CASE PushRejected
  BY ZenonT(30), <1>3, EngineUpdates DEF PushRejected, Goto, TypeOK, Points, durable
<1>4. ASSUME NEW f \in Files, Pick(f)
      PROVE  TypeOK'
  <2>1. First(Sendable(f)) \in Nat
    <3>1. Sendable(f) \subseteq Nat /\ Sendable(f) # {}
      BY <1>4 DEF Pick, Sendable
    <3> QED
      BY <3>1, FirstIsLeast
  <2> QED
    BY <1>4, <2>1, EngineUpdates DEF Pick, TypeOK, Points, network, durable
<1>5. ASSUME NEW f \in Files, NEW i \in 1..Len(queue[f]), Post(f, i)
      PROVE  TypeOK'
  <2>1. queue[f] \in Seq(Jobs) /\ queue[f][i] \in Jobs
    BY DEF TypeOK
  <2>2. [queue[f] EXCEPT ![i] = Frozen(queue[f][i], f)] \in Seq(Jobs)
    BY <2>1, JobUpdates, Replaced DEF TypeOK
  <2>3. queue' \in [Files -> Seq(Jobs)]
    BY <1>5, <2>2 DEF Post, TypeOK
  <2>4. wire' \in SUBSET OpIds
    BY <1>5 DEF Post, TypeOK, OpIds
  <2> QED
    BY <1>5, <2>3, <2>4, EngineUpdates DEF Post, Goto, TypeOK, Points
<1>6. ASSUME NEW f \in Files, NEW i \in 1..Len(queue[f]), PushAcked(f, i)
      PROVE  TypeOK'
  <2>1. PICK s \in Committed(f, i) : Acked(f, i, s)
    BY <1>6 DEF PushAcked
  <2>2. s \in Nat
    BY DEF Committed, RevisionsOf
  <2>3. heads' \in [Files -> Heads] /\ queue' \in [Files -> Seq(Jobs)]
    BY <2>1, <2>2, AckedType
  <2>4. engine' \in Engines
    BY <1>6, EngineUpdates DEF PushAcked, GotoPhase, TypeOK, Points
  <2> QED
    BY SMTT(30), <1>6, <2>3, <2>4 DEF PushAcked, TypeOK
<1> QED
  BY <1>1, <1>2, <1>3, <1>4, <1>5, <1>6 DEF Push

\* Carrying out a decision keeps every variable in its type.
LEMMA DecisionType ==
    ASSUME TypeOK, Positions, Decision
    PROVE  TypeOK'
<1> SUFFICES ASSUME NEW s \in 1..Len(inbox),
                    DecideCopy(s) \/ DecideLocal(s) \/ DecideRemote(s)
                    \/ DecideResumed(s) \/ DecideFails(s) \/ Settle(s)
             PROVE  TypeOK'
  BY DEF Decision
<1> DEFINE f == log[s].file
           d == inbox[s].decision
<1>1. /\ s \in Nat /\ inbox[s] \in Entries /\ inbox \in Seq(Entries)
      /\ f \in Files /\ log[s].content \in Hashes /\ queue[f] \in Seq(Jobs)
  BY EntryRevision DEF TypeOK
<1>2. d.expected \in Hashes /\ d.copy \in Files /\ d.op \in Nat
  BY <1>1 DEF Entries, Decisions
<1>3. \A step \in {"settle", "decide"} : Holding(step, s, "conflict") \in Holds
  BY <1>1, HoldUpdates
<1>4. CASE DecideCopy(s)
  <2>1. inbox' \in Seq(Entries)
    BY <1>1, <1>4, EntryUpdates, Replaced DEF DecideCopy
  <2>2. /\ disk' \in [Files -> Hashes] /\ observed' \in [Files -> Hashes]
        /\ queue' \in [Files -> Seq(Jobs)]
    BY <1>2, <1>4, WriteType DEF DecideCopy
  <2> QED
    BY <1>4, <2>1, <2>2 DEF DecideCopy, TypeOK, network
<1>5. CASE DecideLocal(s)
  <2>1. inbox' \in Seq(Entries)
    <3>1. Len(queue[f]) + 1 \in Nat
      BY <1>1
    <3>2. [inbox[s] EXCEPT !.decision.committed = TRUE,
                           !.decision.op = Len(queue[f]) + 1] \in Entries
      BY <1>1, <3>1, EntryUpdates
    <3>3. inbox' = [inbox EXCEPT ![s] =
                      [inbox[s] EXCEPT !.decision.committed = TRUE,
                                       !.decision.op = Len(queue[f]) + 1]]
      BY <1>1, <1>5 DEF DecideLocal
    <3> QED
      BY <1>1, <3>2, <3>3, Replaced
  <2>2. /\ disk' \in [Files -> Hashes] /\ observed' \in [Files -> Hashes]
        /\ queue' \in [Files -> Seq(Jobs)]
    BY <1>1, <1>2, <1>5, WriteType DEF DecideLocal
  <2> QED
    BY <1>3, <1>5, <2>1, <2>2 DEF DecideLocal, TypeOK, network
<1>6. CASE DecideRemote(s)
  <2>1. [inbox EXCEPT ![s].decision.committed = TRUE] \in Seq(Entries)
    BY <1>1, EntryUpdates, Replaced
  <2>2. /\ disk' \in [Files -> Hashes] /\ observed' \in [Files -> Hashes]
        /\ queue' \in [Files -> Seq(Jobs)] /\ inbox' \in Seq(Entries)
    <3>1. CASE UNCHANGED <<disk, observed, queue, inbox>>
      BY <3>1 DEF TypeOK
    <3>2. CASE RemoteWrite(f, log[s].content)
               /\ inbox' = [inbox EXCEPT ![s].decision.committed = TRUE]
      BY <1>1, <2>1, <3>2, WriteType
    <3> QED
      BY <1>6, <3>1, <3>2 DEF DecideRemote
  <2> QED
    BY <1>3, <1>6, <2>2 DEF DecideRemote, TypeOK, network
<1>7. CASE DecideResumed(s)
  BY SMTT(30), <1>3, <1>7 DEF DecideResumed, TypeOK, network, durable
<1>8. CASE DecideFails(s)
  BY Zenon, <1>8, HoldUpdates, EngineUpdates
     DEF DecideFails, Goto, TypeOK, Points, network, durable
<1>9. CASE Settle(s)
  <2>1. Archived(f, d.op) \in [DOMAIN queue[f] -> Jobs]
    <3>1. \A i \in DOMAIN queue[f] :
            queue[f][i] \in Jobs /\ [queue[f][i] EXCEPT !.stage = "archived"] \in Jobs
      BY <1>1, StageUpdates DEF Stages
    <3> QED
      BY <3>1 DEF Archived
  <2>2. Archived(f, d.op) \in Seq(Jobs)
    BY <1>1, <2>1, Mapped
  <2>3. queue' \in [Files -> Seq(Jobs)]
    BY <1>1, <1>9, <2>2 DEF Settle, TypeOK
  <2>4. inbox' \in Seq(Entries)
    BY <1>1, <1>9, EntryUpdates, Replaced DEF Settle
  <2> QED
    BY <1>9, <2>3, <2>4, HoldUpdates DEF Settle, TypeOK, network
<1> QED
  BY <1>4, <1>5, <1>6, <1>7, <1>8, <1>9

-----------------------------------------------------------------------------
(* Positions *)

\* A step that keeps the cursor, the window and the inbox states, and does not
\* begin a page, keeps the positions; the log may grow.
LEMMA PositionsKept ==
    ASSUME TypeOK, TypeOK', Positions,
           cursor' = cursor, window' = window, Len(log) <= Len(log'),
           engine'.at = "item" => engine'.page = engine.page /\ engine.at = "item",
           Len(inbox') = Len(inbox),
           \A s \in 1..Len(inbox) : inbox'[s].state = inbox[s].state
    PROVE  Positions'
<1>1. /\ cursor \in Nat /\ window \in Nat /\ engine.page \in Nat
      /\ Len(inbox) \in Nat /\ Len(log) \in Nat /\ Len(log') \in Nat
  BY DEF TypeOK, Engines
<1> QED
  BY <1>1 DEF Positions

\* Moving the engine to a point that is not a page keeps the page's bound.
LEMMA NoPage ==
    ASSUME engine \in Engines, NEW at \in Points \ {"item"}
    PROVE  /\ [engine EXCEPT !.at = at].at # "item"
           /\ \A phase \in {"pull", "push", "last"} :
                [engine EXCEPT !.at = at, !.phase = phase].at # "item"
           /\ \A f \in Files, n \in Nat :
                [engine EXCEPT !.at = at, !.file = f, !.op = n].at # "item"
  BY DEF Engines, Points

\* No update of an entry but the one of sync_finish changes its state.
LEMMA EntryStates ==
    ASSUME inbox \in Seq(Entries), NEW s \in 1..Len(inbox),
           \/ inbox' = inbox
           \/ inbox' = [inbox EXCEPT ![s].done = TRUE]
           \/ inbox' = [inbox EXCEPT ![s].conflict = "resolved"]
           \/ inbox' = [inbox EXCEPT ![s].decision.copied = TRUE]
           \/ inbox' = [inbox EXCEPT ![s].decision.committed = TRUE]
           \/ \E n : inbox' = [inbox EXCEPT ![s].decision.committed = TRUE,
                                           ![s].decision.op = n]
           \/ \E d : inbox' = [inbox EXCEPT ![s].decision = d]
    PROVE  /\ Len(inbox') = Len(inbox)
           /\ \A t \in 1..Len(inbox) : inbox'[t].state = inbox[t].state
<1>1. inbox[s] \in Entries
  OBVIOUS
<1> QED
  BY SMTT(30), <1>1 DEF Entries

\* Raising a conflict leaves the inbox states to sync_finish.
LEMMA ConflictStates ==
    ASSUME TypeOK, NEW s \in 1..Len(inbox), ApplyConflict(s)
    PROVE  /\ Len(inbox') = Len(inbox)
           /\ \A t \in 1..Len(inbox) : inbox'[t].state = inbox[t].state
<1>1. inbox \in Seq(Entries)
  BY DEF TypeOK
<1>2. \A t \in 1..Len(inbox) : inbox[t] \in Entries
  BY <1>1
<1>3. DOMAIN inbox' = DOMAIN inbox /\ Len(inbox') = Len(inbox)
  BY <1>1 DEF ApplyConflict
<1>4. \A t \in 1..Len(inbox) : \/ inbox'[t] = inbox[t]
                                \/ inbox'[t] = [inbox[t] EXCEPT !.conflict = "open"]
                                \/ inbox'[t] = [inbox[t] EXCEPT !.conflict = "superseded"]
  <2>1. DOMAIN inbox = 1..Len(inbox)
    BY <1>1
  <2> QED
    BY <2>1, Zenon DEF ApplyConflict
<1> QED
  BY <1>2, <1>3, <1>4 DEF Entries

\* The server, the person and the environment move no position.
LEMMA OutsidePositions ==
    ASSUME TypeOK, Positions, TypeOK', Server \/ Person \/ Environment
    PROVE  Positions'
<1>1. ASSUME NEW f \in Files, NEW i \in 1..Len(queue[f]), Serve(f, i)
      PROVE  Positions'
  <2>1. Len(log) <= Len(log')
    BY <1>1 DEF Serve, TypeOK
  <2> QED
    BY <1>1, <2>1, PositionsKept DEF Serve, durable
<1>2. ASSUME NEW f \in Files, NEW c \in Hashes, OtherCommit(f, c)
      PROVE  Positions'
  <2>1. Len(log) <= Len(log')
    BY <1>2 DEF OtherCommit, TypeOK
  <2> QED
    BY <1>2, <2>1, PositionsKept DEF OtherCommit, durable
<1>3. ASSUME NEW f \in Files, NEW c \in Hashes, Edit(f, c) \/ ExternalEdit(f, c)
      PROVE  Positions'
  BY <1>3, PositionsKept DEF Edit, ExternalEdit, network, TypeOK
<1>4. ASSUME NEW s \in 1..Len(inbox), NEW choice \in Choices, NEW g \in Files,
             Decide(s, choice, g)
      PROVE  Positions'
  <2>1. Len(inbox') = Len(inbox)
        /\ \A t \in 1..Len(inbox) : inbox'[t].state = inbox[t].state
    BY <1>4, EntryStates DEF Decide, TypeOK
  <2> QED
    BY <1>4, <2>1, PositionsKept DEF Decide, network, TypeOK
<1>5. CASE GiveUp
  BY <1>5, PositionsKept, NoPage DEF GiveUp, Goto, durable, TypeOK, Points
<1>6. CASE Crash
  BY <1>6, PositionsKept, NoPage DEF Crash, Goto, durable, TypeOK, Points
<1> QED
  BY <1>1, <1>2, <1>3, <1>4, <1>5, <1>6 DEF Server, Person, Environment

\* The steps of a pull keep cursor, inbox, window and page in order.
LEMMA PullPositions ==
    ASSUME TypeOK, Positions, TypeOK', Pull
    PROVE  Positions'
<1>1. CASE StartCycle
  BY <1>1, PositionsKept, NoPage DEF StartCycle, GotoPhase, network, TypeOK, Points
<1>2. CASE ResumeNext \/ ResumeDone \/ Drain
  <2>1. engine' = engine \/ engine'.at \in {"drain", "fetch"}
    BY <1>2 DEF ResumeNext, ResumeDone, Drain, Goto, TypeOK, Engines
  <2>2. UNCHANGED <<log, cursor, window, inbox>>
    BY <1>2 DEF ResumeNext, ResumeDone, Drain, network, durable
  <2> QED
    BY <2>1, <2>2, PositionsKept DEF TypeOK
<1>3. PullsDone => engine'.at # "item"
  BY DEF PullsDone, GotoPhase, TypeOK, Engines
<1>4. CASE Fetch
  <2>1. CASE ~(cursor < Boundary)
    BY <1>3, <1>4, <2>1, PositionsKept DEF Fetch, network, TypeOK
  <2>2. CASE cursor < Boundary
    <3>1. Boundary \in Nat /\ Boundary <= Len(log)
      BY DEF Boundary, Positions, TypeOK
    <3>2. PageEnd \in Nat /\ PageEnd <= Len(log)
      BY <3>1, ConstantsAssumption DEF PageEnd, TypeOK
    <3>3. engine' = [engine EXCEPT !.at = "item", !.page = PageEnd]
          /\ window' = Boundary
      BY <1>4, <2>2 DEF Fetch
    <3>4. engine'.page <= Len(log)
      BY <3>2, <3>3 DEF TypeOK, Engines
    <3> QED
      BY <1>4, <3>1, <3>3, <3>4 DEF Fetch, Positions, network
  <2> QED
    BY <2>1, <2>2
<1>5. CASE Stage
  <2>1. engine.page <= Len(log) /\ cursor < engine.page /\ engine.page \in Nat
    BY <1>5 DEF Stage, Positions, TypeOK, Engines
  <2>2. CASE Len(inbox) # cursor
    BY <1>5, <2>2, PositionsKept DEF Stage, network, TypeOK
  <2>3. CASE Len(inbox) = cursor
    <3>1. inbox' = Append(inbox, Received) /\ inbox \in Seq(Entries)
          /\ Received \in Entries
      BY <1>5, <2>3, ReceivedType DEF Stage, TypeOK
    <3>2. /\ Len(inbox') = cursor + 1
          /\ \A t \in 1..Len(inbox) : inbox'[t] = inbox[t]
          /\ inbox'[cursor + 1].state = "pending"
      BY <2>3, <3>1 DEF Received
    <3>3. cursor \in Nat /\ Len(log) \in Nat
      BY DEF TypeOK
    <3>4. Len(inbox') <= Len(log)
      BY <2>1, <3>2, <3>3
    <3>5. \A t \in 1..Len(inbox') : (t <= cursor) <=> (inbox'[t].state # "pending")
      BY <2>3, <3>2, <3>3 DEF Positions
    <3> QED
      BY <1>5, <2>1, <3>2, <3>3, <3>4, <3>5 DEF Stage, Positions, network
  <2> QED
    BY <2>2, <2>3
<1>6. CASE EndPage
  <2>1. engine'.at # "item"
    BY <1>3, <1>6 DEF EndPage, GotoPhase, TypeOK, Engines
  <2> QED
    BY <1>6, <2>1, PositionsKept DEF EndPage, network, durable, TypeOK
<1> QED
  BY <1>1, <1>2, <1>4, <1>5, <1>6 DEF Pull

\* The steps of push_one move no position of the pull.
LEMMA PushPositions ==
    ASSUME TypeOK, Positions, TypeOK', Push
    PROVE  Positions'
<1>1. CASE Capture
  BY <1>1, PositionsKept DEF Capture, network, TypeOK
<1>2. CASE NothingToPush \/ PushRejected
  <2>1. engine'.at \in {"resume", "idle"}
    BY <1>2 DEF NothingToPush, PushRejected, Goto, GotoPhase, TypeOK, Engines
  <2> QED
    BY <1>2, <2>1, PositionsKept
       DEF NothingToPush, PushRejected, network, durable, TypeOK
<1>3. ASSUME NEW f \in Files, Pick(f)
      PROVE  Positions'
  <2>1. engine'.at = "picked"
    BY <1>3 DEF Pick, TypeOK, Engines
  <2> QED
    BY <1>3, <2>1, PositionsKept DEF Pick, network, durable, TypeOK
<1>4. ASSUME NEW f \in Files, NEW i \in 1..Len(queue[f]),
             Post(f, i) \/ PushAcked(f, i)
      PROVE  Positions'
  <2>1. engine'.at \in {"sent", "resume"}
    BY <1>4 DEF Post, PushAcked, Goto, GotoPhase, TypeOK, Engines
  <2> QED
    BY <1>4, <2>1, PositionsKept DEF Post, PushAcked, TypeOK
<1> QED
  BY <1>1, <1>2, <1>3, <1>4 DEF Push

\* sync_apply_pending and sync_finish: cursor and inbox states move together.
LEMMA ApplyPositions ==
    ASSUME TypeOK, Positions, TypeOK', Apply
    PROVE  Positions'
<1> SUFFICES ASSUME NEW s \in 1..Len(inbox),
                    ApplyOwn(s) \/ ApplyKnown(s) \/ ApplyConflict(s)
                    \/ ApplyFile(s) \/ Finish(s)
             PROVE  Positions'
  BY DEF Apply
<1>1. CASE ApplyOwn(s)
  BY <1>1, PositionsKept DEF ApplyOwn, network, TypeOK
<1>2. CASE ApplyKnown(s)
  BY SMTT(30), <1>2, PositionsKept DEF ApplyKnown, network, durable, TypeOK
<1>3. CASE ApplyConflict(s)
  <2>1. /\ Len(inbox') = Len(inbox)
        /\ \A t \in 1..Len(inbox) : inbox'[t].state = inbox[t].state
    BY <1>3, ConflictStates DEF ApplyConflict
  <2> QED
    BY SMTT(30), <1>3, <2>1, PositionsKept DEF ApplyConflict, network, TypeOK
<1>4. CASE ApplyFile(s)
  <2>1. /\ Len(inbox') = Len(inbox)
        /\ \A t \in 1..Len(inbox) : inbox'[t].state = inbox[t].state
    BY <1>4, EntryStates DEF ApplyFile, TypeOK
  <2> QED
    BY <1>4, <2>1, PositionsKept DEF ApplyFile, network, TypeOK
<1>5. CASE Finish(s)
  <2>1. hold.outcome # "pending" /\ inbox \in Seq(Entries) /\ cursor \in Nat
        /\ inbox[s] \in Entries
    BY DEF TypeOK, Holds
  <2>2. /\ Len(inbox') = Len(inbox)
        /\ inbox'[s].state # "pending"
        /\ \A t \in 1..Len(inbox) : t # s => inbox'[t] = inbox[t]
    BY <1>5, <2>1 DEF Finish, Entries
  <2>3. cursor' = s /\ cursor = s - 1
    BY <1>5 DEF Finish
  <2>4. \A t \in 1..Len(inbox') : (t <= cursor') <=> (inbox'[t].state # "pending")
    BY <2>1, <2>2, <2>3 DEF Positions
  <2>5. window' <= Len(log)
    BY <1>5 DEF Finish, Positions, TypeOK
  <2> QED
    BY <1>5, <2>1, <2>2, <2>3, <2>4, <2>5 DEF Finish, Positions, network
<1> QED
  BY <1>1, <1>2, <1>3, <1>4, <1>5

\* Carrying out a decision moves no position.
LEMMA DecisionPositions ==
    ASSUME TypeOK, Positions, TypeOK', Decision
    PROVE  Positions'
<1> SUFFICES ASSUME NEW s \in 1..Len(inbox),
                    DecideCopy(s) \/ DecideLocal(s) \/ DecideRemote(s)
                    \/ DecideResumed(s) \/ DecideFails(s) \/ Settle(s)
             PROVE  Positions'
  BY SMTT(30) DEF Decision
<1>1. /\ Len(inbox') = Len(inbox)
      /\ \A t \in 1..Len(inbox) : inbox'[t].state = inbox[t].state
  BY EntryStates DEF DecideCopy, DecideLocal, DecideRemote, DecideResumed,
     DecideFails, Settle, TypeOK, durable
<1>2. UNCHANGED <<log, cursor, window>>
  BY DEF DecideCopy, DecideLocal, DecideRemote, DecideResumed, DecideFails,
     Settle, network, durable
<1>3. engine' = engine \/ engine'.at # "item"
  BY NoPage DEF DecideCopy, DecideLocal, DecideRemote, DecideResumed,
     DecideFails, Settle, Goto, TypeOK, Points
<1> QED
  BY <1>1, <1>2, <1>3, PositionsKept DEF TypeOK

-----------------------------------------------------------------------------
(* The log, the queues and the heads *)

\* One more element.
LEMMA LatestGrows ==
    ASSUME NEW n \in Nat, NEW S, S \subseteq 1..n, NEW s \in 1..n
    PROVE  Latest(S \cup {s}) = IF Latest(S) < s THEN s ELSE Latest(S)
<1> DEFINE latest == Latest(S)
           T == S \cup {s}
<1>1. T \subseteq 1..n /\ s \in T
  OBVIOUS
<1>2. IF S = {} THEN latest = 0 ELSE latest \in S /\ \A t \in S : t <= latest
  BY LatestIsGreatest
<1>3. latest \in Nat
  BY LatestInNat
<1> HIDE DEF latest
<1>4. CASE latest < s
  <2>1. \A t \in S : t <= s
    <3> SUFFICES ASSUME NEW t \in S PROVE t <= s
      OBVIOUS
    <3>1. t \in 1..n /\ t <= latest
      BY <1>2
    <3> QED
      BY <1>3, <1>4, <3>1
  <2>2. \A t \in T : t <= s
    BY <2>1
  <2>3. Latest(T) = s
    BY <1>1, <2>2, GreatestIsLatest
  <2> QED
    BY <1>4, <2>3 DEF latest
<1>5. CASE ~(latest < s)
  <2>1. S # {} /\ latest \in S /\ s <= latest
    BY <1>2, <1>3, <1>5
  <2>2. latest \in T /\ \A t \in T : t <= latest
    BY <1>2, <2>1
  <2>3. Latest(T) = latest
    BY <1>1, <2>2, GreatestIsLatest
  <2> QED
    BY <1>5, <2>3 DEF latest
<1> QED
  BY <1>4, <1>5

\* What every step but an acknowledgement does to the queues: operations are
\* only added, none becomes or stops being acknowledged, no base is forgotten.
QueueGrows ==
    /\ \A f \in Files : \A i \in 1..Len(queue[f]) :
         /\ i \in 1..Len(queue'[f])
         /\ queue[f][i].frozen => queue'[f][i].frozen
         /\ queue'[f][i].stage = "acked" <=> queue[f][i].stage = "acked"
    /\ \A f \in Files : \A i \in 1..Len(queue'[f]) :
         i \notin 1..Len(queue[f]) => queue'[f][i].stage # "acked"

\* A step that leaves log, heads and cursor alone.
LEMMA HeadsKept ==
    ASSUME SyncInv, UNCHANGED <<log, heads, cursor>>, QueueGrows,
           \A f \in Files, i \in Nat : <<f, i>> \in wire' =>
               \/ <<f, i>> \in wire
               \/ i \in 1..Len(queue'[f]) /\ queue'[f][i].frozen
    PROVE  OwnOps' /\ AckedInLog' /\ HeadsLatest'
<1>1. \A f \in Files : AckedOps(f)' = AckedOps(f)
  BY DEF QueueGrows, AckedOps
<1>2. \A s \in 1..Len(log) : log[s].file \in Files /\ log[s] \in Revisions
  <2>1. \A s \in 1..Len(log) : log[s] \in Revisions
    BY DEF SyncInv, TypeOK
  <2> QED
    BY <2>1 DEF Revisions
<1>3. OwnOps'
  BY <1>2 DEF SyncInv, OwnOps, Own, QueueGrows
<1>4. AckedInLog'
  BY <1>1 DEF SyncInv, AckedInLog, Committed, RevisionsOf
<1>5. HeadsLatest'
  <2>1. \A f \in Files : Dealt(f)' = Dealt(f)
    BY <1>1 DEF Dealt, RevisionsOf, Own
  <2> QED
    BY <2>1 DEF SyncInv, HeadsLatest
<1> QED
  BY <1>3, <1>4, <1>5

\* A step that adds a revision to the log: another device's, or an operation
\* of this device that the log does not have yet.
LEMMA LogGrows ==
    ASSUME SyncInv, UNCHANGED <<queue, heads, cursor>>, wire' \subseteq wire,
           NEW r \in Revisions, log' = Append(log, r),
           \/ r.by = Other
           \/ /\ r.by \in 1..Len(queue[r.file]) /\ queue[r.file][r.by].frozen
              /\ Committed(r.file, r.by) = {}
    PROVE  OwnOps' /\ AckedInLog' /\ HeadsLatest'
<1> DEFINE n == Len(log)
<1>1. /\ n \in Nat /\ Len(log') = n + 1 /\ log'[n + 1] = r
      /\ \A s \in 1..n : log'[s] = log[s]
  BY DEF SyncInv, TypeOK
<1>2. cursor \in Nat /\ cursor <= n
  BY DEF SyncInv, TypeOK, Positions
<1>3. r.file \in Files
  BY DEF Revisions
<1> HIDE DEF n
<1>4. 1..Len(log') = 1..n \cup {n + 1} /\ n + 1 \notin 1..n
  BY <1>1
<1>5. \A s \in 1..n : Own(s)' = Own(s)
  BY <1>1, <1>4 DEF Own
<1>6. OwnOps'
  <2>1. \A s \in 1..n : (log[s].by = r.by /\ log[s].file = r.file) => r.by = Other
    BY <1>1 DEF Committed, RevisionsOf, n
  <2>2. \A s \in 1..Len(log') : Own(s)' =>
            /\ log'[s].by \in 1..Len(queue[log'[s].file])
            /\ queue[log'[s].file][log'[s].by].frozen
    BY <1>1, <1>4 DEF SyncInv, OwnOps, Own, n
  <2>3. \A s, t \in 1..Len(log') :
            Own(s)' /\ log'[s].by = log'[t].by /\ log'[s].file = log'[t].file => s = t
    BY <1>1, <1>4, <2>1 DEF SyncInv, OwnOps, Own, n
  <2>4. \A f \in Files, i \in Nat : <<f, i>> \in wire' =>
            i \in 1..Len(queue'[f]) /\ queue'[f][i].frozen
    BY DEF SyncInv, OwnOps
  <2> QED
    BY <2>2, <2>3, <2>4 DEF OwnOps
<1>7. \A f \in Files : \A i : Committed(f, i) \subseteq Committed(f, i)'
  BY <1>1, <1>4 DEF Committed, RevisionsOf, n
<1>8. AckedInLog'
  <2>1. \A f \in Files : AckedOps(f)' = AckedOps(f)
    BY DEF AckedOps
  <2> QED
    BY <1>7, <2>1 DEF SyncInv, AckedInLog
<1>9. HeadsLatest'
  <2> SUFFICES ASSUME NEW f \in Files PROVE Dealt(f)' = Dealt(f)
    BY DEF SyncInv, HeadsLatest
  <2>1. ~(r.file = f /\ r.by # Other /\ r.by \in AckedOps(f))
    BY DEF SyncInv, AckedInLog
  <2>2. n + 1 \notin Dealt(f)'
    BY <1>1, <1>2, <2>1 DEF Dealt, RevisionsOf, Own, AckedOps
  <2>3. \A s \in 1..n : s \in Dealt(f)' <=> s \in Dealt(f)
    BY <1>1, <1>4 DEF Dealt, RevisionsOf, Own, AckedOps, n
  <2>4. Dealt(f) \subseteq 1..n /\ Dealt(f)' \subseteq 1..Len(log')
    BY DEF Dealt, RevisionsOf, n
  <2> QED
    BY <1>4, <2>2, <2>3, <2>4
<1> QED
  BY <1>6, <1>8, <1>9

\* The head moves to the newer of itself and the revision.
LEMMA NewerHead ==
    ASSUME TypeOK, NEW f \in Files, NEW s \in Nat, NEW c \in Hashes
    PROVE  /\ Newer(f, s, c)[f].revision
                = IF heads[f].revision < s THEN s ELSE heads[f].revision
           /\ \A g \in Files \ {f} : Newer(f, s, c)[g] = heads[g]
  BY DEF Newer, TypeOK, Heads

\* sync_ack of an operation that the log has.
LEMMA AckKeepsHeads ==
    ASSUME SyncInv, UNCHANGED <<log, cursor>>, wire' \subseteq wire,
           NEW f \in Files, NEW i \in 1..Len(queue[f]), NEW s \in Committed(f, i),
           Acked(f, i, s)
    PROVE  OwnOps' /\ AckedInLog' /\ HeadsLatest'
<1>1. /\ queue \in [Files -> Seq(Jobs)] /\ queue[f][i] \in Jobs
      /\ queue[f] \in Seq(Jobs) /\ Len(log) \in Nat
  BY DEF SyncInv, TypeOK
<1>2. /\ s \in 1..Len(log) /\ log[s].file = f /\ log[s].by = i /\ Own(s)
      /\ s \in Nat /\ queue[f][i].content \in Hashes
  BY <1>1 DEF Committed, RevisionsOf, Own, Other, Jobs
<1>3. /\ \A g \in Files : Len(queue'[g]) = Len(queue[g])
      /\ \A g \in Files, j \in Nat : j \in 1..Len(queue[g]) /\ <<g, j>> # <<f, i>>
             => queue'[g][j] = queue[g][j]
      /\ queue'[f][i] = [queue[f][i] EXCEPT !.stage = "acked"]
  BY <1>1 DEF Acked
<1>4. queue'[f][i].stage = "acked" /\ queue'[f][i].frozen = queue[f][i].frozen
  BY <1>1, <1>3 DEF Jobs
<1>5. \A g \in Files : AckedOps(g)' = IF g = f THEN AckedOps(f) \cup {i} ELSE AckedOps(g)
  <2>1. \A g \in Files \ {f} : AckedOps(g)' = AckedOps(g)
    BY <1>3 DEF AckedOps
  <2>2. \A j \in 1..Len(queue[f]) : j \in AckedOps(f)' <=> j \in AckedOps(f) \/ j = i
    <3> SUFFICES ASSUME NEW j \in 1..Len(queue[f])
                 PROVE  j \in AckedOps(f)' <=> j \in AckedOps(f) \/ j = i
      OBVIOUS
    <3>1. j # i => queue'[f][j] = queue[f][j]
      BY <1>3
    <3> QED
      BY <1>3, <1>4, <3>1 DEF AckedOps
  <2>3. AckedOps(f) \subseteq 1..Len(queue[f]) /\ AckedOps(f)' \subseteq 1..Len(queue[f])
    BY <1>3 DEF AckedOps
  <2> QED
    BY <2>1, <2>2, <2>3
<1>6. OwnOps'
  <2>1. \A t \in 1..Len(log) : log[t].file \in Files
    <3>1. \A t \in 1..Len(log) : log[t] \in Revisions
      BY DEF SyncInv, TypeOK
    <3> QED
      BY <3>1 DEF Revisions
  <2>2. \A g \in Files, j \in Nat : j \in 1..Len(queue[g]) /\ queue[g][j].frozen
            => j \in 1..Len(queue'[g]) /\ queue'[g][j].frozen
    BY <1>3, <1>4
  <2>3. \A g \in Files, j \in Nat : <<g, j>> \in wire' =>
            j \in 1..Len(queue'[g]) /\ queue'[g][j].frozen
    BY <2>2 DEF SyncInv, OwnOps
  <2>4. \A t \in 1..Len(log) : Own(t) =>
            /\ log[t].by \in 1..Len(queue'[log[t].file])
            /\ queue'[log[t].file][log[t].by].frozen
    <3> SUFFICES ASSUME NEW t \in 1..Len(log), Own(t)
                 PROVE  /\ log[t].by \in 1..Len(queue'[log[t].file])
                        /\ queue'[log[t].file][log[t].by].frozen
      OBVIOUS
    <3>1. /\ log[t].by \in 1..Len(queue[log[t].file]) /\ log[t].by \in Nat
          /\ queue[log[t].file][log[t].by].frozen
      BY DEF SyncInv, OwnOps
    <3> QED
      BY <2>1, <2>2, <3>1
  <2> QED
    BY <2>3, <2>4 DEF SyncInv, OwnOps, Own
<1>7. AckedInLog'
  BY <1>2, <1>5 DEF SyncInv, AckedInLog, Committed, RevisionsOf
<1>8. \A g \in Files : Dealt(g)' = IF g = f THEN Dealt(f) \cup {s} ELSE Dealt(g)
  <2>1. \A t \in 1..Len(log) : log[t].file = f /\ log[t].by = i => t = s
    BY <1>2 DEF SyncInv, OwnOps
  <2>2. \A g \in Files \ {f} : Dealt(g)' = Dealt(g)
    BY <1>5 DEF Dealt, RevisionsOf, Own
  <2>3. \A t \in 1..Len(log) : t \in Dealt(f)' <=> t \in Dealt(f) \/ t = s
    BY <1>2, <1>5, <2>1 DEF Dealt, RevisionsOf, Own
  <2>4. Dealt(f)' \subseteq 1..Len(log) /\ Dealt(f) \subseteq 1..Len(log)
    BY DEF Dealt, RevisionsOf
  <2> QED
    BY <1>2, <2>2, <2>3, <2>4
<1>9. HeadsLatest'
  <2>1. Dealt(f) \subseteq 1..Len(log)
    BY DEF Dealt, RevisionsOf
  <2>2. Latest(Dealt(f) \cup {s})
          = IF Latest(Dealt(f)) < s THEN s ELSE Latest(Dealt(f))
    BY <1>1, <1>2, <2>1, LatestGrows
  <2>3. heads' = Newer(f, s, queue[f][i].content)
    BY DEF Acked
  <2>4. /\ heads'[f].revision = IF heads[f].revision < s THEN s ELSE heads[f].revision
        /\ \A g \in Files \ {f} : heads'[g] = heads[g]
    BY <1>2, <2>3, NewerHead DEF SyncInv
  <2> QED
    BY <1>8, <2>2, <2>4 DEF SyncInv, HeadsLatest
<1> QED
  BY <1>6, <1>7, <1>9

\* sync_finish of the revision after the cursor.
LEMMA FinishKeepsHeads ==
    ASSUME SyncInv, NEW s \in 1..Len(inbox), Finish(s)
    PROVE  OwnOps' /\ AckedInLog' /\ HeadsLatest'
<1> DEFINE f == log[s].file
<1>1. /\ s \in Nat /\ s \in 1..Len(log) /\ f \in Files /\ log[s].content \in Hashes
      /\ Len(log) \in Nat /\ cursor \in Nat
  BY EntryRevision DEF SyncInv, TypeOK
<1>2. /\ UNCHANGED <<log, wire, queue>> /\ cursor = s - 1 /\ cursor' = s
      /\ heads' = Newer(f, s, log[s].content)
  BY DEF Finish, network
<1>3. OwnOps' /\ AckedInLog'
  BY <1>2 DEF SyncInv, OwnOps, Own, AckedInLog, AckedOps, Committed, RevisionsOf
<1>4. \A g \in Files : Dealt(g)' = IF g = f THEN Dealt(f) \cup {s} ELSE Dealt(g)
  <2>1. \A t \in 1..Len(log) : t <= cursor' <=> t <= cursor \/ t = s
    BY <1>1, <1>2
  <2>2. \A g \in Files : \A t \in 1..Len(log) :
            t \in Dealt(g)' <=> t \in Dealt(g) \/ (t = s /\ g = f)
    BY <1>1, <1>2, <2>1 DEF Dealt, RevisionsOf, Own, AckedOps
  <2>3. \A g \in Files : Dealt(g)' \subseteq 1..Len(log) /\ Dealt(g) \subseteq 1..Len(log)
    BY <1>2 DEF Dealt, RevisionsOf
  <2> QED
    BY <1>1, <2>2, <2>3
<1>5. HeadsLatest'
  <2>1. Dealt(f) \subseteq 1..Len(log)
    BY DEF Dealt, RevisionsOf
  <2>2. Latest(Dealt(f) \cup {s})
          = IF Latest(Dealt(f)) < s THEN s ELSE Latest(Dealt(f))
    BY <1>1, <2>1, LatestGrows
  <2>3. /\ heads'[f].revision = IF heads[f].revision < s THEN s ELSE heads[f].revision
        /\ \A g \in Files \ {f} : heads'[g] = heads[g]
    BY <1>1, <1>2, NewerHead DEF SyncInv
  <2> HIDE DEF f
  <2> QED
    BY <1>1, <1>4, <2>2, <2>3 DEF SyncInv, HeadsLatest
<1> QED
  BY <1>3, <1>5

\* A local write adds one operation to its file.
LEMMA WriteGrows ==
    ASSUME TypeOK, NEW f \in Files, NEW c \in Hashes,
           LocalWrite(f, c) \/ RemoteWrite(f, c)
    PROVE  QueueGrows
<1>1. queue[f] \in Seq(Jobs) /\ NewJob(c).stage # "acked"
  BY DEF TypeOK, NewJob
<1>2. CASE LocalWrite(f, c)
  <2>1. queue'[f] = Append(queue[f], NewJob(c))
        /\ \A g \in Files \ {f} : queue'[g] = queue[g]
    BY <1>2 DEF LocalWrite, TypeOK
  <2> QED
    BY SMTT(30), <1>1, <2>1 DEF QueueGrows
<1>3. CASE RemoteWrite(f, c)
  BY <1>3 DEF RemoteWrite, QueueGrows
<1> QED
  BY <1>2, <1>3

\* A change of stages that leaves acknowledged operations alone.
LEMMA StagesGrow ==
    ASSUME TypeOK, queue' \in [Files -> Seq(Jobs)],
           NEW stage \in {"queued", "conflict", "archived"},
           \A f \in Files : DOMAIN queue'[f] = DOMAIN queue[f],
           \A f \in Files : \A i \in DOMAIN queue[f] :
               \/ queue'[f][i] = queue[f][i]
               \/ /\ queue[f][i].stage # "acked"
                  /\ queue'[f][i] = [queue[f][i] EXCEPT !.stage = stage]
    PROVE  QueueGrows
<1>1. \A f \in Files : \A i \in 1..Len(queue[f]) : queue[f][i] \in Jobs
  BY DEF TypeOK
<1>2. \A f \in Files : /\ DOMAIN queue[f] = 1..Len(queue[f])
                       /\ 1..Len(queue'[f]) = 1..Len(queue[f])
  BY DEF TypeOK
<1>3. \A f \in Files : \A i \in 1..Len(queue[f]) :
        /\ queue'[f][i].frozen = queue[f][i].frozen
        /\ queue'[f][i].stage = "acked" <=> queue[f][i].stage = "acked"
  <2> SUFFICES ASSUME NEW f \in Files, NEW i \in 1..Len(queue[f])
               PROVE  /\ queue'[f][i].frozen = queue[f][i].frozen
                      /\ queue'[f][i].stage = "acked" <=> queue[f][i].stage = "acked"
    OBVIOUS
  <2>1. CASE queue'[f][i] = queue[f][i]
    BY <2>1
  <2>2. CASE /\ queue[f][i].stage # "acked"
             /\ queue'[f][i] = [queue[f][i] EXCEPT !.stage = stage]
    BY <1>1, <2>2 DEF Jobs
  <2> QED
    BY <1>2, <2>1, <2>2
<1> QED
  BY <1>2, <1>3 DEF QueueGrows

\* Commits, edits and failures leave acknowledged operations and heads right.
LEMMA OutsideHeads ==
    ASSUME SyncInv, Server \/ Person \/ Environment
    PROVE  OwnOps' /\ AckedInLog' /\ HeadsLatest'
<1>1. queue' = queue => QueueGrows
  BY DEF QueueGrows
<1>2. ASSUME NEW f \in Files, NEW i \in 1..Len(queue[f]), Serve(f, i)
      PROVE  OwnOps' /\ AckedInLog' /\ HeadsLatest'
  <2>1. UNCHANGED <<queue, heads, cursor>> /\ wire' \subseteq wire
    BY <1>2 DEF Serve, durable
  <2>2. CASE log' = log
    BY <1>1, <2>1, <2>2, HeadsKept
  <2>3. CASE log' # log
    <3> DEFINE r == Revision(f, queue[f][i].base, queue[f][i].content, i)
    <3>1. log' = Append(log, r) /\ Committed(f, i) = {}
      BY <1>2, <2>3 DEF Serve
    <3>2. queue[f][i] \in Jobs /\ i \in Nat
      BY DEF SyncInv, TypeOK
    <3>3. r \in Revisions /\ r.file = f /\ r.by = i
      BY <3>2 DEF Revision, Revisions, Jobs
    <3>4. queue[f][i].frozen
      BY <1>2, <3>2 DEF Serve, SyncInv, OwnOps
    <3> HIDE DEF r
    <3> QED
      BY <2>1, <3>1, <3>3, <3>4, LogGrows
  <2> QED
    BY <2>2, <2>3
<1>3. ASSUME NEW f \in Files, NEW c \in Hashes, OtherCommit(f, c)
      PROVE  OwnOps' /\ AckedInLog' /\ HeadsLatest'
  <2> DEFINE r == Revision(f, ServerHead(f), c, Other)
  <2>1. ServerHead(f) \in Nat
    <3>1. Len(log) \in Nat /\ RevisionsOf(f) \subseteq 1..Len(log)
      BY DEF RevisionsOf, SyncInv, TypeOK
    <3> QED
      BY <3>1, LatestInNat DEF ServerHead
  <2>2. r \in Revisions /\ r.by = Other
    BY <2>1 DEF Revision, Revisions, Other
  <2>3. /\ UNCHANGED <<queue, heads, cursor>> /\ wire' \subseteq wire
        /\ log' = Append(log, r)
    BY <1>3 DEF OtherCommit, durable
  <2> HIDE DEF r
  <2> QED
    BY <2>2, <2>3, LogGrows
<1>4. ASSUME NEW f \in Files, NEW c \in Hashes, Edit(f, c)
      PROVE  OwnOps' /\ AckedInLog' /\ HeadsLatest'
  <2>1. QueueGrows
    BY <1>4, WriteGrows DEF Edit, SyncInv
  <2> QED
    BY <1>4, <2>1, HeadsKept DEF Edit, network
<1>5. ASSUME NEW f \in Files, NEW c \in Hashes, ExternalEdit(f, c)
      PROVE  OwnOps' /\ AckedInLog' /\ HeadsLatest'
  BY <1>1, <1>5, HeadsKept DEF ExternalEdit, network
<1>6. ASSUME NEW s \in 1..Len(inbox), NEW choice \in Choices, NEW g \in Files,
             Decide(s, choice, g)
      PROVE  OwnOps' /\ AckedInLog' /\ HeadsLatest'
  BY <1>1, <1>6, HeadsKept DEF Decide, network
<1>7. CASE GiveUp \/ Crash
  <2>1. UNCHANGED <<log, heads, cursor, queue>> /\ wire' \subseteq wire
    BY <1>7 DEF GiveUp, Crash, durable
  <2> QED
    BY <1>1, <2>1, HeadsKept
<1> QED
  BY <1>2, <1>3, <1>4, <1>5, <1>6, <1>7 DEF Server, Person, Environment

\* Discovery only adds operations, and the rest of a pull touches none.
LEMMA PullHeads ==
    ASSUME SyncInv, Pull
    PROVE  OwnOps' /\ AckedInLog' /\ HeadsLatest'
<1>1. QueueGrows
  <2>1. CASE StartCycle
    <3> SUFFICES ASSUME NEW f \in Files
                 PROVE  \/ queue'[f] = queue[f]
                        \/ queue'[f] = Append(queue[f], NewJob(disk[f]))
      <4>1. \A f \in Files : queue[f] \in Seq(Jobs) /\ NewJob(disk[f]).stage # "acked"
        BY DEF SyncInv, TypeOK, NewJob
      <4> QED
        BY SMTT(30), <4>1 DEF QueueGrows
    <3> QED
      BY <2>1 DEF StartCycle
  <2>2. CASE queue' = queue
    BY <2>2 DEF QueueGrows
  <2> QED
    BY <2>1, <2>2 DEF Pull, ResumeNext, ResumeDone, Drain, Fetch, Stage, EndPage,
       durable
<1>2. UNCHANGED <<log, heads, cursor, wire>>
  BY DEF Pull, StartCycle, ResumeNext, ResumeDone, Drain, Fetch, Stage, EndPage,
     durable, network
<1> QED
  BY <1>1, <1>2, HeadsKept

\* Heads stay the newest dealt revision through sync_apply_pending and sync_finish.
LEMMA ApplyHeads ==
    ASSUME SyncInv, TypeOK', Apply
    PROVE  OwnOps' /\ AckedInLog' /\ HeadsLatest'
<1> SUFFICES ASSUME NEW s \in 1..Len(inbox),
                    ApplyOwn(s) \/ ApplyKnown(s) \/ ApplyConflict(s)
                    \/ ApplyFile(s) \/ Finish(s)
             PROVE  OwnOps' /\ AckedInLog' /\ HeadsLatest'
  BY DEF Apply
<1> DEFINE f == log[s].file
<1>1. s \in 1..Len(log) /\ f \in Files /\ log[s].content \in Hashes
  BY EntryRevision DEF SyncInv
<1>2. CASE ApplyOwn(s)
  <2>1. log[s].by \in 1..Len(queue[f]) /\ s \in Committed(f, log[s].by)
    BY <1>1, <1>2 DEF ApplyOwn, OwnRevision, SyncInv, OwnOps, Own, Committed,
       RevisionsOf
  <2> QED
    BY <1>1, <1>2, <2>1, AckKeepsHeads DEF ApplyOwn, network
<1>3. CASE ApplyKnown(s)
  <2>1. QueueGrows
    BY <1>3 DEF ApplyKnown, durable, QueueGrows
  <2> QED
    BY <1>3, <2>1, HeadsKept DEF ApplyKnown, network, durable
<1>4. CASE ApplyConflict(s)
  <2>1. queue' \in [Files -> Seq(Jobs)] /\ queue \in [Files -> Seq(Jobs)]
    BY SMTT(30) DEF TypeOK, SyncInv
  <2>2. \A g \in Files \ {f} : queue'[g] = queue[g]
    BY <1>4 DEF ApplyConflict, SyncInv, TypeOK
  <2>3. queue'[f] = [i \in DOMAIN queue[f] |->
                       IF queue[f][i].stage \in {"queued", "committing"}
                       THEN [queue[f][i] EXCEPT !.stage = "conflict"]
                       ELSE queue[f][i]]
    BY <1>1, <1>4, <2>1 DEF ApplyConflict
  <2>4. DOMAIN queue'[f] = DOMAIN queue[f]
    BY <2>3
  <2>5. \A i \in DOMAIN queue[f] :
            \/ queue'[f][i] = queue[f][i]
            \/ /\ queue[f][i].stage # "acked"
               /\ queue'[f][i] = [queue[f][i] EXCEPT !.stage = "conflict"]
    BY <2>3
  <2>6. QueueGrows
    <3>1. \A g \in Files :
            /\ DOMAIN queue'[g] = DOMAIN queue[g]
            /\ \A i \in DOMAIN queue[g] :
                 \/ queue'[g][i] = queue[g][i]
                 \/ /\ queue[g][i].stage # "acked"
                    /\ queue'[g][i] = [queue[g][i] EXCEPT !.stage = "conflict"]
      BY <2>2, <2>4, <2>5
    <3> QED
      BY <2>1, <3>1, StagesGrow DEF SyncInv
  <2> QED
    BY <1>4, <2>6, HeadsKept DEF ApplyConflict, network
<1>5. CASE ApplyFile(s)
  <2>1. QueueGrows
    <3>1. CASE queue' = queue
      BY <3>1 DEF QueueGrows
    <3>2. CASE RemoteWrite(f, log[s].content)
      BY <1>1, <3>2, WriteGrows DEF SyncInv
    <3> QED
      BY <1>5, <3>1, <3>2 DEF ApplyFile
  <2> QED
    BY <1>5, <2>1, HeadsKept DEF ApplyFile, network
<1>6. CASE Finish(s)
  BY <1>6, FinishKeepsHeads
<1> QED
  BY <1>2, <1>3, <1>4, <1>5, <1>6

\* Heads stay the newest dealt revision through push_one.
LEMMA PushHeads ==
    ASSUME SyncInv, TypeOK', Push
    PROVE  OwnOps' /\ AckedInLog' /\ HeadsLatest'
<1>1. CASE Capture
  <2>1. queue' \in [Files -> Seq(Jobs)] /\ queue' = Captured
    BY <1>1 DEF TypeOK, Capture
  <2>2. \A f \in Files : DOMAIN queue'[f] = DOMAIN queue[f]
    BY <2>1 DEF Captured
  <2>3. \A f \in Files : \A i \in DOMAIN queue[f] :
            \/ queue'[f][i] = queue[f][i]
            \/ /\ queue[f][i].stage # "acked"
               /\ queue'[f][i] = [queue[f][i] EXCEPT !.stage = "queued"]
    BY <2>1 DEF Captured
  <2>4. QueueGrows
    BY <2>1, <2>2, <2>3, StagesGrow DEF SyncInv
  <2> QED
    BY <1>1, <2>4, HeadsKept DEF Capture, network
<1>2. CASE NothingToPush \/ PushRejected \/ \E f \in Files : Pick(f)
  <2>1. UNCHANGED <<log, heads, cursor, queue, wire>>
    BY <1>2 DEF NothingToPush, PushRejected, Pick, durable, network
  <2> QED
    BY <2>1, HeadsKept DEF QueueGrows
<1>3. ASSUME NEW f \in Files, NEW i \in 1..Len(queue[f]), Post(f, i)
      PROVE  OwnOps' /\ AckedInLog' /\ HeadsLatest'
  <2>1. queue \in [Files -> Seq(Jobs)] /\ queue[f][i] \in Jobs
    BY DEF SyncInv, TypeOK
  <2>2. queue[f][i].stage = "acked" => queue[f][i].frozen
    <3>1. \A s \in Committed(f, i) : s \in 1..Len(log) /\ log[s].file = f /\ log[s].by = i
                                     /\ Own(s)
      BY DEF Committed, RevisionsOf, Own, Other
    <3>2. Committed(f, i) # {} => queue[f][i].frozen
      BY <3>1 DEF SyncInv, OwnOps
    <3> QED
      BY <3>2 DEF SyncInv, AckedInLog, AckedOps
  <2>3. queue'[f] = [queue[f] EXCEPT ![i] = Frozen(queue[f][i], f)]
        /\ \A g \in Files \ {f} : queue'[g] = queue[g]
    BY <1>3, <2>1 DEF Post
  <2>4. /\ Len(queue'[f]) = Len(queue[f])
        /\ queue'[f][i] = Frozen(queue[f][i], f)
        /\ \A j \in 1..Len(queue[f]) : j # i => queue'[f][j] = queue[f][j]
    BY <2>1, <2>3
  <2>5. /\ queue'[f][i].frozen
        /\ queue'[f][i].stage = "acked" <=> queue[f][i].stage = "acked"
    BY <2>1, <2>2, <2>4 DEF Frozen, Jobs
  <2>6. QueueGrows
    BY <2>3, <2>4, <2>5 DEF QueueGrows
  <2>7. \A g \in Files, j \in Nat : <<g, j>> \in wire' =>
            \/ <<g, j>> \in wire
            \/ j \in 1..Len(queue'[g]) /\ queue'[g][j].frozen
    BY <1>3, <2>4, <2>5 DEF Post
  <2> QED
    BY <1>3, <2>6, <2>7, HeadsKept DEF Post
<1>4. ASSUME NEW f \in Files, NEW i \in 1..Len(queue[f]), PushAcked(f, i)
      PROVE  OwnOps' /\ AckedInLog' /\ HeadsLatest'
  BY <1>4, AckKeepsHeads DEF PushAcked
<1> QED
  BY <1>1, <1>2, <1>3, <1>4 DEF Push

\* A decision acknowledges nothing and moves no head.
LEMMA DecisionHeads ==
    ASSUME SyncInv, TypeOK', Decision
    PROVE  OwnOps' /\ AckedInLog' /\ HeadsLatest'
<1> SUFFICES ASSUME NEW s \in 1..Len(inbox),
                    DecideCopy(s) \/ DecideLocal(s) \/ DecideRemote(s)
                    \/ DecideResumed(s) \/ DecideFails(s) \/ Settle(s)
             PROVE  OwnOps' /\ AckedInLog' /\ HeadsLatest'
  BY DEF Decision
<1> DEFINE f == log[s].file
           d == inbox[s].decision
<1>1. f \in Files /\ log[s].content \in Hashes /\ inbox[s] \in Entries
  BY EntryRevision DEF SyncInv
<1>2. d.expected \in Hashes /\ d.copy \in Files
  BY <1>1 DEF Entries, Decisions
<1>3. queue' = queue => QueueGrows
  BY DEF QueueGrows
<1>4. CASE DecideCopy(s) \/ DecideLocal(s)
  BY <1>1, <1>2, <1>4, WriteGrows, HeadsKept
     DEF DecideCopy, DecideLocal, SyncInv, network
<1>5. CASE DecideRemote(s)
  <2>1. QueueGrows
    BY <1>1, <1>3, <1>5, WriteGrows DEF DecideRemote, SyncInv
  <2> QED
    BY <1>5, <2>1, HeadsKept DEF DecideRemote, network
<1>6. CASE DecideResumed(s) \/ DecideFails(s)
  BY <1>3, <1>6, HeadsKept DEF DecideResumed, DecideFails, network, durable
<1>7. CASE Settle(s)
  <2>1. queue' \in [Files -> Seq(Jobs)] /\ queue \in [Files -> Seq(Jobs)]
    BY DEF TypeOK, SyncInv
  <2>2. queue'[f] = Archived(f, d.op) /\ \A g \in Files \ {f} : queue'[g] = queue[g]
    BY <1>1, <1>7, <2>1 DEF Settle
  <2>3. DOMAIN queue'[f] = DOMAIN queue[f]
    BY <2>2 DEF Archived
  <2>4. \A i \in DOMAIN queue[f] :
            \/ queue'[f][i] = queue[f][i]
            \/ /\ queue[f][i].stage # "acked"
               /\ queue'[f][i] = [queue[f][i] EXCEPT !.stage = "archived"]
    BY <2>2 DEF Archived
  <2>5. QueueGrows
    <3>1. \A g \in Files :
            /\ DOMAIN queue'[g] = DOMAIN queue[g]
            /\ \A i \in DOMAIN queue[g] :
                 \/ queue'[g][i] = queue[g][i]
                 \/ /\ queue[g][i].stage # "acked"
                    /\ queue'[g][i] = [queue[g][i] EXCEPT !.stage = "archived"]
      BY <2>2, <2>3, <2>4
    <3> QED
      BY <2>1, <3>1, StagesGrow DEF SyncInv
  <2> QED
    BY <1>7, <2>5, HeadsKept DEF Settle, network
<1> QED
  BY <1>4, <1>5, <1>6, <1>7

-----------------------------------------------------------------------------
(* Theorems *)

\* The invariant holds of every reachable state: whatever is edited, lost or
\* stopped, the inbox is a prefix of the server's log, an operation of this
\* device is in the log at most once, and every head is the newest revision
\* that sync_finish or sync_ack has recorded.
THEOREM SyncInvariant == Spec => []SyncInv
<1>1. Init => SyncInv
  <2> SUFFICES ASSUME Init PROVE SyncInv
    OBVIOUS
  <2>1. TypeOK
    <3>1. (CHOOSE f \in Files : TRUE) \in Files
      BY ConstantsAssumption
    <3>2. engine \in Engines /\ hold \in Holds
      BY <3>1, HoldUpdates DEF Init, Engines, Points
    <3>3. budget \in Budgets
      BY ConstantsAssumption DEF Init, Budgets
    <3> QED
      BY <3>2, <3>3 DEF Init, TypeOK, Hashes, Heads
  <2>2. Positions
    BY DEF Init, Positions
  <2>3. OwnOps /\ AckedInLog
    BY DEF Init, OwnOps, AckedInLog, AckedOps
  <2>4. HeadsLatest
    <3>1. \A f \in Files : Dealt(f) = {}
      BY DEF Init, Dealt, RevisionsOf
    <3> QED
      BY <3>1 DEF Init, HeadsLatest, Latest
  <2> QED
    BY <2>1, <2>2, <2>3, <2>4 DEF SyncInv
<1>2. SyncInv /\ [Next]_vars => SyncInv'
  <2> SUFFICES ASSUME SyncInv, [Next]_vars PROVE SyncInv'
    OBVIOUS
  <2>1. CASE UNCHANGED vars
    <3>1. TypeOK' /\ Positions'
      BY <2>1 DEF SyncInv, TypeOK, Positions, vars, network, durable
    <3>2. OwnOps' /\ AckedInLog' /\ HeadsLatest'
      BY <2>1, HeadsKept DEF QueueGrows, vars, network, durable
    <3> QED
      BY <3>1, <3>2 DEF SyncInv
  <2>2. CASE Server \/ Person \/ Environment
    BY <2>2, OutsideType, OutsidePositions, OutsideHeads DEF SyncInv
  <2>3. CASE Pull
    BY <2>3, PullType, PullPositions, PullHeads DEF SyncInv
  <2>4. CASE Apply
    BY <2>4, ApplyType, ApplyPositions, ApplyHeads DEF SyncInv
  <2>5. CASE Push
    BY <2>5, PushType, PushPositions, PushHeads DEF SyncInv
  <2>6. CASE Decision
    BY <2>6, DecisionType, DecisionPositions, DecisionHeads DEF SyncInv
  <2> QED
    BY <2>1, <2>2, <2>3, <2>4, <2>5, <2>6 DEF Next
<1> QED
  BY <1>1, <1>2, PTL DEF Spec

\* Type correctness of the engine's tables, messages and positions.
THEOREM SyncTypeCorrect == Spec => []TypeOK
<1>1. SyncInv => TypeOK
  BY DEF SyncInv
<1> QED
  BY <1>1, SyncInvariant, PTL

\* Cursor and heads follow the server's log through every crash between the
\* transactions of sync_ack and sync_finish, every repeated page and every
\* answer that comes late, twice or never.
THEOREM HeadsFollowLog == Spec => []HeadsTrackLog
<1>1. SyncInv => HeadsTrackLog
  <2> SUFFICES ASSUME SyncInv PROVE HeadsTrackLog
    OBVIOUS
  <2>1. cursor \in Nat /\ Len(inbox) \in Nat /\ Len(log) \in Nat /\ cursor <= Len(log)
    BY DEF SyncInv, TypeOK, Positions
  <2>2. \A f \in Files :
          Dealt(f) = {s \in RevisionsOf(f) :
                        s <= cursor \/ (Own(s) /\ queue[f][log[s].by].stage = "acked")}
    <3> SUFFICES ASSUME NEW f \in Files, NEW s \in RevisionsOf(f), Own(s)
                 PROVE  log[s].by \in AckedOps(f) <=> queue[f][log[s].by].stage = "acked"
      BY DEF Dealt
    <3>1. log[s].by \in 1..Len(queue[f])
      BY DEF SyncInv, OwnOps, RevisionsOf
    <3> QED
      BY <3>1 DEF AckedOps
  <2> QED
    BY <2>1, <2>2 DEF SyncInv, HeadsLatest, Positions, HeadsTrackLog
<1> QED
  BY <1>1, SyncInvariant, PTL

-----------------------------------------------------------------------------
(***************************************************************************)
(* Why the sync engine never takes its own work for another device's, and  *)
(* never sends an operation on a revision that nobody here has dealt with: *)
(* a second inductive invariant on top of SyncInv.                         *)
(***************************************************************************)
(* The invariant *)

\* A frozen operation is not waiting any more, and its base is a revision of
\* its file, not ahead of what the device knows.
FrozenJobs ==
    \A f \in Files : \A i \in 1..Len(queue[f]) : queue[f][i].frozen =>
        /\ queue[f][i].stage \notin {"pending", "queued"}
        /\ queue[f][i].base <= heads[f].revision
        /\ queue[f][i].base # 0 => queue[f][i].base \in RevisionsOf(f)

\* A commit on the wire whose operation was given up will be refused: the
\* server has a revision behind its base.
RefusedWire ==
    \A f \in Files : \A i \in 1..Len(queue[f]) :
        <<f, i>> \in wire /\ queue[f][i].stage \in {"conflict", "archived"} =>
            \E t \in RevisionsOf(f) : queue[f][i].base < t

\* The server accepted an own operation on the head of its file.
OwnBases ==
    \A s, t \in 1..Len(log) : Own(s) /\ t < s /\ log[t].file = log[s].file =>
        t <= queue[log[s].file][log[s].by].base

\* No operation that the server accepted is given up, and one that the cursor
\* has passed is acknowledged.
OwnStages ==
    \A s \in 1..Len(log) : Own(s) =>
        /\ queue[log[s].file][log[s].by].stage \in {"committing", "acked"}
        /\ s <= cursor => queue[log[s].file][log[s].by].stage = "acked"

\* The life of a conflict: only another device's revision has one, and it has
\* no decision before the cursor passes it.
ConflictLife ==
    \A s \in 1..Len(inbox) :
        /\ inbox[s].conflict # "none" => ~Own(s)
        /\ inbox[s].state = "conflict" => inbox[s].conflict # "none"
        /\ inbox[s].decision.choice # "none" => inbox[s].conflict # "none"
        /\ s > cursor => /\ inbox[s].conflict \in {"none", "open"}
                         /\ inbox[s].decision.choice = "none"

\* A conflict that was superseded is no longer about the head, or a later one
\* of its file is open.
Superseded ==
    \A s \in 1..Len(inbox) : inbox[s].conflict = "superseded" =>
        \/ heads[log[s].file].revision > s
        \/ \E t \in Open(log[s].file) : t > s

\* Nothing of a file with an open conflict is being sent.
OpenIsQuiet ==
    \A f \in Files : Open(f) # {} =>
        \A i \in 1..Len(queue[f]) : queue[f][i].stage # "committing"

\* What holds of the tables, the log and the wire.
Records ==
    /\ FrozenJobs /\ RefusedWire /\ OwnBases /\ OwnStages
    /\ ConflictLife /\ Superseded /\ OpenIsQuiet /\ BasesReviewed

\* What the piece of work under the lock, or the picked job, is about.
ApplyWork ==
    hold.step \in {"apply", "finish"} =>
        /\ hold.seq = cursor + 1 /\ hold.seq \in 1..Len(inbox)
        /\ engine.at \in {"drain", "item"}
FinishWork ==
    hold.step = "finish" =>
        /\ Own(hold.seq) =>
             queue[log[hold.seq].file][log[hold.seq].by].stage = "acked"
        /\ hold.outcome = "conflict" => inbox[hold.seq].conflict = "open"
DecideWork ==
    hold.step \in {"decide", "settle"} =>
        /\ hold.seq \in 1..Len(inbox)
        /\ inbox[hold.seq].decision.choice # "none"
        /\ inbox[hold.seq].conflict \in {"open", "superseded"}
        /\ hold.step = "settle" => heads[log[hold.seq].file].revision = hold.seq
PickedIsClear == engine.at = "picked" => Open(engine.file) = {}

Work == ApplyWork /\ FinishWork /\ DecideWork /\ PickedIsClear

ReviewInv == Records /\ Work

-----------------------------------------------------------------------------
(* Steps that only add to the tables *)

\* The types of what the tables hold.
LEMMA Tables ==
    ASSUME SyncInv
    PROVE  /\ cursor \in Nat /\ Len(log) \in Nat /\ Len(inbox) \in Nat
           /\ cursor <= Len(inbox) /\ Len(inbox) <= Len(log)
           /\ \A s \in 1..Len(log) : log[s].file \in Files /\ log[s].by \in Nat
           /\ \A s \in 1..Len(inbox) : s \in 1..Len(log) /\ inbox[s] \in Entries
           /\ \A f \in Files : Len(queue[f]) \in Nat
           /\ \A f \in Files : \A i \in 1..Len(queue[f]) :
                queue[f][i] \in Jobs /\ queue[f][i].base \in Nat
           /\ \A s \in 1..Len(log) : Own(s) =>
                /\ log[s].by \in 1..Len(queue[log[s].file])
                /\ queue[log[s].file][log[s].by].frozen
           /\ \A f \in Files : heads[f].revision \in Nat
                               /\ heads[f].revision <= Len(log)
<1>1. /\ cursor \in Nat /\ Len(log) \in Nat /\ Len(inbox) \in Nat
      /\ cursor <= Len(inbox) /\ Len(inbox) <= Len(log)
  BY DEF SyncInv, TypeOK, Positions
<1>2. \A s \in 1..Len(log) : log[s].file \in Files /\ log[s].by \in Nat
  <2>1. \A s \in 1..Len(log) : log[s] \in Revisions
    BY DEF SyncInv, TypeOK
  <2> QED
    BY <2>1 DEF Revisions
<1>3. \A s \in 1..Len(inbox) : s \in 1..Len(log) /\ inbox[s] \in Entries
  BY <1>1 DEF SyncInv, TypeOK
<1>4. \A f \in Files : Len(queue[f]) \in Nat
  BY DEF SyncInv, TypeOK
<1>5. \A f \in Files : \A i \in 1..Len(queue[f]) :
         queue[f][i] \in Jobs /\ queue[f][i].base \in Nat
  <2>1. \A f \in Files : \A i \in 1..Len(queue[f]) : queue[f][i] \in Jobs
    BY DEF SyncInv, TypeOK
  <2> QED
    BY <2>1 DEF Jobs
<1>6. \A s \in 1..Len(log) : Own(s) =>
         /\ log[s].by \in 1..Len(queue[log[s].file])
         /\ queue[log[s].file][log[s].by].frozen
  BY DEF SyncInv, OwnOps
<1>7. ASSUME NEW f \in Files
      PROVE  heads[f].revision \in Nat /\ heads[f].revision <= Len(log)
  <2>1. Dealt(f) \subseteq 1..Len(log)
    BY DEF Dealt, RevisionsOf
  <2>2. heads[f].revision = 0 \/ heads[f].revision \in 1..Len(log)
    BY <1>1, <2>1, LatestIsGreatest DEF SyncInv, HeadsLatest
  <2> QED
    BY <1>1, <2>2
<1> QED
  BY <1>1, <1>2, <1>3, <1>4, <1>5, <1>6, <1>7

\* What was reviewed, acknowledged and frozen stays so: no step but the posting
\* of a commit can give an operation a base.
LEMMA BasesKept ==
    ASSUME SyncInv, Records, cursor' \in Nat, cursor <= cursor',
           \A s \in 1..Len(log) : log'[s] = log[s],
           \A s \in 1..cursor :
               /\ inbox[s].state = "applied" => inbox'[s].state = "applied"
               /\ inbox[s].conflict = "resolved" => inbox'[s].conflict = "resolved",
           \A f \in Files : \A i \in 1..Len(queue[f]) :
               queue[f][i].stage = "acked" => queue'[f][i].stage = "acked",
           \A f \in Files : \A i \in 1..Len(queue'[f]) : queue'[f][i].frozen =>
               /\ i \in 1..Len(queue[f]) /\ queue[f][i].frozen
               /\ queue'[f][i].base = queue[f][i].base
    PROVE  BasesReviewed'
<1> SUFFICES ASSUME NEW f \in Files, NEW i \in 1..Len(queue'[f]),
                    queue'[f][i].frozen, queue'[f][i].base # 0
             PROVE  LET b == queue'[f][i].base IN
                    \/ log'[b].by # Other /\ queue'[f][log'[b].by].stage = "acked"
                    \/ /\ b <= cursor'
                       /\ inbox'[b].state = "applied" \/ inbox'[b].conflict = "resolved"
  BY DEF BasesReviewed, Own, Reviewed
<1> DEFINE b == queue[f][i].base
<1>1. /\ i \in 1..Len(queue[f]) /\ queue[f][i].frozen
      /\ queue'[f][i].base = b /\ b # 0
  OBVIOUS
<1>2. b \in 1..Len(log) /\ log[b].file = f /\ log'[b] = log[b]
  BY <1>1 DEF Records, FrozenJobs, RevisionsOf
<1>3. \/ Own(b) /\ queue[f][log[b].by].stage = "acked"
      \/ b <= cursor /\ Reviewed(b)
  BY <1>1 DEF Records, BasesReviewed
<1> HIDE DEF b
<1>4. CASE Own(b) /\ queue[f][log[b].by].stage = "acked"
  <2>1. log[b].by \in 1..Len(queue[f])
    BY <1>2, <1>4 DEF SyncInv, OwnOps
  <2> QED
    BY SMTT(20), <1>1, <1>2, <1>4, <2>1 DEF Own
<1>5. CASE b <= cursor /\ Reviewed(b)
  <2>1. b \in 1..cursor /\ b <= cursor'
    BY <1>2, <1>5 DEF SyncInv, TypeOK
  <2> QED
    BY <1>1, <1>5, <2>1 DEF Reviewed
<1> QED
  BY <1>3, <1>4, <1>5

\* Old operations are kept, but for sync_capture; new ones wait.
QueueExtends ==
    \A f \in Files :
        /\ \A i \in 1..Len(queue[f]) :
             /\ i \in 1..Len(queue'[f])
             /\ queue'[f][i].frozen = queue[f][i].frozen
             /\ queue'[f][i].base = queue[f][i].base
             /\ \/ queue'[f][i].stage = queue[f][i].stage
                \/ queue[f][i].stage = "pending" /\ queue'[f][i].stage = "queued"
        /\ \A i \in 1..Len(queue'[f]) : i \notin 1..Len(queue[f]) =>
             ~queue'[f][i].frozen /\ queue'[f][i].stage = "pending"

\* Old entries keep their state, conflict and choice; new ones are pending.
InboxExtends ==
    /\ \A s \in 1..Len(inbox) :
         /\ s \in 1..Len(inbox')
         /\ inbox'[s].state = inbox[s].state
         /\ inbox'[s].conflict = inbox[s].conflict
         /\ inbox'[s].decision.choice = inbox[s].decision.choice
    /\ \A s \in 1..Len(inbox') : s \notin 1..Len(inbox) =>
         /\ inbox'[s].state = "pending" /\ inbox'[s].conflict = "none"
         /\ inbox'[s].decision.choice = "none"

\* A step that only adds operations and entries keeps the records.
LEMMA RecordsExtend ==
    ASSUME SyncInv, SyncInv', Records, UNCHANGED <<log, heads, cursor>>,
           wire' \subseteq wire, QueueExtends, InboxExtends
    PROVE  Records' /\ \A f \in Files : Open(f)' = Open(f)
<1>0. /\ cursor \in Nat /\ Len(log) \in Nat /\ Len(inbox) \in Nat
      /\ cursor <= Len(inbox) /\ Len(inbox) <= Len(log)
      /\ \A s \in 1..Len(log) : log[s].file \in Files /\ log[s].by \in Nat
      /\ \A s \in 1..Len(inbox) : s \in 1..Len(log)
      /\ \A s \in 1..Len(log) : Own(s) =>
           /\ log[s].by \in 1..Len(queue[log[s].file])
           /\ queue[log[s].file][log[s].by].frozen
      /\ \A f \in Files : heads[f].revision \in Nat
                          /\ heads[f].revision <= Len(log)
      /\ \A f \in Files : \A i \in 1..Len(queue[f]) : queue[f][i].base \in Nat
  BY Tables
<1>1. /\ log' = log /\ heads' = heads /\ cursor' = cursor
      /\ \A s \in 1..Len(inbox') : s \in 1..Len(log)
  BY DEF SyncInv, TypeOK, Positions
<1>2. \A f \in Files : Open(f)' = Open(f)
  BY <1>1 DEF Open, InboxExtends
<1>3. \A s : Own(s)' <=> Own(s)
  BY <1>1 DEF Own
<1>12. \A s \in 1..Len(log) : Own(s) =>
         LET old == queue[log[s].file][log[s].by]
             new == queue'[log[s].file][log[s].by] IN
         new.base = old.base /\ new.stage = old.stage
  <2> SUFFICES ASSUME NEW s \in 1..Len(log), Own(s)
               PROVE  LET old == queue[log[s].file][log[s].by]
                          new == queue'[log[s].file][log[s].by] IN
                      new.base = old.base /\ new.stage = old.stage
    OBVIOUS
  <2> DEFINE f == log[s].file
             i == log[s].by
  <2>1. f \in Files /\ i \in 1..Len(queue[f]) /\ queue[f][i].frozen
    BY <1>0
  <2> HIDE DEF f, i
  <2>2. queue[f][i].stage # "pending"
    BY <2>1 DEF Records, FrozenJobs
  <2>3. queue'[f][i].base = queue[f][i].base /\ queue'[f][i].stage = queue[f][i].stage
    BY <2>1, <2>2 DEF QueueExtends
  <2> QED
    BY <2>3 DEF f, i
<1>4. FrozenJobs'
  <2>1. \A f : RevisionsOf(f)' = RevisionsOf(f)
    BY <1>1 DEF RevisionsOf
  <2> SUFFICES ASSUME NEW f \in Files, NEW i \in 1..Len(queue'[f]),
                      queue'[f][i].frozen
               PROVE  /\ queue'[f][i].stage \notin {"pending", "queued"}
                      /\ queue'[f][i].base <= heads[f].revision
                      /\ queue'[f][i].base # 0 => queue'[f][i].base \in RevisionsOf(f)
    BY <1>1, <2>1 DEF FrozenJobs
  <2>2. /\ i \in 1..Len(queue[f]) /\ queue[f][i].frozen
        /\ queue'[f][i].base = queue[f][i].base
        /\ \/ queue'[f][i].stage = queue[f][i].stage
           \/ queue[f][i].stage = "pending"
    BY DEF QueueExtends
  <2> QED
    BY <2>2 DEF Records, FrozenJobs
<1>5. RefusedWire'
  <2>1. \A f : RevisionsOf(f)' = RevisionsOf(f)
    BY <1>1 DEF RevisionsOf
  <2> SUFFICES ASSUME NEW f \in Files, NEW i \in 1..Len(queue'[f]),
                      <<f, i>> \in wire', queue'[f][i].stage \in {"conflict", "archived"}
               PROVE  \E t \in RevisionsOf(f) : queue'[f][i].base < t
    BY <2>1 DEF RefusedWire
  <2>2. i \in 1..Len(queue[f]) /\ queue'[f][i].base = queue[f][i].base
        /\ queue[f][i].stage \in {"conflict", "archived"}
    BY DEF QueueExtends
  <2> QED
    BY <2>2 DEF Records, RefusedWire
<1>6. OwnBases'
  <2> SUFFICES ASSUME NEW s \in 1..Len(log), NEW t \in 1..Len(log), Own(s),
                      t < s, log[t].file = log[s].file
               PROVE  t <= queue'[log[s].file][log[s].by].base
    BY <1>1, <1>3 DEF OwnBases
  <2> QED
    BY <1>12 DEF Records, OwnBases
<1>7. OwnStages'
  <2> SUFFICES ASSUME NEW s \in 1..Len(log), Own(s)
               PROVE  /\ queue'[log[s].file][log[s].by].stage \in {"committing", "acked"}
                      /\ s <= cursor => queue'[log[s].file][log[s].by].stage = "acked"
    BY <1>1, <1>3 DEF OwnStages
  <2> QED
    BY <1>12 DEF Records, OwnStages
<1>8. ConflictLife'
  <2> SUFFICES ASSUME NEW s \in 1..Len(inbox')
               PROVE  /\ inbox'[s].conflict # "none" => ~Own(s)
                      /\ inbox'[s].state = "conflict" => inbox'[s].conflict # "none"
                      /\ inbox'[s].decision.choice # "none" => inbox'[s].conflict # "none"
                      /\ s > cursor => /\ inbox'[s].conflict \in {"none", "open"}
                                       /\ inbox'[s].decision.choice = "none"
    BY <1>1, <1>3 DEF ConflictLife
  <2>1. CASE s \in 1..Len(inbox)
    BY <2>1 DEF Records, ConflictLife, InboxExtends
  <2>2. CASE s \notin 1..Len(inbox)
    BY <2>2 DEF InboxExtends
  <2> QED
    BY <2>1, <2>2
<1>9. Superseded'
  <2> SUFFICES ASSUME NEW s \in 1..Len(inbox'), inbox'[s].conflict = "superseded"
               PROVE  \/ heads[log[s].file].revision > s
                      \/ \E t \in Open(log[s].file) : t > s
    BY <1>0, <1>1, <1>2 DEF Superseded
  <2>1. s \in 1..Len(inbox) /\ inbox[s].conflict = "superseded"
    BY DEF InboxExtends
  <2> QED
    BY <2>1 DEF Records, Superseded
<1>10. OpenIsQuiet'
  BY <1>2 DEF Records, OpenIsQuiet, QueueExtends
<1>11. BasesReviewed'
  <2>1. \A f \in Files : \A i \in 1..Len(queue[f]) :
          queue[f][i].stage = "acked" => queue'[f][i].stage = "acked"
    BY DEF QueueExtends
  <2>2. \A f \in Files : \A i \in 1..Len(queue'[f]) : queue'[f][i].frozen =>
          /\ i \in 1..Len(queue[f]) /\ queue[f][i].frozen
          /\ queue'[f][i].base = queue[f][i].base
    BY DEF QueueExtends
  <2>3. \A s \in 1..cursor : inbox'[s].state = inbox[s].state
                             /\ inbox'[s].conflict = inbox[s].conflict
    BY <1>0 DEF InboxExtends
  <2> QED
    BY <1>0, <1>1, <2>1, <2>2, <2>3, BasesKept
<1> QED
  BY <1>2, <1>4, <1>5, <1>6, <1>7, <1>8, <1>9, <1>10, <1>11 DEF Records

-----------------------------------------------------------------------------
(* Steps that change the records *)

\* The server appends a revision: another device's, or an operation of this
\* one that was not given up, on the head of its file.
LEMMA RecordsAppend ==
    ASSUME SyncInv, SyncInv', Records, UNCHANGED <<queue, inbox, heads, cursor>>,
           wire' \subseteq wire, NEW r \in Revisions, log' = Append(log, r),
           \/ r.by = Other
           \/ /\ r.by \in 1..Len(queue[r.file]) /\ queue[r.file][r.by].frozen
              /\ queue[r.file][r.by].stage \notin {"conflict", "archived"}
              /\ queue[r.file][r.by].base = ServerHead(r.file)
    PROVE  Records' /\ \A f \in Files : Open(f)' = Open(f)
<1> DEFINE n == Len(log)
<1>1. /\ n \in Nat /\ Len(log') = n + 1 /\ log'[n + 1] = r
      /\ \A s \in 1..n : log'[s] = log[s]
      /\ 1..Len(log') = 1..n \cup {n + 1}
      /\ queue' = queue /\ inbox' = inbox /\ heads' = heads /\ cursor' = cursor
  BY DEF SyncInv, TypeOK
<1>2. /\ cursor \in Nat /\ cursor <= n
      /\ \A s \in 1..Len(inbox) : s \in 1..n /\ log[s].file \in Files
  BY SMTT(20), Tables
<1>3. r.file \in Files
  BY DEF Revisions
<1>4. \A f : RevisionsOf(f) \subseteq RevisionsOf(f)'
  BY <1>1 DEF RevisionsOf
<1>5. \A f \in Files : Open(f)' = Open(f)
  BY <1>1, <1>2 DEF Open
<1>6. \A s \in 1..n : Own(s)' <=> Own(s)
  BY <1>1 DEF Own
<1> HIDE DEF n
<1>7. FrozenJobs'
  BY <1>1, <1>4 DEF Records, FrozenJobs
<1>8. RefusedWire'
  BY <1>1, <1>4 DEF Records, RefusedWire
<1>9. OwnBases'
  <2> SUFFICES ASSUME NEW s \in 1..Len(log'), NEW t \in 1..Len(log'), Own(s)',
                      t < s, log'[t].file = log'[s].file
               PROVE  t <= queue[log'[s].file][log'[s].by].base
    BY <1>1 DEF OwnBases
  <2>1. t \in 1..n
    BY <1>1
  <2>2. CASE s \in 1..n
    BY <1>1, <1>6, <2>1, <2>2 DEF Records, OwnBases, n
  <2>3. CASE s = n + 1
    <3>1. t \in RevisionsOf(r.file)
      BY <1>1, <2>1, <2>3 DEF RevisionsOf, n
    <3>2. RevisionsOf(r.file) \subseteq 1..n
      BY DEF RevisionsOf, n
    <3>3. t <= ServerHead(r.file)
      BY SMTT(30), <1>1, <3>1, <3>2, LatestIsGreatest DEF ServerHead
    <3> QED
      BY <1>1, <2>3, <3>3 DEF Own
  <2> QED
    BY SMTT(30), <1>1, <2>2, <2>3
<1>10. OwnStages'
  <2> SUFFICES ASSUME NEW s \in 1..Len(log'), Own(s)'
               PROVE  /\ queue[log'[s].file][log'[s].by].stage \in {"committing", "acked"}
                      /\ s <= cursor => queue[log'[s].file][log'[s].by].stage = "acked"
    <3>1. queue' = queue /\ cursor' = cursor
      OBVIOUS
    <3> QED
      BY ZenonT(40), <3>1 DEF OwnStages
  <2>1. CASE s \in 1..n
    BY <1>1, <1>6, <2>1 DEF Records, OwnStages, n
  <2>2. CASE s = n + 1
    <3>1. /\ r.by \in 1..Len(queue[r.file]) /\ queue[r.file][r.by].frozen
          /\ queue[r.file][r.by].stage \notin {"conflict", "archived"}
      BY <1>1, <2>2 DEF Own
    <3>2. queue[r.file][r.by].stage \in Stages
      <4>1. queue[r.file] \in Seq(Jobs)
        BY <1>3 DEF SyncInv, TypeOK
      <4>2. queue[r.file][r.by] \in Jobs
        BY <3>1, <4>1
      <4> QED
        BY <4>2 DEF Jobs
    <3>3. queue[r.file][r.by].stage \notin {"pending", "queued"}
      BY <1>3, <3>1 DEF Records, FrozenJobs
    <3> QED
      BY SMTT(20), <1>1, <1>2, <2>2, <3>1, <3>2, <3>3 DEF Stages
  <2>3. s \in 1..n \/ s = n + 1
    BY <1>1
  <2> QED
    BY <2>1, <2>2, <2>3, Zenon
<1>11. ConflictLife'
  BY <1>1, <1>2, <1>6 DEF Records, ConflictLife
<1>12. Superseded'
  BY <1>1, <1>2, <1>5 DEF Records, Superseded
<1>13. OpenIsQuiet'
  BY <1>1, <1>5 DEF Records, OpenIsQuiet
<1>14. BasesReviewed'
  BY <1>1, <1>2, BasesKept DEF n
<1> QED
  BY <1>5, <1>7, <1>8, <1>9, <1>10, <1>11, <1>12, <1>13, <1>14 DEF Records

\* sync_commit_payload freezes the head as the base: with no open conflict of
\* the file the head was dealt with.
LEMMA RecordsPost ==
    ASSUME SyncInv, SyncInv', Records, Work, NEW f \in Files,
           NEW i \in 1..Len(queue[f]), Post(f, i)
    PROVE  Records'
<1> DEFINE job == queue[f][i]
<1>1. /\ log' = log /\ inbox' = inbox /\ heads' = heads /\ cursor' = cursor
      /\ wire' = wire \cup {<<f, i>>}
      /\ job.stage \notin {"archived", "conflict"}
      /\ queue' = [queue EXCEPT ![f][i] = Frozen(@, f)]
  BY DEF Post
<1>2. Open(f) = {}
  BY DEF Post, Work, PickedIsClear
<1>3. /\ queue \in [Files -> Seq(Jobs)] /\ job \in Jobs /\ heads[f] \in Heads
      /\ job.base \in Nat /\ heads[f].revision \in Nat
  <2>1. queue \in [Files -> Seq(Jobs)] /\ job \in Jobs /\ heads[f] \in Heads
    BY DEF SyncInv, TypeOK
  <2> QED
    BY <2>1 DEF Jobs, Heads
<1>4. /\ \A g \in Files : Len(queue'[g]) = Len(queue[g])
      /\ \A g \in Files : \A j \in 1..Len(queue[g]) :
           <<g, j>> # <<f, i>> => queue'[g][j] = queue[g][j]
      /\ queue'[f][i] = Frozen(job, f)
  BY <1>1, <1>3
<1>5. /\ job.frozen => queue'[f][i] = job
      /\ ~job.frozen => /\ queue'[f][i].stage = "committing"
                        /\ queue'[f][i].base = heads[f].revision
      /\ queue'[f][i].frozen
  BY <1>3, <1>4 DEF Frozen, Jobs
<1> HIDE DEF job
<1>6. Dealt(f) \subseteq 1..Len(log) /\ Len(log) \in Nat
  BY DEF Dealt, RevisionsOf, SyncInv, TypeOK
<1>7. heads[f].revision # 0 => heads[f].revision \in Dealt(f)
  BY <1>6, LatestIsGreatest DEF SyncInv, HeadsLatest
<1>8. \A s : /\ (Own(s)' <=> Own(s)) 
             /\ RevisionsOf(s)' = RevisionsOf(s) /\ Open(s)' = Open(s)
  BY <1>1 DEF Own, RevisionsOf, Open
<1>9. \A s \in 1..Len(log) : Own(s) =>
         /\ log[s].file \in Files /\ log[s].by \in 1..Len(queue[log[s].file])
         /\ queue'[log[s].file][log[s].by] = queue[log[s].file][log[s].by]
  <2>1. \A s \in 1..Len(log) : Own(s) =>
         /\ log[s].file \in Files /\ log[s].by \in 1..Len(queue[log[s].file])
         /\ queue[log[s].file][log[s].by].frozen
    BY Tables
  <2> QED
    BY <1>4, <1>5, <2>1 DEF job
<1>10. FrozenJobs'
  <2> SUFFICES ASSUME NEW g \in Files, NEW j \in 1..Len(queue[g]), queue'[g][j].frozen
               PROVE  /\ queue'[g][j].stage \notin {"pending", "queued"}
                      /\ queue'[g][j].base <= heads[g].revision
                      /\ queue'[g][j].base # 0 => queue'[g][j].base \in RevisionsOf(g)
    BY <1>1, <1>4, <1>8 DEF FrozenJobs
  <2>1. CASE queue'[g][j] = queue[g][j]
    BY <2>1 DEF Records, FrozenJobs
  <2>2. CASE g = f /\ j = i /\ ~job.frozen
    BY <1>3, <1>5, <1>7, <2>2 DEF Dealt
  <2> QED
    BY <1>4, <1>5, <2>1, <2>2 DEF job
<1>11. RefusedWire'
  <2> SUFFICES ASSUME NEW g \in Files, NEW j \in 1..Len(queue[g]), <<g, j>> \in wire',
                      queue'[g][j].stage \in {"conflict", "archived"}
               PROVE  \E t \in RevisionsOf(g) : queue'[g][j].base < t
    BY <1>4, <1>8 DEF RefusedWire
  <2>1. <<g, j>> # <<f, i>>
    BY <1>1, <1>5
  <2> QED
    BY <1>1, <1>4, <2>1 DEF Records, RefusedWire
<1>12. OwnBases'
  <2> SUFFICES ASSUME NEW s \in 1..Len(log), NEW t \in 1..Len(log), Own(s),
                      t < s, log[t].file = log[s].file
               PROVE  t <= queue'[log[s].file][log[s].by].base
    BY <1>1, <1>8 DEF OwnBases
  <2> QED
    BY <1>9 DEF Records, OwnBases
<1>13. OwnStages'
  <2> SUFFICES ASSUME NEW s \in 1..Len(log), Own(s)
               PROVE  /\ queue'[log[s].file][log[s].by].stage \in {"committing", "acked"}
                      /\ s <= cursor => queue'[log[s].file][log[s].by].stage = "acked"
    BY <1>1, <1>8 DEF OwnStages
  <2> QED
    BY <1>9 DEF Records, OwnStages
<1>14. ConflictLife' /\ Superseded'
  BY <1>1, <1>8 DEF Records, ConflictLife, Superseded
<1>15. OpenIsQuiet'
  BY <1>2, <1>4, <1>8 DEF Records, OpenIsQuiet
<1>16. BasesReviewed'
  <2>0. \A g \in Files : Len(queue'[g]) = Len(queue[g])
    BY <1>4
  <2> SUFFICES ASSUME NEW g \in Files, NEW j \in 1..Len(queue[g]), queue'[g][j].frozen,
                      queue'[g][j].base # 0
               PROVE  LET b == queue'[g][j].base IN
                      \/ log'[b].by # Other /\ queue'[g][log'[b].by].stage = "acked"
                      \/ /\ b <= cursor'
                         /\ inbox'[b].state = "applied" \/ inbox'[b].conflict = "resolved"
    BY <2>0 DEF BasesReviewed, Own, Reviewed
  <2> SUFFICES LET b == queue'[g][j].base IN
                      \/ Own(b) /\ queue'[g][log[b].by].stage = "acked"
                      \/ b <= cursor /\ Reviewed(b)
    BY <1>1, Zenon DEF Own, Reviewed
  <2>1. \A h \in Files, k \in Nat : k \in 1..Len(queue[h]) /\ queue[h][k].stage = "acked"
          /\ queue[h][k].frozen => queue'[h][k].stage = "acked"
    BY <1>4, <1>5 DEF job
  <2>2. CASE queue'[g][j] = queue[g][j]
    <3> DEFINE b == queue[g][j].base
    <3>1. b \in 1..Len(log) /\ log[b].file = g
      BY <2>2 DEF Records, FrozenJobs, RevisionsOf
    <3>2. \/ Own(b) /\ queue[g][log[b].by].stage = "acked"
          \/ b <= cursor /\ Reviewed(b)
      BY <2>2 DEF Records, BasesReviewed
    <3> QED
      BY <1>9, <2>2, <3>1, <3>2
  <2>3. CASE g = f /\ j = i /\ ~job.frozen
    <3> DEFINE b == heads[f].revision
    <3>1. queue'[g][j].base = b /\ b # 0 /\ b \in Dealt(f)
      BY <1>5, <1>7, <2>3
    <3> HIDE DEF b
    <3>2. b \in 1..Len(log) /\ log[b].file = f
      BY <3>1 DEF Dealt, RevisionsOf
    <3>3. CASE Own(b)
      <4>1. queue[f][log[b].by].stage = "acked"
        BY <3>1, <3>2, <3>3 DEF Dealt, AckedOps, Records, OwnStages
      <4> QED
        BY <1>9, <2>3, <3>1, <3>2, <3>3, <4>1
    <3>4. CASE ~Own(b)
      <4>1. b <= cursor
        BY <3>1, <3>4 DEF Dealt
      <4>2. b \in 1..Len(inbox)
        BY <3>2, <4>1 DEF SyncInv, TypeOK, Positions
      <4>3. inbox[b].state \in {"applied", "conflict"} /\ inbox[b] \in Entries
        <5>1. inbox[b] \in Entries
          BY <4>2 DEF SyncInv, TypeOK
        <5>2. inbox[b].state # "pending"
          BY <4>1, <4>2 DEF SyncInv, Positions
        <5> QED
          BY <5>1, <5>2 DEF Entries
      <4>4. inbox[b].conflict # "open"
        BY <1>2, <3>2, <4>2 DEF Open
      <4>5. inbox[b].conflict # "superseded"
        BY <1>2, <1>3, <3>2, <4>2 DEF Records, Superseded, b
      <4>6. inbox[b].state = "conflict" => inbox[b].conflict = "resolved"
        BY <4>2, <4>3, <4>4, <4>5 DEF Records, ConflictLife, Entries
      <4> QED
        BY <3>1, <4>1, <4>3, <4>6 DEF Reviewed
    <3> QED
      BY <3>3, <3>4
  <2> QED
    BY <1>4, <1>5, <2>2, <2>3 DEF job
<1> QED
  BY <1>10, <1>11, <1>12, <1>13, <1>14, <1>15, <1>16 DEF Records

\* The steps that change the stages of operations and nothing else of them.
StageSteps ==
    \A f \in Files :
        /\ Len(queue'[f]) = Len(queue[f])
        /\ \A i \in 1..Len(queue[f]) :
             /\ queue'[f][i].frozen = queue[f][i].frozen
             /\ queue'[f][i].base = queue[f][i].base
             /\ \/ queue'[f][i].stage = queue[f][i].stage
                \/ /\ queue[f][i].stage # "acked"
                   /\ queue'[f][i].stage \in {"acked", "conflict", "archived"}
HeadsGrow == \A f \in Files : heads[f].revision <= heads'[f].revision
ReviewsKept ==
    \A s \in 1..cursor :
        /\ inbox[s].state = "applied" => inbox'[s].state = "applied"
        /\ inbox[s].conflict = "resolved" => inbox'[s].conflict = "resolved"

\* A change of stages leaves the bases as they are.
LEMMA StagesKeepBases ==
    ASSUME SyncInv, SyncInv', Records, log' = log, cursor <= cursor',
           StageSteps, HeadsGrow, ReviewsKept
    PROVE  /\ FrozenJobs' /\ OwnBases' /\ BasesReviewed'
           /\ \A s : (Own(s)' <=> Own(s)) /\ RevisionsOf(s)' = RevisionsOf(s)
<1>1. \A s : (Own(s)' <=> Own(s)) /\ RevisionsOf(s)' = RevisionsOf(s)
  BY DEF Own, RevisionsOf
<1>2. /\ \A f \in Files : heads[f].revision \in Nat
      /\ \A f \in Files : \A i \in 1..Len(queue[f]) : queue[f][i].base \in Nat
      /\ \A s \in 1..Len(log) : log[s].file \in Files
      /\ \A s \in 1..Len(log) : Own(s) => log[s].by \in 1..Len(queue[log[s].file])
  BY Tables
<1>3. /\ heads' \in [Files -> Heads] /\ cursor' \in Nat
      /\ \A f \in Files : heads'[f].revision \in Nat
  <2>1. heads' \in [Files -> Heads] /\ cursor' \in Nat
    BY DEF SyncInv, TypeOK
  <2> QED
    BY <2>1 DEF Heads
<1>4. FrozenJobs'
  <2> SUFFICES ASSUME NEW f \in Files, NEW i \in 1..Len(queue[f]), queue'[f][i].frozen
               PROVE  /\ queue'[f][i].stage \notin {"pending", "queued"}
                      /\ queue'[f][i].base <= heads'[f].revision
                      /\ queue'[f][i].base # 0 => queue'[f][i].base \in RevisionsOf(f)
    BY <1>1 DEF FrozenJobs, StageSteps
  <2>1. /\ queue[f][i].frozen /\ queue'[f][i].base = queue[f][i].base
        /\ \/ queue'[f][i].stage = queue[f][i].stage
           \/ queue'[f][i].stage \in {"acked", "conflict", "archived"}
    BY DEF StageSteps
  <2>2. /\ queue[f][i].stage \notin {"pending", "queued"}
        /\ queue[f][i].base <= heads[f].revision
        /\ queue[f][i].base # 0 => queue[f][i].base \in RevisionsOf(f)
    BY <2>1 DEF Records, FrozenJobs
  <2> QED
    BY <1>2, <1>3, <2>1, <2>2 DEF HeadsGrow
<1>5. OwnBases'
  <2> SUFFICES ASSUME NEW s \in 1..Len(log), NEW t \in 1..Len(log), Own(s),
                      t < s, log[t].file = log[s].file
               PROVE  t <= queue'[log[s].file][log[s].by].base
    BY <1>1 DEF OwnBases
  <2>1. queue'[log[s].file][log[s].by].base = queue[log[s].file][log[s].by].base
    BY <1>2 DEF StageSteps
  <2> QED
    BY <2>1 DEF Records, OwnBases
<1>6. BasesReviewed'
  <2>1. \A f \in Files : \A i \in 1..Len(queue[f]) :
          queue[f][i].stage = "acked" => queue'[f][i].stage = "acked"
    BY DEF StageSteps
  <2>2. \A f \in Files : \A i \in 1..Len(queue'[f]) : queue'[f][i].frozen =>
          /\ i \in 1..Len(queue[f]) /\ queue[f][i].frozen
          /\ queue'[f][i].base = queue[f][i].base
    BY DEF StageSteps
  <2> QED
    BY <1>3, <2>1, <2>2, BasesKept DEF ReviewsKept
<1> QED
  BY <1>1, <1>4, <1>5, <1>6

\* sync_ack of an operation that the log has.
LEMMA RecordsAck ==
    ASSUME SyncInv, SyncInv', Records, UNCHANGED <<log, cursor, inbox>>,
           wire' \subseteq wire, NEW f \in Files, NEW i \in 1..Len(queue[f]),
           NEW s \in Committed(f, i), Acked(f, i, s)
    PROVE  /\ Records' /\ queue'[f][i].stage = "acked"
           /\ \A g \in Files : Open(g)' = Open(g)
<1>1. /\ log' = log /\ cursor' = cursor /\ inbox' = inbox
      /\ queue' = [queue EXCEPT ![f][i].stage = "acked"]
      /\ heads' = Newer(f, s, queue[f][i].content)
  BY DEF Acked
<1>2. /\ queue \in [Files -> Seq(Jobs)] /\ queue[f][i] \in Jobs /\ s \in Nat
      /\ cursor \in Nat /\ TypeOK
  BY DEF SyncInv, TypeOK, Committed, RevisionsOf
<1>3. /\ \A g \in Files : Len(queue'[g]) = Len(queue[g])
      /\ \A g \in Files : \A j \in 1..Len(queue[g]) :
           <<g, j>> # <<f, i>> => queue'[g][j] = queue[g][j]
      /\ queue'[f][i] = [queue[f][i] EXCEPT !.stage = "acked"]
  BY <1>1, <1>2
<1>4. /\ queue'[f][i].frozen = queue[f][i].frozen
      /\ queue'[f][i].base = queue[f][i].base /\ queue'[f][i].stage = "acked"
  BY <1>2, <1>3 DEF Jobs
<1>5. StageSteps
  BY <1>3, <1>4 DEF StageSteps
<1>6. HeadsGrow
  <2>1. queue[f][i].content \in Hashes /\ heads[f].revision \in Nat
    BY <1>2, Tables DEF Jobs
  <2>2. \A g \in Files : heads[g].revision \in Nat
    BY Tables
  <2> QED
    BY <1>1, <1>2, <2>1, <2>2, NewerHead DEF HeadsGrow
<1>7. ReviewsKept
  BY <1>1 DEF ReviewsKept
<1>8. /\ FrozenJobs' /\ OwnBases' /\ BasesReviewed'
      /\ \A t : (Own(t)' <=> Own(t)) /\ RevisionsOf(t)' = RevisionsOf(t)
  BY <1>1, <1>2, <1>5, <1>6, <1>7, StagesKeepBases
<1>9. \A g : Open(g)' = Open(g)
  BY <1>1 DEF Open
<1>10. RefusedWire'
  <2> SUFFICES ASSUME NEW g \in Files, NEW j \in 1..Len(queue[g]), <<g, j>> \in wire,
                      queue'[g][j].stage \in {"conflict", "archived"}
               PROVE  \E t \in RevisionsOf(g) : queue'[g][j].base < t
    <3>1. \A g \in Files : Len(queue'[g]) = Len(queue[g])
      BY <1>3
    <3>2. \A g : RevisionsOf(g)' = RevisionsOf(g)
      BY <1>1 DEF RevisionsOf
    <3> QED
      BY <3>1, <3>2 DEF RefusedWire
  <2>1. g # f \/ j # i
    BY <1>4
  <2>2. queue'[g][j] = queue[g][j]
    BY <1>3, <2>1
  <2> QED
    BY <2>2 DEF Records, RefusedWire
<1>11. OwnStages'
  <2> SUFFICES ASSUME NEW t \in 1..Len(log), Own(t)
               PROVE  /\ queue'[log[t].file][log[t].by].stage \in {"committing", "acked"}
                      /\ t <= cursor => queue'[log[t].file][log[t].by].stage = "acked"
    BY <1>1, <1>8 DEF OwnStages
  <2>1. log[t].file \in Files /\ log[t].by \in 1..Len(queue[log[t].file])
    BY Tables
  <2>2. CASE log[t].file = f /\ log[t].by = i
    BY <1>4, <2>2
  <2>3. CASE ~(log[t].file = f /\ log[t].by = i)
    <3>1. queue'[log[t].file][log[t].by] = queue[log[t].file][log[t].by]
      BY <1>3, <2>1, <2>3
    <3> QED
      BY <3>1 DEF Records, OwnStages
  <2> QED
    BY <2>2, <2>3
<1>12. ConflictLife'
  BY <1>1, <1>8 DEF Records, ConflictLife
<1>13. Superseded'
  <2>1. \A g \in Files : heads[g].revision \in Nat /\ heads'[g].revision \in Nat
    <3>1. \A g \in Files : heads[g] \in Heads /\ heads'[g] \in Heads
      BY DEF SyncInv, TypeOK
    <3> QED
      BY <3>1 DEF Heads
  <2>2. \A t \in 1..Len(inbox) : log[t].file \in Files /\ t \in Nat
    BY Tables
  <2> SUFFICES ASSUME NEW t \in 1..Len(inbox), inbox[t].conflict = "superseded"
               PROVE  \/ heads'[log[t].file].revision > t
                      \/ \E u \in Open(log[t].file) : u > t
    BY <1>1, <1>9 DEF Superseded
  <2>3. \/ heads[log[t].file].revision > t
        \/ \E u \in Open(log[t].file) : u > t
    BY DEF Records, Superseded
  <2> QED
    BY <1>6, <2>1, <2>2, <2>3 DEF HeadsGrow
<1>14. OpenIsQuiet'
  <2> SUFFICES ASSUME NEW g \in Files, Open(g) # {}, NEW j \in 1..Len(queue[g])
               PROVE  queue'[g][j].stage # "committing"
    BY <1>3, <1>9 DEF OpenIsQuiet
  <2>1. queue[g][j].stage # "committing"
    BY DEF Records, OpenIsQuiet
  <2> QED
    BY <1>5, <2>1 DEF StageSteps
<1> QED
  BY <1>4, <1>8, <1>9, <1>10, <1>11, <1>12, <1>13, <1>14 DEF Records

\* sync_preserve_conflict: the revision is another device's, newer than every
\* base, so no operation that the server accepted is stopped by it.
LEMMA RecordsConflict ==
    ASSUME SyncInv, SyncInv', Records, Work, NEW s \in 1..Len(inbox), ApplyConflict(s)
    PROVE  /\ Records' /\ inbox'[s].conflict = "open" /\ ~Own(s)
           /\ Len(inbox') = Len(inbox)
<1>0. PICK f \in Files : f = log[s].file
  BY EntryRevision DEF SyncInv
<1>1. /\ log' = log /\ heads' = heads /\ cursor' = cursor /\ wire' = wire
      /\ ~OwnRevision(s) /\ ~AlreadyApplied(s)
      /\ inbox' = [t \in DOMAIN inbox |->
                     IF t = s /\ inbox[t].conflict = "none"
                     THEN [inbox[t] EXCEPT !.conflict = "open"]
                     ELSE IF t < s /\ t \in Open(f)
                     THEN [inbox[t] EXCEPT !.conflict = "superseded"]
                     ELSE inbox[t]]
      /\ queue' = [queue EXCEPT ![f] = [i \in DOMAIN @ |->
                     IF @[i].stage \in {"queued", "committing"}
                     THEN [@[i] EXCEPT !.stage = "conflict"] ELSE @[i]]]
  BY <1>0 DEF ApplyConflict, network
<1>2. s = cursor + 1
  BY DEF ApplyConflict, Applying, Work, ApplyWork
<1>3. /\ inbox \in Seq(Entries) /\ queue \in [Files -> Seq(Jobs)] /\ cursor \in Nat
      /\ f \in Files /\ s \in 1..Len(log) /\ queue[f] \in Seq(Jobs)
      /\ Len(log) \in Nat
  BY <1>0, EntryRevision DEF SyncInv, TypeOK
<1>4. /\ Len(inbox') = Len(inbox) /\ 1..Len(inbox) = DOMAIN inbox
      /\ \A t \in 1..Len(inbox) :
           /\ inbox[t] \in Entries
           /\ inbox'[t] = IF t = s /\ inbox[t].conflict = "none"
                          THEN [inbox[t] EXCEPT !.conflict = "open"]
                          ELSE IF t < s /\ t \in Open(f)
                          THEN [inbox[t] EXCEPT !.conflict = "superseded"]
                          ELSE inbox[t]
  <2>1. inbox' \in Seq(Entries) /\ DOMAIN inbox' = DOMAIN inbox
    BY <1>1 DEF SyncInv, TypeOK
  <2>2. Len(inbox') = Len(inbox) /\ 1..Len(inbox) = DOMAIN inbox
    BY <1>3, <2>1
  <2>3. \A t \in 1..Len(inbox) : inbox[t] \in Entries
    BY <1>3
  <2> QED
    BY <1>1, <2>2, <2>3
<1>5. inbox[s].conflict \in {"none", "open"} /\ inbox[s].decision.choice = "none"
  BY <1>2, <1>3 DEF Records, ConflictLife
<1>6. \A t \in 1..Len(inbox) :
         /\ inbox'[t].state = inbox[t].state
         /\ inbox'[t].decision = inbox[t].decision
         /\ t = s => inbox'[t].conflict = "open"
         /\ t < s /\ t \in Open(f) => inbox'[t].conflict = "superseded"
         /\ t # s /\ ~(t < s /\ t \in Open(f)) => inbox'[t].conflict = inbox[t].conflict
  <2> SUFFICES ASSUME NEW t \in 1..Len(inbox)
               PROVE  /\ inbox'[t].state = inbox[t].state
                      /\ inbox'[t].decision = inbox[t].decision
                      /\ t = s => inbox'[t].conflict = "open"
                      /\ t < s /\ t \in Open(f) => inbox'[t].conflict = "superseded"
                      /\ t # s /\ ~(t < s /\ t \in Open(f))
                           => inbox'[t].conflict = inbox[t].conflict
    OBVIOUS
  <2>1. inbox[t] \in Entries
    BY <1>4
  <2>2. /\ [inbox[t] EXCEPT !.conflict = "open"].conflict = "open"
        /\ [inbox[t] EXCEPT !.conflict = "open"].state = inbox[t].state
        /\ [inbox[t] EXCEPT !.conflict = "open"].decision = inbox[t].decision
        /\ [inbox[t] EXCEPT !.conflict = "superseded"].conflict = "superseded"
        /\ [inbox[t] EXCEPT !.conflict = "superseded"].state = inbox[t].state
        /\ [inbox[t] EXCEPT !.conflict = "superseded"].decision = inbox[t].decision
    BY <2>1 DEF Entries
  <2>3. CASE t = s
    <3>1. inbox'[t] = IF inbox[t].conflict = "none"
                      THEN [inbox[t] EXCEPT !.conflict = "open"] ELSE inbox[t]
      <4>1. ~(t < s)
        BY <1>3, <2>3
      <4> QED
        BY <1>4, <2>3, <4>1
    <3>2. CASE inbox[t].conflict = "none"
      BY <2>2, <2>3, <3>1, <3>2
    <3>3. CASE inbox[t].conflict = "open"
      BY <2>3, <3>1, <3>3
    <3> QED
      BY <1>5, <2>3, <3>2, <3>3
  <2>4. CASE t # s /\ t < s /\ t \in Open(f)
    BY <1>4, <2>2, <2>4
  <2>5. CASE t # s /\ ~(t < s /\ t \in Open(f))
    BY <1>4, <2>5
  <2> QED
    BY <2>3, <2>4, <2>5
<1>7. /\ \A g \in Files : Len(queue'[g]) = Len(queue[g])
      /\ \A g \in Files \ {f} : queue'[g] = queue[g]
      /\ \A i \in 1..Len(queue[f]) :
           /\ queue[f][i] \in Jobs
           /\ queue'[f][i] = IF queue[f][i].stage \in {"queued", "committing"}
                             THEN [queue[f][i] EXCEPT !.stage = "conflict"]
                             ELSE queue[f][i]
  <2>1. queue'[f] = [i \in DOMAIN queue[f] |->
                       IF queue[f][i].stage \in {"queued", "committing"}
                       THEN [queue[f][i] EXCEPT !.stage = "conflict"] ELSE queue[f][i]]
        /\ \A g \in Files \ {f} : queue'[g] = queue[g]
    BY <1>1, <1>3
  <2>2. queue'[f] \in Seq(Jobs)
    BY <1>3 DEF SyncInv, TypeOK
  <2>3. Len(queue'[f]) = Len(queue[f]) /\ DOMAIN queue[f] = 1..Len(queue[f])
    BY <1>3, <2>1, <2>2
  <2>4. \A i \in 1..Len(queue[f]) : queue[f][i] \in Jobs
    BY <1>3
  <2> QED
    BY <2>1, <2>3, <2>4
<1>8. \A i \in 1..Len(queue[f]) :
         /\ queue'[f][i].frozen = queue[f][i].frozen
         /\ queue'[f][i].base = queue[f][i].base
         /\ queue[f][i].stage \in {"queued", "committing"} => queue'[f][i].stage = "conflict"
         /\ queue[f][i].stage \notin {"queued", "committing"}
              => queue'[f][i].stage = queue[f][i].stage
  BY <1>7 DEF Jobs
<1>9. ~Own(s)
  BY <1>1, <1>3 DEF Records, OwnStages, OwnRevision, Own
<1>10. heads[f].revision < s /\ heads[f].revision \in Nat
  <2>1. heads[f].revision \in Nat
    BY <1>3, Tables
  <2> QED
    BY <1>0, <1>1, <1>3, <2>1 DEF AlreadyApplied
<1>11. \A t \in 1..Len(log) : Own(t) /\ log[t].file = f =>
          /\ log[t].by \in 1..Len(queue[f])
          /\ queue[f][log[t].by].stage = "acked"
  <2> SUFFICES ASSUME NEW t \in 1..Len(log), Own(t), log[t].file = f
               PROVE  /\ log[t].by \in 1..Len(queue[f])
                      /\ queue[f][log[t].by].stage = "acked"
    OBVIOUS
  <2>1. log[t].by \in 1..Len(queue[f]) /\ queue[f][log[t].by].frozen
        /\ queue[f][log[t].by].base \in Nat
    BY <1>3, Tables
  <2>2. CASE t <= cursor
    BY <2>1, <2>2 DEF Records, OwnStages
  <2>3. CASE t > cursor
    <3>1. s < t
      BY <1>2, <1>3, <1>9, <2>3
    <3>2. s <= queue[f][log[t].by].base
      BY <1>0, <1>3, <3>1 DEF Records, OwnBases
    <3>3. queue[f][log[t].by].base <= heads[f].revision
      BY <1>3, <2>1 DEF Records, FrozenJobs
    <3> QED
      BY <1>3, <1>10, <2>1, <3>2, <3>3
  <2> QED
    BY <1>3, <2>2, <2>3
<1>12. StageSteps
  BY <1>3, <1>7, <1>8 DEF StageSteps
<1>13. HeadsGrow /\ ReviewsKept /\ cursor <= cursor'
  <2>1. \A g \in Files : heads[g].revision \in Nat
    BY Tables
  <2>2. \A t \in 1..cursor : t \in 1..Len(inbox)
    BY Tables
  <2>3. ReviewsKept
    <3> SUFFICES ASSUME NEW t \in 1..cursor
                 PROVE  /\ inbox[t].state = "applied" => inbox'[t].state = "applied"
                        /\ inbox[t].conflict = "resolved" => inbox'[t].conflict = "resolved"
      BY DEF ReviewsKept
    <3>1. t \in 1..Len(inbox) /\ t # s
      BY <1>2, <1>3, <2>2
    <3>2. inbox[t].conflict = "resolved" => t \notin Open(f)
      BY DEF Open
    <3> QED
      BY <1>6, <3>1, <3>2
  <2> QED
    BY <1>1, <1>3, <2>1, <2>3 DEF HeadsGrow
<1>14. /\ FrozenJobs' /\ OwnBases' /\ BasesReviewed'
       /\ \A t : (Own(t)' <=> Own(t)) /\ RevisionsOf(t)' = RevisionsOf(t)
  BY <1>1, <1>12, <1>13, StagesKeepBases
<1>15. RefusedWire'
  <2> SUFFICES ASSUME NEW g \in Files, NEW j \in 1..Len(queue[g]), <<g, j>> \in wire,
                      queue'[g][j].stage \in {"conflict", "archived"}
               PROVE  \E t \in RevisionsOf(g) : queue'[g][j].base < t
    BY <1>1, <1>7, <1>14 DEF RefusedWire
  <2>1. j \in Nat /\ queue[g][j].frozen /\ queue'[g][j].base = queue[g][j].base
        /\ queue[g][j].base \in Nat
    <3>1. queue[g][j].base \in Nat /\ j \in Nat
      BY Tables
    <3> QED
      BY <1>12, <3>1 DEF SyncInv, OwnOps, StageSteps
  <2>2. CASE queue[g][j].stage \in {"conflict", "archived"}
    BY <2>1, <2>2 DEF Records, RefusedWire
  <2>3. CASE queue[g][j].stage \notin {"conflict", "archived"}
    <3>1. g = f
      BY <1>7, <2>3
    <3>2. s \in RevisionsOf(f)
      BY <1>0, <1>3 DEF RevisionsOf
    <3>3. queue[g][j].base <= heads[f].revision
      BY <2>1, <3>1 DEF Records, FrozenJobs
    <3> QED
      BY <1>3, <1>10, <2>1, <3>1, <3>2, <3>3
  <2> QED
    BY <2>2, <2>3
<1>16. OwnStages'
  <2> SUFFICES ASSUME NEW t \in 1..Len(log), Own(t)
               PROVE  /\ queue'[log[t].file][log[t].by].stage \in {"committing", "acked"}
                      /\ t <= cursor => queue'[log[t].file][log[t].by].stage = "acked"
    BY <1>1, <1>14 DEF OwnStages
  <2>1. log[t].file \in Files
    BY Tables
  <2>2. CASE log[t].file = f
    BY <1>8, <1>11, <2>2
  <2>3. CASE log[t].file # f
    BY <1>7, <2>1, <2>3 DEF Records, OwnStages
  <2> QED
    BY SMTT(30), <2>2, <2>3
<1>17. ConflictLife'
  <2> SUFFICES ASSUME NEW t \in 1..Len(inbox)
               PROVE  /\ inbox'[t].conflict # "none" => ~Own(t)
                      /\ inbox'[t].state = "conflict" => inbox'[t].conflict # "none"
                      /\ inbox'[t].decision.choice # "none" => inbox'[t].conflict # "none"
                      /\ t > cursor => /\ inbox'[t].conflict \in {"none", "open"}
                                       /\ inbox'[t].decision.choice = "none"
    BY <1>1, <1>4, <1>14 DEF ConflictLife
  <2>1. /\ inbox[t].conflict # "none" => ~Own(t)
        /\ inbox[t].state = "conflict" => inbox[t].conflict # "none"
        /\ inbox[t].decision.choice # "none" => inbox[t].conflict # "none"
        /\ t > cursor => /\ inbox[t].conflict \in {"none", "open"}
                         /\ inbox[t].decision.choice = "none"
    BY DEF Records, ConflictLife
  <2>2. t \in Open(f) => inbox[t].conflict = "open"
    BY DEF Open
  <2>3. CASE t = s
    BY <1>5, <1>6, <1>9, <2>1, <2>3
  <2>4. CASE t # s /\ t < s
    BY <1>2, <1>3, <1>6, <2>1, <2>2, <2>4
  <2>5. CASE t # s /\ ~(t < s)
    BY <1>6, <2>1, <2>5
  <2> QED
    BY <2>3, <2>4, <2>5
<1>18. \A u \in 1..Len(inbox) : log[u].file # f =>
          inbox'[u].conflict = inbox[u].conflict
  BY <1>0, <1>6 DEF Open
<1>19. Superseded'
  <2> SUFFICES ASSUME NEW t \in 1..Len(inbox), inbox'[t].conflict = "superseded"
               PROVE  \/ heads[log[t].file].revision > t
                      \/ \E u \in 1..Len(inbox) :
                           log[u].file = log[t].file /\ inbox'[u].conflict = "open" /\ u > t
    BY <1>1, <1>4 DEF Superseded, Open
  <2>1. CASE t < s /\ log[t].file = f
    <3>1. inbox'[s].conflict = "open" /\ s > t
      BY <1>3, <1>6, <2>1
    <3> QED
      BY <1>0, <2>1, <3>1
  <2>2. CASE log[t].file # f
    <3>1. inbox[t].conflict = "superseded"
      BY <1>18, <2>2
    <3>2. \/ heads[log[t].file].revision > t
          \/ \E u \in Open(log[t].file) : u > t
      BY <3>1 DEF Records, Superseded
    <3> QED
      BY <1>18, <2>2, <3>2 DEF Open
  <2>3. CASE ~(t < s)
    <3>1. t > cursor
      <4>1. t \in Int /\ s \in Int /\ cursor \in Int
        BY <1>3
      <4> QED
        BY <1>2, <2>3, <4>1
    <3>2. t # s /\ inbox[t].conflict = "superseded"
      BY <1>6, <2>3
    <3> QED
      BY <3>1, <3>2 DEF Records, ConflictLife
  <2> QED
    BY <2>1, <2>2, <2>3
<1>20. OpenIsQuiet'
  <2> SUFFICES ASSUME NEW g \in Files, NEW u \in 1..Len(inbox), log[u].file = g,
                      inbox'[u].conflict = "open", NEW j \in 1..Len(queue[g])
               PROVE  queue'[g][j].stage # "committing"
    BY ZenonT(40), <1>1, <1>4, <1>7 DEF OpenIsQuiet, Open
  <2>1. CASE g = f
    BY <1>8, <2>1
  <2>2. CASE g # f
    <3>1. u \in Open(g)
      BY <1>18, <2>2 DEF Open
    <3> QED
      BY <1>7, <2>2, <3>1 DEF Records, OpenIsQuiet
  <2> QED
    BY <2>1, <2>2
<1> QED
  BY <1>4, <1>6, <1>9, <1>14, <1>15, <1>16, <1>17, <1>19, <1>20 DEF Records

\* A step that touches neither operations nor log keeps what is said of them.
LEMMA QueueKept ==
    ASSUME SyncInv, SyncInv', Records, UNCHANGED <<log, wire, queue>>,
           cursor <= cursor', HeadsGrow, ReviewsKept
    PROVE  /\ FrozenJobs' /\ OwnBases' /\ BasesReviewed' /\ RefusedWire'
           /\ \A s : (Own(s)' <=> Own(s)) /\ RevisionsOf(s)' = RevisionsOf(s)
<1>1. StageSteps
  BY DEF StageSteps
<1>2. log' = log /\ queue' = queue /\ wire' = wire
  OBVIOUS
<1>3. /\ FrozenJobs' /\ OwnBases' /\ BasesReviewed'
      /\ \A s : (Own(s)' <=> Own(s)) /\ RevisionsOf(s)' = RevisionsOf(s)
  BY <1>1, <1>2, StagesKeepBases
<1>4. RefusedWire'
  BY <1>2, <1>3 DEF Records, RefusedWire
<1> QED
  BY <1>3, <1>4

\* sync_finish: an own revision was acknowledged, a conflict was stored.
LEMMA RecordsFinish ==
    ASSUME SyncInv, SyncInv', Records, Work, NEW s \in 1..Len(inbox), Finish(s)
    PROVE  Records'
<1>0. PICK f \in Files : f = log[s].file
  BY EntryRevision DEF SyncInv
<1>1. /\ log' = log /\ wire' = wire /\ queue' = queue /\ cursor' = s
      /\ cursor = s - 1 /\ heads' = Newer(f, s, log[s].content)
      /\ inbox' = [inbox EXCEPT ![s].state = hold.outcome]
  BY <1>0 DEF Finish, network
<1>2. /\ s \in Nat /\ log[s].content \in Hashes /\ TypeOK
      /\ inbox \in Seq(Entries) /\ cursor \in Nat /\ s \in 1..Len(log)
      /\ \A t \in 1..Len(inbox) : inbox[t] \in Entries
  BY EntryRevision DEF SyncInv, TypeOK
<1>3. /\ Own(s) => queue[log[s].file][log[s].by].stage = "acked"
      /\ hold.outcome = "conflict" => inbox[s].conflict = "open"
  BY DEF Finish, Work, FinishWork
<1>4. /\ Len(inbox') = Len(inbox)
      /\ \A t \in 1..Len(inbox) :
           inbox'[t] = IF t = s THEN [inbox[s] EXCEPT !.state = hold.outcome]
                       ELSE inbox[t]
  BY <1>1, <1>2
<1>5. \A t \in 1..Len(inbox) :
         /\ inbox'[t].conflict = inbox[t].conflict
         /\ inbox'[t].decision = inbox[t].decision
         /\ t # s => inbox'[t].state = inbox[t].state
         /\ t = s => inbox'[t].state = hold.outcome
  BY <1>2, <1>4 DEF Entries
<1>6. /\ \A g \in Files : heads[g].revision \in Nat
      /\ \A t \in 1..cursor : t \in 1..Len(inbox)
      /\ \A t \in 1..Len(inbox) : log[t].file \in Files
  BY Tables
<1>7. HeadsGrow
  BY <1>1, <1>2, <1>6, NewerHead DEF HeadsGrow
<1>8. ReviewsKept
  BY <1>1, <1>2, <1>5, <1>6 DEF ReviewsKept
<1>9. /\ FrozenJobs' /\ OwnBases' /\ BasesReviewed' /\ RefusedWire'
      /\ \A t : (Own(t)' <=> Own(t)) /\ RevisionsOf(t)' = RevisionsOf(t)
  BY <1>1, <1>2, <1>7, <1>8, QueueKept
<1>10. OwnStages'
  <2> SUFFICES ASSUME NEW t \in 1..Len(log), Own(t)
               PROVE  /\ queue[log[t].file][log[t].by].stage \in {"committing", "acked"}
                      /\ t <= s => queue[log[t].file][log[t].by].stage = "acked"
    BY <1>1, <1>9 DEF OwnStages
  <2>1. /\ queue[log[t].file][log[t].by].stage \in {"committing", "acked"}
        /\ t <= cursor => queue[log[t].file][log[t].by].stage = "acked"
    BY DEF Records, OwnStages
  <2>2. t <= s => t <= cursor \/ t = s
    BY <1>1, <1>2
  <2> QED
    BY <1>3, <2>1, <2>2
<1>11. ConflictLife'
  <2> SUFFICES ASSUME NEW t \in 1..Len(inbox)
               PROVE  /\ inbox'[t].conflict # "none" => ~Own(t)
                      /\ inbox'[t].state = "conflict" => inbox'[t].conflict # "none"
                      /\ inbox'[t].decision.choice # "none" => inbox'[t].conflict # "none"
                      /\ t > s => /\ inbox'[t].conflict \in {"none", "open"}
                                  /\ inbox'[t].decision.choice = "none"
    BY <1>1, <1>4, <1>9 DEF ConflictLife
  <2>1. /\ inbox[t].conflict # "none" => ~Own(t)
        /\ inbox[t].state = "conflict" => inbox[t].conflict # "none"
        /\ inbox[t].decision.choice # "none" => inbox[t].conflict # "none"
        /\ t > cursor => /\ inbox[t].conflict \in {"none", "open"}
                         /\ inbox[t].decision.choice = "none"
    BY DEF Records, ConflictLife
  <2>2. t > s => t > cursor
    BY <1>1, <1>2
  <2> QED
    BY <1>3, <1>5, <2>1, <2>2
<1>12. Superseded'
  <2> SUFFICES ASSUME NEW t \in 1..Len(inbox), inbox[t].conflict = "superseded"
               PROVE  \/ heads'[log[t].file].revision > t
                      \/ \E u \in 1..Len(inbox) :
                           log[u].file = log[t].file /\ inbox[u].conflict = "open" /\ u > t
    BY <1>1, <1>4, <1>5 DEF Superseded, Open
  <2>1. \/ heads[log[t].file].revision > t
        \/ \E u \in Open(log[t].file) : u > t
    BY DEF Records, Superseded
  <2>2. heads[log[t].file].revision > t => heads'[log[t].file].revision > t
    <3>1. heads'[log[t].file] \in Heads /\ t \in Nat
      BY <1>6 DEF SyncInv, TypeOK
    <3>2. heads'[log[t].file].revision \in Nat
      BY <3>1 DEF Heads
    <3> QED
      BY <1>6, <1>7, <3>1, <3>2 DEF HeadsGrow
  <2> QED
    BY <2>1, <2>2 DEF Open
<1>13. OpenIsQuiet'
  <2> SUFFICES ASSUME NEW g \in Files, NEW u \in 1..Len(inbox), log[u].file = g,
                      inbox[u].conflict = "open", NEW j \in 1..Len(queue[g])
               PROVE  queue[g][j].stage # "committing"
    BY <1>1, <1>4, <1>5 DEF OpenIsQuiet, Open
  <2> QED
    BY DEF Records, OpenIsQuiet, Open
<1> QED
  BY <1>9, <1>10, <1>11, <1>12, <1>13 DEF Records

\* sync_resolve records the choice on an open conflict about the head, which
\* the cursor has therefore passed.
LEMMA RecordsDecide ==
    ASSUME SyncInv, SyncInv', Records, NEW s \in 1..Len(inbox), NEW choice,
           NEW g, Decide(s, choice, g)
    PROVE  /\ Records' /\ Len(inbox') = Len(inbox)
           /\ \A t \in 1..Len(inbox) : inbox'[t].conflict = inbox[t].conflict
           /\ inbox[s].conflict = "open" /\ inbox'[s].decision.choice = choice
<1>0. PICK f \in Files : f = log[s].file
  BY EntryRevision DEF SyncInv
<1> DEFINE d == [choice |-> choice, expected |-> disk[f],
                 live |-> observed[f] # Absent, copy |-> g,
                 copied |-> FALSE, committed |-> FALSE, op |-> 0,
                 seen |-> Len(queue[f])]
<1>1. /\ log' = log /\ wire' = wire /\ queue' = queue /\ cursor' = cursor
      /\ heads' = heads /\ s \in Open(f) /\ heads[f].revision = s
      /\ inbox' = [inbox EXCEPT ![s].decision = d]
  BY <1>0 DEF Decide, Reviewable, network
<1>2. /\ s \in Nat /\ inbox \in Seq(Entries) /\ cursor \in Nat /\ s \in 1..Len(log)
      /\ \A t \in 1..Len(inbox) : inbox[t] \in Entries
      /\ Len(log) \in Nat
  BY EntryRevision DEF SyncInv, TypeOK
<1>3. d.choice = choice
  OBVIOUS
<1> HIDE DEF d
<1>4. /\ Len(inbox') = Len(inbox)
      /\ \A t \in 1..Len(inbox) :
           inbox'[t] = IF t = s THEN [inbox[s] EXCEPT !.decision = d] ELSE inbox[t]
  BY <1>1, <1>2
<1>5. \A t \in 1..Len(inbox) :
         /\ inbox'[t].conflict = inbox[t].conflict
         /\ inbox'[t].state = inbox[t].state
         /\ t # s => inbox'[t].decision = inbox[t].decision
         /\ t = s => inbox'[t].decision = d
  BY <1>2, <1>4 DEF Entries
<1>6. /\ \A h \in Files : heads[h].revision \in Nat
      /\ \A t \in 1..cursor : t \in 1..Len(inbox)
  BY Tables
<1>7. inbox[s].conflict = "open"
  BY <1>1 DEF Open
<1>8. s <= cursor
  <2>1. ~Own(s)
    BY <1>7 DEF Records, ConflictLife
  <2>2. Dealt(f) \subseteq 1..Len(log)
    BY DEF Dealt, RevisionsOf
  <2>3. s \in Dealt(f)
    BY <1>1, <1>2, <2>2, LatestIsGreatest DEF SyncInv, HeadsLatest
  <2> QED
    BY <2>1, <2>3 DEF Dealt
<1>9. HeadsGrow /\ ReviewsKept
  BY <1>1, <1>5, <1>6 DEF HeadsGrow, ReviewsKept
<1>10. /\ FrozenJobs' /\ OwnBases' /\ BasesReviewed' /\ RefusedWire'
       /\ \A t : (Own(t)' <=> Own(t)) /\ RevisionsOf(t)' = RevisionsOf(t)
  BY <1>1, <1>2, <1>9, QueueKept
<1>11. OwnStages'
  BY <1>1, <1>10 DEF Records, OwnStages
<1>12. ConflictLife'
  <2> SUFFICES ASSUME NEW t \in 1..Len(inbox)
               PROVE  /\ inbox[t].conflict # "none" => ~Own(t)
                      /\ inbox[t].state = "conflict" => inbox[t].conflict # "none"
                      /\ inbox'[t].decision.choice # "none" => inbox[t].conflict # "none"
                      /\ t > cursor => /\ inbox[t].conflict \in {"none", "open"}
                                       /\ inbox'[t].decision.choice = "none"
    BY <1>1, <1>4, <1>5, <1>10 DEF ConflictLife
  <2>1. /\ inbox[t].conflict # "none" => ~Own(t)
        /\ inbox[t].state = "conflict" => inbox[t].conflict # "none"
        /\ inbox[t].decision.choice # "none" => inbox[t].conflict # "none"
        /\ t > cursor => /\ inbox[t].conflict \in {"none", "open"}
                         /\ inbox[t].decision.choice = "none"
    BY DEF Records, ConflictLife
  <2>2. t > cursor => t # s
    BY <1>2, <1>8
  <2> QED
    BY <1>5, <1>7, <2>1, <2>2
<1>13. \A h : Open(h)' = Open(h)
  BY <1>1, <1>4, <1>5 DEF Open
<1>14. Superseded'
  <2> SUFFICES ASSUME NEW t \in 1..Len(inbox), inbox[t].conflict = "superseded"
               PROVE  \/ heads[log[t].file].revision > t
                      \/ \E u \in 1..Len(inbox) :
                           log[u].file = log[t].file /\ inbox[u].conflict = "open" /\ u > t
    BY <1>1, <1>4, <1>5 DEF Superseded, Open
  <2> QED
    BY DEF Records, Superseded, Open
<1>15. OpenIsQuiet'
  BY <1>1, <1>13 DEF Records, OpenIsQuiet
<1> QED
  BY <1>3, <1>4, <1>5, <1>7, <1>10, <1>11, <1>12, <1>14, <1>15 DEF Records

\* The last transaction of a decision: the file has an open conflict, so none of
\* its operations is being sent, and what is archived was stopped before.
LEMMA RecordsSettle ==
    ASSUME SyncInv, SyncInv', Records, Work, NEW s \in 1..Len(inbox), Settle(s)
    PROVE  /\ Records' /\ \A f \in Files : Open(f)' \subseteq Open(f)
<1>0. PICK f \in Files : f = log[s].file
  BY EntryRevision DEF SyncInv
<1>1. /\ log' = log /\ wire' = wire /\ heads' = heads /\ cursor' = cursor
      /\ queue' = [queue EXCEPT ![f] = Archived(f, inbox[s].decision.op)]
      /\ inbox' = [inbox EXCEPT ![s].conflict = "resolved"]
  BY <1>0 DEF Settle, network
<1>2. /\ s \in Nat /\ inbox \in Seq(Entries) /\ cursor \in Nat
      /\ \A t \in 1..Len(inbox) : inbox[t] \in Entries
      /\ queue \in [Files -> Seq(Jobs)] /\ queue[f] \in Seq(Jobs)
  BY EntryRevision DEF SyncInv, TypeOK
<1>3. /\ inbox[s].decision.choice # "none"
      /\ inbox[s].conflict \in {"open", "superseded"}
      /\ heads[f].revision = s
  BY <1>0 DEF Settle, Work, DecideWork
<1>4. /\ Len(inbox') = Len(inbox)
      /\ \A t \in 1..Len(inbox) :
           inbox'[t] = IF t = s THEN [inbox[s] EXCEPT !.conflict = "resolved"]
                       ELSE inbox[t]
  BY <1>1, <1>2
<1>5. \A t \in 1..Len(inbox) :
         /\ inbox'[t].state = inbox[t].state
         /\ inbox'[t].decision = inbox[t].decision
         /\ t # s => inbox'[t].conflict = inbox[t].conflict
         /\ t = s => inbox'[t].conflict = "resolved"
  BY <1>2, <1>4 DEF Entries
<1>6. /\ \A g \in Files : Len(queue'[g]) = Len(queue[g])
      /\ \A g \in Files \ {f} : queue'[g] = queue[g]
      /\ \A i \in 1..Len(queue[f]) :
           /\ queue[f][i] \in Jobs
           /\ \/ queue'[f][i] = queue[f][i]
              \/ /\ queue[f][i].stage # "acked"
                 /\ queue'[f][i] = [queue[f][i] EXCEPT !.stage = "archived"]
  <2>1. /\ queue'[f] = Archived(f, inbox[s].decision.op)
        /\ \A g \in Files \ {f} : queue'[g] = queue[g]
    BY <1>1, <1>2
  <2>2. queue'[f] \in Seq(Jobs) /\ DOMAIN queue'[f] = DOMAIN queue[f]
    BY <2>1 DEF SyncInv, TypeOK, Archived
  <2>3. Len(queue'[f]) = Len(queue[f]) /\ DOMAIN queue[f] = 1..Len(queue[f])
    BY <1>2, <2>2
  <2>4. \A i \in 1..Len(queue[f]) : queue[f][i] \in Jobs
    BY <1>2
  <2>5. \A i \in 1..Len(queue[f]) :
           \/ queue'[f][i] = queue[f][i]
           \/ /\ queue[f][i].stage # "acked"
              /\ queue'[f][i] = [queue[f][i] EXCEPT !.stage = "archived"]
    BY <2>1, <2>3 DEF Archived
  <2> QED
    BY <2>1, <2>3, <2>4, <2>5
<1>7. \A i \in 1..Len(queue[f]) :
         /\ queue'[f][i].frozen = queue[f][i].frozen
         /\ queue'[f][i].base = queue[f][i].base
         /\ \/ queue'[f][i].stage = queue[f][i].stage
            \/ queue[f][i].stage # "acked" /\ queue'[f][i].stage = "archived"
  BY <1>6 DEF Jobs
<1>8. \A i \in 1..Len(queue[f]) : queue[f][i].stage # "committing"
  <2>1. CASE inbox[s].conflict = "open"
    <3>1. s \in Open(f)
      BY <1>0, <2>1 DEF Open
    <3> QED
      BY <3>1 DEF Records, OpenIsQuiet
  <2>2. CASE inbox[s].conflict = "superseded"
    <3>1. Open(f) # {}
      BY <1>0, <1>2, <1>3, <2>2 DEF Records, Superseded
    <3> QED
      BY <3>1 DEF Records, OpenIsQuiet
  <2> QED
    BY <1>3, <2>1, <2>2
<1>9. /\ ~Own(s) /\ s <= cursor
  BY <1>2, <1>3 DEF Records, ConflictLife
<1>10. StageSteps
  BY <1>6, <1>7 DEF StageSteps
<1>11. HeadsGrow /\ ReviewsKept /\ cursor <= cursor'
  <2>1. /\ \A g \in Files : heads[g].revision \in Nat
        /\ \A t \in 1..cursor : t \in 1..Len(inbox)
    BY Tables
  <2> QED
    BY <1>1, <1>2, <1>5, <2>1 DEF HeadsGrow, ReviewsKept
<1>12. /\ FrozenJobs' /\ OwnBases' /\ BasesReviewed'
       /\ \A t : (Own(t)' <=> Own(t)) /\ RevisionsOf(t)' = RevisionsOf(t)
  BY <1>1, <1>10, <1>11, StagesKeepBases
<1>13. RefusedWire'
  <2> SUFFICES ASSUME NEW g \in Files, NEW j \in 1..Len(queue[g]), <<g, j>> \in wire,
                      queue'[g][j].stage \in {"conflict", "archived"}
               PROVE  \E t \in RevisionsOf(g) : queue'[g][j].base < t
    BY <1>1, <1>6, <1>12 DEF RefusedWire
  <2>1. j \in Nat /\ queue[g][j].frozen /\ queue'[g][j].base = queue[g][j].base
    BY <1>10, Tables DEF SyncInv, OwnOps, StageSteps
  <2>2. queue[g][j].stage \in Stages
    <3>1. queue[g][j] \in Jobs
      BY Tables
    <3> QED
      BY <3>1 DEF Jobs
  <2>3. queue[g][j].stage \notin {"pending", "queued"}
    BY <2>1 DEF Records, FrozenJobs
  <2>4. queue[g][j].stage \in {"conflict", "archived"}
    BY <1>6, <1>7, <1>8, <2>2, <2>3 DEF Stages
  <2> QED
    BY <2>1, <2>4 DEF Records, RefusedWire
<1>14. OwnStages'
  <2> SUFFICES ASSUME NEW t \in 1..Len(log), Own(t)
               PROVE  /\ queue'[log[t].file][log[t].by].stage \in {"committing", "acked"}
                      /\ t <= cursor => queue'[log[t].file][log[t].by].stage = "acked"
    BY <1>1, <1>12 DEF OwnStages
  <2>1. log[t].file \in Files /\ log[t].by \in 1..Len(queue[log[t].file])
    BY Tables
  <2>2. /\ queue[log[t].file][log[t].by].stage \in {"committing", "acked"}
        /\ t <= cursor => queue[log[t].file][log[t].by].stage = "acked"
    BY DEF Records, OwnStages
  <2>3. CASE log[t].file = f
    BY SMTT(20), <1>7, <1>8, <2>1, <2>2, <2>3
  <2>4. CASE log[t].file # f
    BY <1>6, <2>1, <2>2, <2>4
  <2> QED
    BY <2>3, <2>4
<1>15. ConflictLife'
  <2> SUFFICES ASSUME NEW t \in 1..Len(inbox)
               PROVE  /\ inbox'[t].conflict # "none" => ~Own(t)
                      /\ inbox[t].state = "conflict" => inbox'[t].conflict # "none"
                      /\ inbox[t].decision.choice # "none" => inbox'[t].conflict # "none"
                      /\ t > cursor => /\ inbox'[t].conflict \in {"none", "open"}
                                       /\ inbox[t].decision.choice = "none"
    BY <1>1, <1>4, <1>5, <1>12 DEF ConflictLife
  <2>1. /\ inbox[t].conflict # "none" => ~Own(t)
        /\ inbox[t].state = "conflict" => inbox[t].conflict # "none"
        /\ inbox[t].decision.choice # "none" => inbox[t].conflict # "none"
        /\ t > cursor => /\ inbox[t].conflict \in {"none", "open"}
                         /\ inbox[t].decision.choice = "none"
    BY DEF Records, ConflictLife
  <2>2. t > cursor => t # s
    BY <1>2, <1>9
  <2> QED
    BY <1>5, <1>9, <2>1, <2>2
<1>16. Superseded'
  <2> SUFFICES ASSUME NEW t \in 1..Len(inbox), inbox'[t].conflict = "superseded"
               PROVE  \/ heads[log[t].file].revision > t
                      \/ \E u \in 1..Len(inbox) :
                           log[u].file = log[t].file /\ inbox'[u].conflict = "open" /\ u > t
    BY <1>1, <1>4 DEF Superseded, Open
  <2>1. t # s /\ inbox[t].conflict = "superseded"
    BY <1>5
  <2>2. \/ heads[log[t].file].revision > t
        \/ \E u \in Open(log[t].file) : u > t
    BY <2>1 DEF Records, Superseded
  <2>3. ASSUME NEW u \in Open(log[t].file), u > t
        PROVE  \/ heads[log[t].file].revision > t
               \/ inbox'[u].conflict = "open"
    BY <1>0, <1>3, <1>5, <2>3 DEF Open
  <2> QED
    BY <2>2, <2>3 DEF Open
<1>17. \A g \in Files : Open(g)' \subseteq Open(g)
  BY <1>1, <1>4, <1>5 DEF Open
<1>18. OpenIsQuiet'
  <2> SUFFICES ASSUME NEW g \in Files, Open(g) # {}, NEW j \in 1..Len(queue[g])
               PROVE  queue'[g][j].stage # "committing"
    BY <1>6, <1>17 DEF OpenIsQuiet
  <2>1. queue[g][j].stage # "committing"
    BY DEF Records, OpenIsQuiet
  <2> QED
    BY <1>10, <2>1 DEF StageSteps
<1> QED
  BY <1>12, <1>13, <1>14, <1>15, <1>16, <1>17, <1>18 DEF Records

-----------------------------------------------------------------------------
(* The work in progress *)

\* What a step that only adds to the tables does to a queue: it leaves it, lets
\* a waiting operation be captured, or appends a new one.
LEMMA WriteExtends ==
    ASSUME SyncInv, NEW f \in Files, NEW c,
           LocalWrite(f, c) \/ RemoteWrite(f, c)
    PROVE  QueueExtends
<1>1. /\ queue \in [Files -> Seq(Jobs)] /\ queue[f] \in Seq(Jobs)
      /\ NewJob(c).stage = "pending" /\ ~NewJob(c).frozen
  BY DEF SyncInv, TypeOK, NewJob
<1>2. CASE LocalWrite(f, c)
  <2>1. queue'[f] = Append(queue[f], NewJob(c))
        /\ \A g \in Files \ {f} : queue'[g] = queue[g]
    BY <1>1, <1>2 DEF LocalWrite
  <2>2. /\ \A i \in 1..Len(queue[f]) : i \in 1..Len(queue'[f])
                                       /\ queue'[f][i] = queue[f][i]
        /\ \A i \in 1..Len(queue'[f]) : i \notin 1..Len(queue[f]) =>
             queue'[f][i] = NewJob(c)
    BY <1>1, <2>1
  <2> QED
    BY <1>1, <2>1, <2>2 DEF QueueExtends
<1>3. CASE RemoteWrite(f, c)
  BY <1>3 DEF RemoteWrite, QueueExtends
<1> QED
  BY <1>2, <1>3

\* Discovery appends at most one operation per file.
LEMMA DiscoveryExtends ==
    ASSUME SyncInv, StartCycle
    PROVE  QueueExtends
<1> SUFFICES ASSUME NEW f \in Files
             PROVE  \/ queue'[f] = queue[f]
                    \/ queue'[f] = Append(queue[f], NewJob(disk[f]))
  <2>1. \A f \in Files : queue[f] \in Seq(Jobs)
    BY DEF SyncInv, TypeOK
  <2>2. \A c : NewJob(c).stage = "pending" /\ ~NewJob(c).frozen
    BY DEF NewJob
  <2>3. ASSUME NEW f \in Files, queue'[f] = Append(queue[f], NewJob(disk[f]))
        PROVE  /\ \A i \in 1..Len(queue[f]) : i \in 1..Len(queue'[f])
                                              /\ queue'[f][i] = queue[f][i]
               /\ \A i \in 1..Len(queue'[f]) : i \notin 1..Len(queue[f]) =>
                    queue'[f][i] = NewJob(disk[f])
    BY <2>1, <2>3
  <2> QED
    BY <2>2, <2>3 DEF QueueExtends
<1> QED
  BY DEF StartCycle

\* sync_capture moves waiting operations only.
LEMMA CaptureExtends ==
    ASSUME SyncInv, SyncInv', Capture
    PROVE  QueueExtends
<1>1. queue' \in [Files -> Seq(Jobs)] /\ queue \in [Files -> Seq(Jobs)]
      /\ queue' = Captured
  BY DEF SyncInv, TypeOK, Capture
<1>2. \A f \in Files : DOMAIN queue'[f] = DOMAIN queue[f]
  BY <1>1 DEF Captured
<1>3. \A f \in Files : DOMAIN queue[f] = 1..Len(queue[f])
                       /\ 1..Len(queue'[f]) = 1..Len(queue[f])
  BY <1>1, <1>2
<1>4. \A f \in Files : \A i \in DOMAIN queue[f] :
          \/ queue'[f][i] = queue[f][i]
          \/ /\ queue[f][i].stage = "pending"
             /\ queue'[f][i] = [queue[f][i] EXCEPT !.stage = "queued"]
  BY <1>1 DEF Captured
<1>5. \A f \in Files : \A i \in 1..Len(queue[f]) : queue[f][i] \in Jobs
  BY <1>1
<1> SUFFICES ASSUME NEW f \in Files, NEW i \in 1..Len(queue[f])
             PROVE  /\ queue'[f][i].frozen = queue[f][i].frozen
                    /\ queue'[f][i].base = queue[f][i].base
                    /\ \/ queue'[f][i].stage = queue[f][i].stage
                       \/ queue[f][i].stage = "pending"
                          /\ queue'[f][i].stage = "queued"
  BY <1>3 DEF QueueExtends
<1>6. CASE queue'[f][i] = queue[f][i]
  BY <1>6
<1>7. CASE /\ queue[f][i].stage = "pending"
           /\ queue'[f][i] = [queue[f][i] EXCEPT !.stage = "queued"]
  BY <1>5, <1>7 DEF Jobs
<1> QED
  BY <1>3, <1>4, <1>6, <1>7

\* No update of an entry but those of a decision and of a conflict changes what
\* the records say of it.
LEMMA EntryExtends ==
    ASSUME SyncInv, NEW s \in 1..Len(inbox),
           \/ inbox' = [inbox EXCEPT ![s].done = TRUE]
           \/ inbox' = [inbox EXCEPT ![s].decision.copied = TRUE]
           \/ inbox' = [inbox EXCEPT ![s].decision.committed = TRUE]
           \/ \E n : inbox' = [inbox EXCEPT ![s].decision.committed = TRUE,
                                           ![s].decision.op = n]
    PROVE  InboxExtends
<1>1. inbox \in Seq(Entries) /\ inbox[s] \in Entries /\ inbox[s].decision \in Decisions
  <2>1. inbox \in Seq(Entries) /\ inbox[s] \in Entries
    BY DEF SyncInv, TypeOK
  <2> QED
    BY <2>1 DEF Entries
<1>2. /\ Len(inbox') = Len(inbox)
      /\ \A t \in 1..Len(inbox) : t # s => inbox'[t] = inbox[t]
  BY <1>1
<1>3. /\ inbox'[s].state = inbox[s].state
      /\ inbox'[s].conflict = inbox[s].conflict
      /\ inbox'[s].decision.choice = inbox[s].decision.choice
  <2>1. CASE inbox' = [inbox EXCEPT ![s].done = TRUE]
    BY <1>1, <2>1 DEF Entries
  <2>2. CASE inbox' = [inbox EXCEPT ![s].decision.copied = TRUE]
    BY <1>1, <2>2 DEF Entries, Decisions
  <2>3. CASE inbox' = [inbox EXCEPT ![s].decision.committed = TRUE]
    BY <1>1, <2>3 DEF Entries, Decisions
  <2>4. ASSUME NEW n, inbox' = [inbox EXCEPT ![s].decision.committed = TRUE,
                                             ![s].decision.op = n]
        PROVE  /\ inbox'[s].state = inbox[s].state
               /\ inbox'[s].conflict = inbox[s].conflict
               /\ inbox'[s].decision.choice = inbox[s].decision.choice
    BY <1>1, <2>4 DEF Entries, Decisions
  <2> QED
    BY <2>1, <2>2, <2>3, <2>4
<1> QED
  BY <1>2, <1>3 DEF InboxExtends

\* sync_stage appends a pending entry.
LEMMA StageExtends ==
    ASSUME SyncInv, inbox' = Append(inbox, Received)
    PROVE  InboxExtends
<1>1. inbox \in Seq(Entries)
  BY DEF SyncInv, TypeOK
<1>2. /\ \A t \in 1..Len(inbox) : t \in 1..Len(inbox') /\ inbox'[t] = inbox[t]
      /\ \A t \in 1..Len(inbox') : t \notin 1..Len(inbox) => inbox'[t] = Received
  BY <1>1
<1>3. /\ Received.state = "pending" /\ Received.conflict = "none"
      /\ Received.decision.choice = "none"
  BY DEF Received, NoDecision
<1> QED
  BY <1>2, <1>3 DEF InboxExtends

\* A step that only adds to the tables and the log leaves the work in progress
\* what it was.
LEMMA WorkKept ==
    ASSUME SyncInv, Work, UNCHANGED <<hold, engine, cursor, heads>>,
           QueueExtends, InboxExtends, \A s \in 1..Len(log) : log'[s] = log[s],
           engine \in Engines, \A f \in Files : Open(f)' = Open(f)
    PROVE  Work'
<1>1. /\ \A s \in 1..Len(log) : log[s].file \in Files
      /\ \A s \in 1..Len(inbox) : s \in 1..Len(log)
      /\ \A s \in 1..Len(log) : Own(s) => log[s].by \in 1..Len(queue[log[s].file])
  BY Tables
<1>2. hold' = hold /\ engine' = engine /\ cursor' = cursor /\ heads' = heads
  OBVIOUS
<1>3. \A s \in 1..Len(inbox) : /\ s \in 1..Len(inbox') /\ log'[s] = log[s]
                               /\ inbox'[s].conflict = inbox[s].conflict
                               /\ inbox'[s].decision.choice = inbox[s].decision.choice
  BY <1>1 DEF InboxExtends
<1>4. ApplyWork'
  BY <1>2, <1>3 DEF Work, ApplyWork
<1>5. FinishWork'
  <2> SUFFICES ASSUME hold.step = "finish"
               PROVE  /\ log'[hold.seq].by # Other =>
                           queue'[log'[hold.seq].file][log'[hold.seq].by].stage = "acked"
                      /\ hold.outcome = "conflict" =>
                           inbox'[hold.seq].conflict = "open"
    BY <1>2 DEF FinishWork, Own
  <2>1. hold.seq \in 1..Len(inbox)
    BY DEF Work, ApplyWork
  <2>2. hold.outcome = "conflict" => inbox'[hold.seq].conflict = "open"
    BY <1>3, <2>1 DEF Work, FinishWork
  <2>3. ASSUME log'[hold.seq].by # Other
        PROVE  queue'[log'[hold.seq].file][log'[hold.seq].by].stage = "acked"
    <3>1. Own(hold.seq) /\ log'[hold.seq] = log[hold.seq]
      BY <1>3, <2>1, <2>3 DEF Own
    <3>2. PICK f \in Files : f = log[hold.seq].file
      BY <1>1, <2>1
    <3>3. PICK i \in 1..Len(queue[f]) : i = log[hold.seq].by
      BY <1>1, <2>1, <3>1, <3>2
    <3>4. queue[f][i].stage = "acked"
      BY <3>1, <3>2, <3>3 DEF Work, FinishWork
    <3>5. queue'[f][i].stage = "acked"
      BY <3>4 DEF QueueExtends
    <3> QED
      BY <3>1, <3>2, <3>3, <3>5
  <2> QED
    BY <2>2, <2>3
<1>6. DecideWork'
  BY <1>2, <1>3 DEF Work, DecideWork
<1>7. PickedIsClear'
  <2>1. PICK f \in Files : f = engine.file
    BY DEF Engines
  <2> SUFFICES ASSUME engine.at = "picked"
               PROVE  {s \in 1..Len(inbox') : log'[s].file = engine.file
                                              /\ inbox'[s].conflict = "open"} = {}
    BY <1>2 DEF PickedIsClear, Open
  <2>2. Open(f)' = {}
    BY <2>1 DEF Work, PickedIsClear
  <2> QED
    BY <2>1, <2>2 DEF Open
<1> QED
  BY <1>4, <1>5, <1>6, <1>7 DEF Work

\* With nothing under the lock only a picked job is work in progress.
LEMMA WorkQuiet ==
    ASSUME hold'.step = "none",
           engine'.at = "picked" => /\ engine' = engine /\ engine \in Engines
                                    /\ PickedIsClear
                                    /\ \A f \in Files : Open(f)' \subseteq Open(f)
    PROVE  Work'
<1>1. ApplyWork' /\ FinishWork' /\ DecideWork'
  BY DEF ApplyWork, FinishWork, DecideWork
<1>2. PickedIsClear'
  <2> SUFFICES ASSUME engine'.at = "picked"
               PROVE  {s \in 1..Len(inbox') : log'[s].file = engine'.file
                                              /\ inbox'[s].conflict = "open"} = {}
    BY DEF PickedIsClear, Open
  <2>1. PICK f \in Files : f = engine.file /\ engine' = engine
    BY DEF Engines
  <2>2. Open(f)' = {}
    BY <2>1 DEF PickedIsClear
  <2> QED
    BY <2>1, <2>2 DEF Open
<1> QED
  BY <1>1, <1>2 DEF Work

-----------------------------------------------------------------------------
(* The actions *)

\* A step that only adds to the tables and leaves the work in progress alone.
LEMMA ReviewExtends ==
    ASSUME SyncInv, SyncInv', ReviewInv, UNCHANGED <<log, heads, cursor, hold, engine>>,
           wire' \subseteq wire, QueueExtends, InboxExtends
    PROVE  ReviewInv'
<1>1. Records' /\ \A f \in Files : Open(f)' = Open(f)
  BY RecordsExtend DEF ReviewInv
<1>2. Work'
  BY <1>1, WorkKept DEF ReviewInv, SyncInv, TypeOK
<1> QED
  BY <1>1, <1>2 DEF ReviewInv

\* The server answers a commit: an operation that was given up meanwhile is
\* refused.
LEMMA ServerReviews ==
    ASSUME SyncInv, SyncInv', ReviewInv, Server
    PROVE  ReviewInv'
<1> SUFFICES ASSUME NEW f \in Files, NEW i \in 1..Len(queue[f]), Serve(f, i)
             PROVE  ReviewInv'
  BY DEF Server
<1>1. /\ UNCHANGED <<queue, inbox, heads, cursor, hold, engine>>
      /\ wire' \subseteq wire /\ <<f, i>> \in wire
  BY DEF Serve, durable
<1>2. QueueExtends /\ InboxExtends
  BY <1>1 DEF QueueExtends, InboxExtends
<1>3. CASE log' = log
  BY <1>1, <1>2, <1>3, ReviewExtends
<1>4. CASE log' # log
  <2> DEFINE r == Revision(f, queue[f][i].base, queue[f][i].content, i)
  <2>1. /\ log' = Append(log, r) /\ Committed(f, i) = {}
        /\ queue[f][i].base = ServerHead(f)
    BY <1>4 DEF Serve, Acceptable
  <2>2. queue[f][i] \in Jobs /\ i \in Nat /\ log \in Seq(Revisions)
    BY DEF SyncInv, TypeOK
  <2>3. r \in Revisions /\ r.file = f /\ r.by = i
    BY <2>2 DEF Revision, Revisions, Jobs
  <2>4. queue[f][i].frozen
    BY <1>1, <2>2 DEF SyncInv, OwnOps
  <2>5. queue[f][i].stage \notin {"conflict", "archived"}
    <3>1. \A t \in RevisionsOf(f) : t <= ServerHead(f) /\ t \in Nat
      <4>1. Len(log) \in Nat /\ RevisionsOf(f) \subseteq 1..Len(log)
        BY <2>2 DEF RevisionsOf
      <4> QED
        BY <4>1, LatestIsGreatest DEF ServerHead
    <3>2. queue[f][i].base \in Nat
      BY <2>2 DEF Jobs
    <3>3. ~ \E t \in RevisionsOf(f) : queue[f][i].base < t
      BY <2>1, <3>1, <3>2
    <3> QED
      BY <1>1, <3>3 DEF ReviewInv, Records, RefusedWire
  <2> HIDE DEF r
  <2>6. Records' /\ \A g \in Files : Open(g)' = Open(g)
    BY <1>1, <2>1, <2>3, <2>4, <2>5, RecordsAppend DEF ReviewInv
  <2>7. \A s \in 1..Len(log) : log'[s] = log[s]
    BY <2>1, <2>2, <2>3
  <2>8. Work'
    BY <1>1, <1>2, <2>6, <2>7, WorkKept DEF ReviewInv, SyncInv, TypeOK
  <2> QED
    BY <2>6, <2>8 DEF ReviewInv
<1> QED
  BY <1>3, <1>4

\* Edits add operations; a decision is about an open conflict on the head.
LEMMA PersonReviews ==
    ASSUME SyncInv, SyncInv', ReviewInv, Person
    PROVE  ReviewInv'
<1>1. ASSUME NEW f \in Files, NEW c \in Hashes, Edit(f, c)
      PROVE  ReviewInv'
  <2>1. QueueExtends
    BY <1>1, WriteExtends DEF Edit
  <2>2. /\ UNCHANGED <<log, heads, cursor, hold, engine>> /\ inbox' = inbox
        /\ wire' \subseteq wire
    BY <1>1 DEF Edit, network
  <2>3. InboxExtends
    BY <2>2 DEF InboxExtends
  <2> QED
    BY <2>1, <2>2, <2>3, ReviewExtends
<1>2. ASSUME NEW s \in 1..Len(inbox), NEW choice \in Choices, NEW g \in Files,
             Decide(s, choice, g)
      PROVE  ReviewInv'
  <2>1. /\ Records' /\ Len(inbox') = Len(inbox)
        /\ \A t \in 1..Len(inbox) : inbox'[t].conflict = inbox[t].conflict
        /\ inbox[s].conflict = "open" /\ inbox'[s].decision.choice = choice
    BY <1>2, RecordsDecide DEF ReviewInv
  <2>2. /\ hold' = Holding("decide", s, "conflict") /\ engine' = engine /\ log' = log
        /\ choice # "none"
    BY <1>2, ConstantsAssumption DEF Decide, network
  <2>3. \A f : Open(f)' = Open(f)
    BY <2>1, <2>2 DEF Open
  <2>4. ApplyWork' /\ FinishWork' /\ DecideWork'
    BY <2>1, <2>2 DEF Holding, ApplyWork, FinishWork, DecideWork
  <2>5. PickedIsClear'
    BY <2>1, <2>2 DEF ReviewInv, Work, PickedIsClear, Open
  <2> QED
    BY <2>1, <2>4, <2>5 DEF ReviewInv, Work
<1> QED
  BY <1>1, <1>2 DEF Person

\* Other programs touch only the disk, other devices only the log, and a lost
\* message or a process stop only the work in progress.
LEMMA EnvironmentReviews ==
    ASSUME SyncInv, SyncInv', ReviewInv, Environment
    PROVE  ReviewInv'
<1>1. queue' = queue /\ inbox' = inbox => QueueExtends /\ InboxExtends
  BY DEF QueueExtends, InboxExtends
<1>2. ASSUME NEW f \in Files, NEW c \in Hashes, ExternalEdit(f, c)
      PROVE  ReviewInv'
  BY <1>1, <1>2, ReviewExtends DEF ExternalEdit, network
<1>3. ASSUME NEW f \in Files, NEW c \in Hashes, OtherCommit(f, c)
      PROVE  ReviewInv'
  <2> DEFINE r == Revision(f, ServerHead(f), c, Other)
  <2>1. log \in Seq(Revisions) /\ ServerHead(f) \in Nat
    <3>1. log \in Seq(Revisions) /\ RevisionsOf(f) \subseteq 1..Len(log)
      BY DEF RevisionsOf, SyncInv, TypeOK
    <3>2. Len(log) \in Nat
      BY <3>1
    <3> QED
      BY <3>1, <3>2, LatestInNat DEF ServerHead
  <2>2. r \in Revisions /\ r.by = Other
    BY <2>1 DEF Revision, Revisions, Other
  <2>3. /\ UNCHANGED <<queue, inbox, heads, cursor, hold, engine>>
        /\ wire' \subseteq wire /\ log' = Append(log, r)
    BY <1>3 DEF OtherCommit, durable
  <2> HIDE DEF r
  <2>4. Records' /\ \A g \in Files : Open(g)' = Open(g)
    BY <2>2, <2>3, RecordsAppend DEF ReviewInv
  <2>5. \A s \in 1..Len(log) : log'[s] = log[s]
    BY <2>1, <2>2, <2>3
  <2>6. Work'
    BY <1>1, <2>3, <2>4, <2>5, WorkKept DEF ReviewInv, SyncInv, TypeOK
  <2> QED
    BY <2>4, <2>6 DEF ReviewInv
<1>4. CASE GiveUp \/ Crash
  <2>1. /\ UNCHANGED <<log, heads, cursor, queue, inbox>> /\ wire' \subseteq wire
        /\ engine' = [engine EXCEPT !.at = "idle"] /\ hold'.step = "none"
    BY <1>4 DEF GiveUp, Crash, Goto, durable, Locked, NoHold
  <2>2. engine'.at # "picked"
    BY <2>1 DEF SyncInv, TypeOK, Engines
  <2>3. Records'
    BY <1>1, <2>1, RecordsExtend DEF ReviewInv
  <2> QED
    BY <2>1, <2>2, <2>3, WorkQuiet DEF ReviewInv
<1> QED
  BY <1>2, <1>3, <1>4 DEF Environment

\* The pull side of the cycle takes the next pending revision, which is the one
\* after the cursor, or the first decision that is not settled.
LEMMA PullReviews ==
    ASSUME SyncInv, SyncInv', ReviewInv, Pull
    PROVE  ReviewInv'
<1>1. UNCHANGED <<log, heads, cursor, wire>>
  BY DEF Pull, StartCycle, ResumeNext, ResumeDone, Drain, Fetch, Stage, EndPage,
     durable, network
<1>2. QueueExtends
  <2>1. CASE StartCycle
    BY <2>1, DiscoveryExtends
  <2>2. CASE queue' = queue
    BY <2>2 DEF QueueExtends
  <2> QED
    BY <2>1, <2>2 DEF Pull, ResumeNext, ResumeDone, Drain, Fetch, Stage, EndPage,
       durable
<1>3. InboxExtends
  <2>1. CASE inbox' = inbox
    BY <2>1 DEF InboxExtends
  <2>2. CASE inbox' = Append(inbox, Received)
    BY <2>2, StageExtends
  <2> QED
    BY <2>1, <2>2 DEF Pull, StartCycle, ResumeNext, ResumeDone, Drain, Fetch, Stage,
       EndPage, durable
<1>4. Records'
  BY <1>1, <1>2, <1>3, RecordsExtend DEF ReviewInv
<1>5. /\ engine \in Engines /\ inbox \in Seq(Entries) /\ cursor \in Nat
      /\ cursor <= Len(inbox)
  BY DEF SyncInv, TypeOK, Positions
<1>6. PullsDone => engine'.at # "picked"
  BY <1>5 DEF PullsDone, GotoPhase, Engines
<1>7. CASE StartCycle \/ ResumeDone \/ Fetch \/ EndPage
  <2>1. hold'.step = "none"
    BY <1>7 DEF StartCycle, ResumeDone, Fetch, EndPage, Locked
  <2>2. engine'.at # "picked"
    BY <1>5, <1>6, <1>7 DEF StartCycle, ResumeDone, Fetch, EndPage, Goto,
       GotoPhase, Engines
  <2> QED
    BY <1>4, <2>1, <2>2, WorkQuiet DEF ReviewInv
<1>8. CASE ResumeNext
  <2> DEFINE s == First(Unsettled)
  <2>1. s \in Unsettled
    BY <1>8, FirstIsLeast DEF ResumeNext, Unsettled
  <2>2. hold' = Holding("decide", s, "conflict") /\ engine' = engine
        /\ inbox' = inbox /\ engine.at = "resume"
    BY <1>8 DEF ResumeNext, durable
  <2> HIDE DEF s
  <2>3. /\ s \in 1..Len(inbox) /\ inbox[s].decision.choice # "none"
        /\ inbox[s].conflict # "resolved"
    BY <2>1 DEF Unsettled
  <2>4. inbox[s].conflict \in {"open", "superseded"}
    <3>1. inbox[s] \in Entries
      BY <1>5, <2>3
    <3> QED
      BY <2>3, <3>1 DEF Entries, ReviewInv, Records, ConflictLife
  <2>5. Work'
    BY <2>2, <2>3, <2>4 DEF Holding, Work, ApplyWork, FinishWork, DecideWork,
       PickedIsClear
  <2> QED
    BY <1>4, <2>5 DEF ReviewInv
<1>9. CASE Drain
  <2>1. CASE Pending # {}
    <3> DEFINE s == First(Pending)
    <3>1. s \in Pending /\ \A t \in Pending : s <= t
      BY <2>1, FirstIsLeast DEF Pending
    <3>2. hold' = Holding("apply", s, "applied") /\ engine' = engine
          /\ inbox' = inbox /\ engine.at = "drain"
      BY <1>9, <2>1 DEF Drain, durable
    <3> HIDE DEF s
    <3>3. s \in 1..Len(inbox) /\ s > cursor
      BY <1>5, <3>1 DEF Pending, SyncInv, Positions
    <3>4. cursor + 1 \in 1..Len(inbox)
      BY <1>5, <3>3
    <3>5. cursor + 1 \in Pending
      BY <1>5, <3>4 DEF Pending, SyncInv, Positions
    <3>6. s = cursor + 1
      BY <1>5, <3>1, <3>3, <3>5
    <3>7. Work'
      BY <1>1, <3>2, <3>3, <3>6 DEF Holding, Work, ApplyWork, FinishWork, DecideWork,
         PickedIsClear
    <3> QED
      BY <1>4, <3>7 DEF ReviewInv
  <2>2. CASE Pending = {}
    <3>1. hold'.step = "none" /\ engine'.at # "picked"
      BY <1>5, <1>9, <2>2 DEF Drain, Goto, Engines
    <3> QED
      BY <1>4, <3>1, WorkQuiet DEF ReviewInv
  <2> QED
    BY <2>1, <2>2
<1>10. CASE Stage
  <2>1. /\ hold' = Holding("apply", cursor + 1, "applied") /\ engine' = engine
        /\ inbox' = IF Len(inbox) = cursor THEN Append(inbox, Received) ELSE inbox
        /\ engine.at = "item"
    BY <1>10 DEF Stage
  <2>2. cursor + 1 \in 1..Len(inbox')
    <3>1. CASE Len(inbox) = cursor
      <4>1. Len(Append(inbox, Received)) = cursor + 1
        BY <1>5, <3>1, ReceivedType
      <4> QED
        BY <1>5, <2>1, <3>1, <4>1
    <3>2. CASE Len(inbox) # cursor
      BY <1>5, <2>1, <3>2
    <3> QED
      BY <3>1, <3>2
  <2>3. Work'
    BY <1>1, <2>1, <2>2 DEF Holding, Work, ApplyWork, FinishWork, DecideWork,
       PickedIsClear
  <2> QED
    BY <1>4, <2>3 DEF ReviewInv
<1> QED
  BY <1>7, <1>8, <1>9, <1>10 DEF Pull

\* A revision that is applied, acknowledged or a conflict goes on to be finished.
LEMMA ToFinishWork ==
    ASSUME SyncInv, Work, NEW s \in 1..Len(inbox), Applying(s),
           NEW outcome \in {"applied", "conflict"}, ToFinish(s, outcome),
           UNCHANGED <<engine, cursor, log>>, Len(inbox') = Len(inbox),
           outcome = "conflict" => inbox'[s].conflict = "open",
           Own(s) => queue'[log[s].file][log[s].by].stage = "acked"
    PROVE  Work'
<1>1. /\ hold' = Holding("finish", s, outcome) /\ engine' = engine
      /\ cursor' = cursor /\ log' = log
      /\ s = cursor + 1 /\ engine.at \in {"drain", "item"}
  BY DEF ToFinish, Applying, Work, ApplyWork
<1> QED
  BY <1>1 DEF Holding, Work, ApplyWork, FinishWork, DecideWork, PickedIsClear, Own

\* sync_apply_pending and sync_finish: an own revision is always recognised, so
\* only another device's can be known, in conflict or applied.
LEMMA ApplyReviews ==
    ASSUME SyncInv, SyncInv', ReviewInv, Apply
    PROVE  ReviewInv'
<1> SUFFICES ASSUME NEW s \in 1..Len(inbox),
                    ApplyOwn(s) \/ ApplyKnown(s) \/ ApplyConflict(s)
                    \/ ApplyFile(s) \/ Finish(s)
             PROVE  ReviewInv'
  BY DEF Apply
<1>1. s \in 1..Len(log) /\ log[s].file \in Files /\ log[s].content \in Hashes
  BY EntryRevision DEF SyncInv
<1>2. PICK f \in Files : f = log[s].file
  BY <1>1
<1>3. ~OwnRevision(s) => ~Own(s)
  BY SMTT(30), <1>1 DEF OwnRevision, Own, ReviewInv, Records, OwnStages
<1>4. CASE ApplyOwn(s)
  <2>1. PICK i \in 1..Len(queue[f]) : i = log[s].by /\ s \in Committed(f, i)
    BY <1>1, <1>2, <1>4 DEF ApplyOwn, OwnRevision, SyncInv, OwnOps, Own, Committed,
       RevisionsOf
  <2>2. /\ UNCHANGED <<log, cursor, inbox, engine>> /\ wire' \subseteq wire
        /\ Acked(f, i, s) /\ Applying(s) /\ ToFinish(s, "applied")
    BY <1>2, <1>4, <2>1 DEF ApplyOwn, network
  <2>3. Records' /\ queue'[f][i].stage = "acked"
    BY <2>1, <2>2, RecordsAck DEF ReviewInv
  <2>4. Work'
    BY <1>2, <2>1, <2>2, <2>3, ToFinishWork DEF ReviewInv
  <2> QED
    BY <2>3, <2>4 DEF ReviewInv
<1>5. CASE ApplyKnown(s) \/ ApplyFile(s)
  <2>1. /\ UNCHANGED <<log, heads, cursor, engine>> /\ wire' \subseteq wire
        /\ Applying(s) /\ ToFinish(s, "applied") /\ ~Own(s)
    BY <1>3, <1>5 DEF ApplyKnown, ApplyFile, network, durable
  <2>2. QueueExtends
    <3>1. CASE queue' = queue
      BY <3>1 DEF QueueExtends
    <3>2. CASE RemoteWrite(log[s].file, log[s].content)
      BY <1>1, <3>2, WriteExtends
    <3> QED
      BY <1>5, <3>1, <3>2 DEF ApplyKnown, ApplyFile, durable
  <2>3. InboxExtends /\ Len(inbox') = Len(inbox)
    <3>1. CASE inbox' = inbox
      BY <3>1 DEF InboxExtends
    <3>2. CASE inbox' = [inbox EXCEPT ![s].done = TRUE]
      BY <3>2, EntryExtends, EntryStates DEF SyncInv, TypeOK
    <3> QED
      BY <1>5, <3>1, <3>2 DEF ApplyKnown, ApplyFile, durable
  <2>4. Records'
    BY <2>1, <2>2, <2>3, RecordsExtend DEF ReviewInv
  <2>5. Work'
    BY <2>1, <2>3, ToFinishWork DEF ReviewInv
  <2> QED
    BY <2>4, <2>5 DEF ReviewInv
<1>6. CASE ApplyConflict(s)
  <2>1. /\ Records' /\ inbox'[s].conflict = "open" /\ ~Own(s)
        /\ Len(inbox') = Len(inbox)
    BY <1>6, RecordsConflict DEF ReviewInv
  <2>2. /\ UNCHANGED <<log, cursor, engine>> /\ Applying(s)
        /\ ToFinish(s, "conflict")
    BY <1>6 DEF ApplyConflict, network
  <2>3. Work'
    BY <2>1, <2>2, ToFinishWork DEF ReviewInv
  <2> QED
    BY <2>1, <2>3 DEF ReviewInv
<1>7. CASE Finish(s)
  <2>1. Records'
    BY <1>7, RecordsFinish DEF ReviewInv
  <2>2. hold'.step = "none" /\ engine' = engine /\ engine.at # "picked"
    BY <1>7 DEF Finish, NoHold, ReviewInv, Work, ApplyWork
  <2> QED
    BY <2>1, <2>2, WorkQuiet DEF ReviewInv
<1> QED
  BY <1>4, <1>5, <1>6, <1>7

\* push_one picks a job of a file without an open conflict, and posts it.
LEMMA PushReviews ==
    ASSUME SyncInv, SyncInv', ReviewInv, Push
    PROVE  ReviewInv'
<1>1. queue' = queue /\ inbox' = inbox => QueueExtends /\ InboxExtends
  BY DEF QueueExtends, InboxExtends
<1>2. engine \in Engines
  BY DEF SyncInv, TypeOK
<1>3. CASE Capture
  <2>1. QueueExtends
    BY <1>3, CaptureExtends
  <2>2. /\ UNCHANGED <<log, heads, cursor, hold, engine>> /\ wire' \subseteq wire
        /\ InboxExtends
    BY <1>3 DEF Capture, network, InboxExtends
  <2> QED
    BY <2>1, <2>2, ReviewExtends
<1>4. CASE NothingToPush \/ PushRejected
  <2>1. /\ UNCHANGED <<log, heads, cursor, queue, inbox>> /\ wire' \subseteq wire
        /\ hold'.step = "none" /\ engine'.at # "picked"
    BY <1>2, <1>4 DEF NothingToPush, PushRejected, Goto, GotoPhase, Engines,
       Locked, durable, network
  <2>2. Records'
    BY <1>1, <2>1, RecordsExtend DEF ReviewInv
  <2> QED
    BY <2>1, <2>2, WorkQuiet DEF ReviewInv
<1>5. ASSUME NEW f \in Files, Pick(f)
      PROVE  ReviewInv'
  <2>1. /\ UNCHANGED <<log, heads, cursor, queue, inbox>> /\ wire' \subseteq wire
        /\ hold'.step = "none" /\ engine'.file = f
    BY <1>2, <1>5 DEF Pick, Engines, durable, network
  <2>2. Open(f) = {}
    BY <1>5 DEF Pick, Sendable
  <2>3. Records'
    BY <1>1, <2>1, RecordsExtend DEF ReviewInv
  <2>4. Work'
    BY <2>1, <2>2 DEF Work, ApplyWork, FinishWork, DecideWork, PickedIsClear, Open
  <2> QED
    BY <2>3, <2>4 DEF ReviewInv
<1>6. ASSUME NEW f \in Files, NEW i \in 1..Len(queue[f]), Post(f, i)
      PROVE  ReviewInv'
  <2>1. Records'
    BY <1>6, RecordsPost DEF ReviewInv
  <2>2. hold'.step = "none" /\ engine'.at # "picked"
    BY <1>2, <1>6 DEF Post, Goto, Engines, Locked
  <2> QED
    BY <2>1, <2>2, WorkQuiet DEF ReviewInv
<1>7. ASSUME NEW f \in Files, NEW i \in 1..Len(queue[f]), PushAcked(f, i)
      PROVE  ReviewInv'
  <2>1. /\ UNCHANGED <<log, cursor, inbox>> /\ wire' \subseteq wire
        /\ hold'.step = "none" /\ engine'.at # "picked"
    BY <1>2, <1>7 DEF PushAcked, GotoPhase, Engines, Locked
  <2>2. PICK s \in Committed(f, i) : Acked(f, i, s)
    BY <1>7 DEF PushAcked
  <2>3. Records'
    BY <2>1, <2>2, RecordsAck DEF ReviewInv
  <2> QED
    BY <2>1, <2>3, WorkQuiet DEF ReviewInv
<1> QED
  BY <1>3, <1>4, <1>5, <1>6, <1>7 DEF Push

\* A decision whose file operation is done goes on to be settled, as long as its
\* conflict is about the head.
LEMMA ToSettleWork ==
    ASSUME SyncInv, Work, NEW s \in 1..Len(inbox), Deciding(s), CurrentHead(s),
           hold' = Holding("settle", s, "conflict"), InboxExtends,
           UNCHANGED <<engine, heads, log>>, \A f \in Files : Open(f)' = Open(f)
    PROVE  Work'
<1>1. /\ inbox[s].decision.choice # "none"
      /\ inbox[s].conflict \in {"open", "superseded"}
  BY DEF Deciding, Work, DecideWork
<1>2. /\ s \in 1..Len(inbox') /\ inbox'[s].conflict = inbox[s].conflict
      /\ inbox'[s].decision.choice = inbox[s].decision.choice
  BY DEF InboxExtends
<1>3. ApplyWork' /\ FinishWork' /\ DecideWork'
  BY <1>1, <1>2 DEF Holding, CurrentHead, ApplyWork, FinishWork, DecideWork
<1>4. PickedIsClear'
  <2>1. PICK f \in Files : f = engine.file
    BY DEF SyncInv, TypeOK, Engines
  <2>2. Open(f)' = Open(f)
    OBVIOUS
  <2> QED
    BY <2>1, <2>2 DEF Work, PickedIsClear, Open
<1> QED
  BY <1>3, <1>4 DEF Work

\* sync_apply_resolution: the copy and the file operation add to the tables, and
\* the last transaction resolves the conflict of the head.
LEMMA DecisionReviews ==
    ASSUME SyncInv, SyncInv', ReviewInv, Decision
    PROVE  ReviewInv'
<1> SUFFICES ASSUME NEW s \in 1..Len(inbox),
                    DecideCopy(s) \/ DecideLocal(s) \/ DecideRemote(s)
                    \/ DecideResumed(s) \/ DecideFails(s) \/ Settle(s)
             PROVE  ReviewInv'
  BY DEF Decision
<1>1. log[s].file \in Files /\ inbox[s] \in Entries
  BY EntryRevision DEF SyncInv
<1>2. inbox[s].decision.copy \in Files
  BY <1>1 DEF Entries, Decisions
<1>3. /\ queue' = queue => QueueExtends
      /\ inbox' = inbox => InboxExtends
  BY DEF QueueExtends, InboxExtends
<1>4. CASE DecideCopy(s)
  <2>1. QueueExtends
    BY <1>2, <1>4, WriteExtends DEF DecideCopy
  <2>2. InboxExtends
    BY <1>4, EntryExtends DEF DecideCopy
  <2> QED
    BY <1>4, <2>1, <2>2, ReviewExtends DEF DecideCopy, network
<1>5. CASE DecideLocal(s) \/ DecideRemote(s) \/ DecideResumed(s)
  <2>1. /\ UNCHANGED <<log, heads, cursor, engine>> /\ wire' \subseteq wire
        /\ hold' = Holding("settle", s, "conflict") /\ Deciding(s) /\ CurrentHead(s)
    BY <1>5 DEF DecideLocal, DecideRemote, DecideResumed, network, durable
  <2>2. QueueExtends
    BY SMTT(30), <1>1, <1>3, <1>5, WriteExtends
       DEF DecideLocal, DecideRemote, DecideResumed, durable
  <2>3. InboxExtends
    BY <1>3, <1>5, EntryExtends DEF DecideLocal, DecideRemote, DecideResumed, durable
  <2>4. Records' /\ \A f \in Files : Open(f)' = Open(f)
    BY <2>1, <2>2, <2>3, RecordsExtend DEF ReviewInv
  <2>5. Work'
    BY <2>1, <2>3, <2>4, ToSettleWork DEF ReviewInv
  <2> QED
    BY <2>4, <2>5 DEF ReviewInv
<1>6. CASE DecideFails(s)
  <2>1. /\ UNCHANGED <<log, heads, cursor, queue, inbox>> /\ wire' \subseteq wire
        /\ hold'.step = "none"
        /\ engine' = engine \/ engine' = [engine EXCEPT !.at = "idle"]
    BY <1>6 DEF DecideFails, Goto, NoHold, network, durable
  <2>2. Records' /\ \A f \in Files : Open(f)' = Open(f)
    BY <1>3, <2>1, RecordsExtend DEF ReviewInv
  <2>3. engine \in Engines /\ (engine'.at = "picked" => engine' = engine)
    BY <2>1 DEF SyncInv, TypeOK, Engines
  <2>4. Work'
    BY <2>1, <2>2, <2>3, WorkQuiet DEF ReviewInv, Work
  <2> QED
    BY <2>2, <2>4 DEF ReviewInv
<1>7. CASE Settle(s)
  <2>1. Records' /\ \A f \in Files : Open(f)' \subseteq Open(f)
    BY <1>7, RecordsSettle DEF ReviewInv
  <2>2. hold'.step = "none" /\ engine' = engine /\ engine \in Engines
    BY <1>7 DEF Settle, NoHold, SyncInv, TypeOK
  <2>3. Work'
    BY <2>1, <2>2, WorkQuiet DEF ReviewInv, Work
  <2> QED
    BY <2>1, <2>3 DEF ReviewInv
<1> QED
  BY <1>4, <1>5, <1>6, <1>7

-----------------------------------------------------------------------------
(* Theorems *)

\* The second invariant holds of every reachable state: what the tables, the
\* log and the wire say of conflicts and bases agrees, through lost answers,
\* process stops and decisions taken between the pieces of a cycle.
THEOREM ReviewInvariant == Spec => []ReviewInv
<1>1. Init => ReviewInv
  <2> SUFFICES ASSUME Init PROVE ReviewInv
    OBVIOUS
  <2>1. Records
    BY DEF Init, Records, FrozenJobs, RefusedWire, OwnBases, OwnStages,
       ConflictLife, Superseded, OpenIsQuiet, BasesReviewed
  <2>2. Work
    BY DEF Init, NoHold, Work, ApplyWork, FinishWork, DecideWork, PickedIsClear
  <2> QED
    BY <2>1, <2>2 DEF ReviewInv
<1>2. SyncInv /\ SyncInv' /\ ReviewInv /\ [Next]_vars => ReviewInv'
  <2> SUFFICES ASSUME SyncInv, SyncInv', ReviewInv, [Next]_vars PROVE ReviewInv'
    OBVIOUS
  <2>1. CASE UNCHANGED vars
    BY <2>1, ReviewExtends DEF QueueExtends, InboxExtends, vars, network, durable
  <2> QED
    BY <2>1, ServerReviews, PersonReviews, EnvironmentReviews, PullReviews,
       ApplyReviews, PushReviews, DecisionReviews DEF Next
<1> QED
  BY <1>1, <1>2, SyncInvariant, PTL DEF Spec

\* The echo of an own operation is never a conflict, also when its answer was
\* lost, the process stopped before sync_ack, or the operation was on the wire
\* when its file came into conflict.
THEOREM OwnWorkNeverConflicts == Spec => []NoSelfConflict
<1>1. ReviewInv => NoSelfConflict
  BY DEF ReviewInv, Records, ConflictLife, NoSelfConflict
<1> QED
  BY <1>1, ReviewInvariant, PTL

\* Every base that sync_commit_payload froze is a revision that this device
\* made, applied, or had a person decide: no upload replaces another device's
\* work unseen.
THEOREM UploadsOnReviewedBases == Spec => []BasesReviewed
<1>1. ReviewInv => BasesReviewed
  BY DEF ReviewInv, Records
<1> QED
  BY <1>1, ReviewInvariant, PTL

-----------------------------------------------------------------------------
(* What the engine overwrites *)

\* An operation of this device is in the log with the content it was given.
OwnContents ==
    \A s \in 1..Len(log) : Own(s) =>
        log[s].content = queue[log[s].file][log[s].by].content

\* A head says what its revision contains.
HeadContents ==
    \A f \in Files : heads[f].revision # 0 =>
        heads[f].hash = log[heads[f].revision].content

\* No step changes the content of an operation.
ContentsKept ==
    \A f \in Files : \A i \in 1..Len(queue[f]) :
        /\ i \in 1..Len(queue'[f])
        /\ queue'[f][i].content = queue[f][i].content

\* Writing, also through discovery, appends to the queue of a file.
LEMMA AppendKeeps ==
    ASSUME SyncInv,
           \A f \in Files : \/ queue'[f] = queue[f]
                            \/ \E job : queue'[f] = Append(queue[f], job)
    PROVE  ContentsKept
<1> SUFFICES ASSUME NEW f \in Files, NEW i \in 1..Len(queue[f]), NEW job,
                    queue'[f] = Append(queue[f], job)
             PROVE  /\ i \in 1..Len(queue'[f])
                    /\ queue'[f][i] = queue[f][i]
  BY DEF ContentsKept
<1>1. queue[f] \in Seq(Jobs)
  BY DEF SyncInv, TypeOK
<1> QED
  BY <1>1

\* Freezing, capturing, acknowledging and archiving change other fields.
LEMMA UpdateKeeps ==
    ASSUME SyncInv, SyncInv', NEW f \in Files,
           DOMAIN queue'[f] = DOMAIN queue[f],
           \A i \in 1..Len(queue[f]) : queue'[f][i].content = queue[f][i].content
    PROVE  \A i \in 1..Len(queue[f]) :
               /\ i \in 1..Len(queue'[f])
               /\ queue'[f][i].content = queue[f][i].content
<1>1. queue \in [Files -> Seq(Jobs)] /\ queue' \in [Files -> Seq(Jobs)]
  BY DEF SyncInv, TypeOK
<1>2. queue[f] \in Seq(Jobs) /\ queue'[f] \in Seq(Jobs)
  BY <1>1
<1> QED
  BY <1>2

\* No step changes the content of an operation.
LEMMA ContentsStep ==
    ASSUME SyncInv, SyncInv', [Next]_vars
    PROVE  ContentsKept
<1>a. queue' = queue => ContentsKept
  BY DEF ContentsKept
<1>b. queue \in [Files -> Seq(Jobs)]
  BY DEF SyncInv, TypeOK
<1>e. \A f \in Files : \A i \in 1..Len(queue[f]) : queue[f][i] \in Jobs
  BY <1>b
<1>c. ASSUME NEW f \in Files, NEW c, LocalWrite(f, c)
      PROVE  ContentsKept
  <2>1. queue'[f] = Append(queue[f], NewJob(c)) /\ \A g \in Files \ {f} : queue'[g] = queue[g]
    BY <1>b, <1>c DEF LocalWrite
  <2> QED
    BY <2>1, AppendKeeps
<1>d. ASSUME NEW f \in Files, NEW i \in 1..Len(queue[f]), NEW s, Acked(f, i, s)
      PROVE  ContentsKept
  <2>1. queue' = [queue EXCEPT ![f] = [queue[f] EXCEPT ![i] =
                     [queue[f][i] EXCEPT !.stage = "acked"]]]
    BY <1>d DEF Acked
  <2>2. /\ queue'[f] = [queue[f] EXCEPT ![i] = [queue[f][i] EXCEPT !.stage = "acked"]]
        /\ \A g \in Files \ {f} : queue'[g] = queue[g]
    BY <1>b, <2>1
  <2>3. queue[f] \in Seq(Jobs) /\ DOMAIN queue'[f] = DOMAIN queue[f]
    BY <1>b, <2>2
  <2>4. \A j \in 1..Len(queue[f]) : queue'[f][j].content = queue[f][j].content
    BY <1>e, <2>2, <2>3 DEF Jobs
  <2> QED
    BY <2>2, <2>3, <2>4, UpdateKeeps DEF ContentsKept
<1>1. CASE Server \/ Environment
  BY <1>1, <1>a DEF Server, Serve, Environment, ExternalEdit, OtherCommit, GiveUp,
     Crash, durable
<1>2. CASE Person
  <2>1. ASSUME NEW f \in Files, NEW c \in Hashes, Edit(f, c)
        PROVE  ContentsKept
    BY <1>c, <2>1 DEF Edit
  <2> QED
    BY <1>2, <1>a, <2>1 DEF Person, Decide
<1>3. CASE Pull
  <2>1. CASE StartCycle
    BY <2>1, AppendKeeps DEF StartCycle
  <2> QED
    BY <1>3, <1>a, <2>1 DEF Pull, ResumeNext, ResumeDone, Drain, Fetch, Stage,
       EndPage, durable
<1>4. ASSUME NEW s \in 1..Len(inbox),
             ApplyOwn(s) \/ ApplyKnown(s) \/ ApplyConflict(s) \/ ApplyFile(s) \/ Finish(s)
      PROVE  ContentsKept
  <2> DEFINE f == log[s].file
  <2>1. f \in Files /\ s \in 1..Len(log)
    BY EntryRevision DEF SyncInv
  <2>2. CASE ApplyOwn(s)
    <3>1. log[s].by \in 1..Len(queue[f])
      BY <2>1, <2>2 DEF ApplyOwn, OwnRevision, SyncInv, OwnOps, Own
    <3> QED
      BY <1>d, <2>1, <2>2, <3>1 DEF ApplyOwn
  <2>3. CASE ApplyKnown(s) \/ ApplyFile(s) \/ Finish(s)
    BY <1>a, <2>3 DEF ApplyKnown, ApplyFile, Finish, RemoteWrite, durable
  <2>4. CASE ApplyConflict(s)
    <3>1. /\ queue'[f] = [i \in DOMAIN queue[f] |->
                 IF queue[f][i].stage \in {"queued", "committing"}
                 THEN [queue[f][i] EXCEPT !.stage = "conflict"] ELSE queue[f][i]]
          /\ \A g \in Files \ {f} : queue'[g] = queue[g]
      BY <1>b, <2>1, <2>4 DEF ApplyConflict
    <3>2. /\ DOMAIN queue'[f] = DOMAIN queue[f] /\ DOMAIN queue[f] = 1..Len(queue[f])
      BY <1>b, <2>1, <3>1
    <3>3. \A i \in 1..Len(queue[f]) : queue'[f][i].content = queue[f][i].content
      BY SMTT(20), <1>e, <2>1, <3>1, <3>2 DEF Jobs
    <3> HIDE DEF f
    <3> QED
      BY <2>1, <3>1, <3>2, <3>3, UpdateKeeps DEF ContentsKept
  <2> QED
    BY <1>4, <2>2, <2>3, <2>4
<1>5. CASE Push
  <2>1. CASE Capture
    <3>1. \A f \in Files :
             /\ DOMAIN queue'[f] = DOMAIN queue[f]
             /\ \A i \in DOMAIN queue[f] :
                  \/ queue'[f][i] = queue[f][i]
                  \/ queue'[f][i] = [queue[f][i] EXCEPT !.stage = "queued"]
      BY <2>1 DEF Capture, Captured
    <3>2. \A f \in Files : DOMAIN queue[f] = 1..Len(queue[f])
      BY <1>b
    <3>3. ASSUME NEW f \in Files, NEW i \in 1..Len(queue[f])
          PROVE  queue'[f][i].content = queue[f][i].content
      <4>1. queue[f][i] \in Jobs /\ i \in DOMAIN queue[f]
        BY <1>e, <3>2
      <4>2. CASE queue'[f][i] = queue[f][i]
        BY <4>2
      <4>3. CASE queue'[f][i] = [queue[f][i] EXCEPT !.stage = "queued"]
        BY <4>1, <4>3 DEF Jobs
      <4> QED
        BY <3>1, <4>1, <4>2, <4>3
    <3> QED
      BY <3>1, <3>3, UpdateKeeps DEF ContentsKept
  <2>2. ASSUME NEW f \in Files, NEW i \in 1..Len(queue[f]), Post(f, i)
        PROVE  ContentsKept
    <3>1. /\ queue'[f] = [queue[f] EXCEPT ![i] = Frozen(queue[f][i], f)]
          /\ \A g \in Files \ {f} : queue'[g] = queue[g]
      BY <1>b, <2>2 DEF Post
    <3>2. queue[f] \in Seq(Jobs) /\ DOMAIN queue'[f] = DOMAIN queue[f]
      BY <1>b, <3>1
    <3>3. \A j \in 1..Len(queue[f]) : queue'[f][j].content = queue[f][j].content
      BY <1>e, <3>1, <3>2 DEF Jobs, Frozen
    <3> QED
      BY <3>1, <3>2, <3>3, UpdateKeeps DEF ContentsKept
  <2>3. ASSUME NEW f \in Files, NEW i \in 1..Len(queue[f]), PushAcked(f, i)
        PROVE  ContentsKept
    BY <1>d, <2>3 DEF PushAcked
  <2>4. CASE NothingToPush \/ PushRejected \/ \E f \in Files : Pick(f)
    BY <1>a, <2>4 DEF NothingToPush, PushRejected, Pick, durable
  <2> QED
    BY <1>5, <2>1, <2>2, <2>3, <2>4 DEF Push
<1>6. ASSUME NEW s \in 1..Len(inbox),
             DecideCopy(s) \/ DecideLocal(s) \/ DecideRemote(s)
             \/ DecideResumed(s) \/ DecideFails(s) \/ Settle(s)
      PROVE  ContentsKept
  <2> DEFINE f == log[s].file
             d == inbox[s].decision
  <2>1. f \in Files /\ d.copy \in Files
    <3>1. inbox[s] \in Entries /\ f \in Files
      BY EntryRevision DEF SyncInv
    <3> QED
      BY <3>1 DEF Entries, Decisions
  <2>2. CASE DecideCopy(s) \/ DecideLocal(s)
    BY <1>c, <2>1, <2>2 DEF DecideCopy, DecideLocal
  <2>3. CASE DecideRemote(s) \/ DecideResumed(s) \/ DecideFails(s)
    BY <1>a, <2>3 DEF DecideRemote, DecideResumed, DecideFails, RemoteWrite, durable
  <2>4. CASE Settle(s)
    <3>1. /\ queue'[f] = Archived(f, d.op)
          /\ \A g \in Files \ {f} : queue'[g] = queue[g]
      BY <1>b, <2>1, <2>4 DEF Settle
    <3>2. DOMAIN queue'[f] = DOMAIN queue[f] /\ DOMAIN queue[f] = 1..Len(queue[f])
      BY <1>b, <2>1, <3>1 DEF Archived
    <3>3. \A i \in 1..Len(queue[f]) : queue'[f][i].content = queue[f][i].content
      BY SMTT(20), <1>e, <2>1, <3>1, <3>2 DEF Archived, Jobs
    <3> HIDE DEF f
    <3> QED
      BY <2>1, <3>1, <3>2, <3>3, UpdateKeeps DEF ContentsKept
  <2> QED
    BY <1>6, <2>2, <2>3, <2>4
<1>7. CASE UNCHANGED vars
  BY <1>7, <1>a DEF vars, durable
<1> QED
  BY <1>1, <1>2, <1>3, <1>4, <1>5, <1>6, <1>7 DEF Next, Apply, Decision

\* What the server adds to the log, while nothing changes on the device.
LEMMA LogStep ==
    ASSUME SyncInv, [Next]_vars
    PROVE  \/ log' = log
           \/ /\ UNCHANGED <<heads, queue>>
              /\ \E r \in Revisions :
                    /\ log' = Append(log, r)
                    /\ \/ r.by = Other
                       \/ /\ r.by \in 1..Len(queue[r.file])
                          /\ r.content = queue[r.file][r.by].content
<1>1. ASSUME NEW f \in Files, NEW i \in 1..Len(queue[f]), Serve(f, i), log' # log
      PROVE  /\ UNCHANGED <<heads, queue>>
             /\ \E r \in Revisions :
                   /\ log' = Append(log, r)
                   /\ r.by \in 1..Len(queue[r.file])
                   /\ r.content = queue[r.file][r.by].content
  <2> DEFINE r == Revision(f, queue[f][i].base, queue[f][i].content, i)
  <2>1. log' = Append(log, r)
    BY <1>1 DEF Serve
  <2>2. queue[f][i] \in Jobs /\ i \in Nat
    BY DEF SyncInv, TypeOK
  <2>3. r \in Revisions /\ r.file = f /\ r.by = i /\ r.content = queue[f][i].content
    BY <2>2 DEF Revision, Revisions, Jobs
  <2> HIDE DEF r
  <2> QED
    BY <1>1, <2>1, <2>3 DEF Serve, durable
<1>2. ASSUME NEW f \in Files, NEW c \in Hashes, OtherCommit(f, c)
      PROVE  /\ UNCHANGED <<heads, queue>>
             /\ \E r \in Revisions : log' = Append(log, r) /\ r.by = Other
  <2> DEFINE r == Revision(f, ServerHead(f), c, Other)
  <2>1. log' = Append(log, r)
    BY <1>2 DEF OtherCommit
  <2>2. ServerHead(f) \in Nat
    <3>1. Len(log) \in Nat /\ RevisionsOf(f) \subseteq 1..Len(log)
      BY DEF RevisionsOf, SyncInv, TypeOK
    <3> QED
      BY <3>1, LatestInNat DEF ServerHead
  <2>3. r \in Revisions /\ r.by = Other
    BY <2>2 DEF Revision, Revisions, Other
  <2> HIDE DEF r
  <2> QED
    BY <1>2, <2>1, <2>3 DEF OtherCommit, durable
<1>3. CASE \/ Apply \/ Pull \/ Push \/ Decision \/ Person \/ UNCHANGED vars
           \/ GiveUp \/ Crash \/ \E f \in Files, c \in Hashes : ExternalEdit(f, c)
  <2>1. CASE Apply \/ Decision \/ Person
    BY <2>1 DEF Apply, ApplyOwn, ApplyKnown, ApplyConflict, ApplyFile, Finish,
       Decision, DecideCopy, DecideLocal, DecideRemote, DecideResumed, DecideFails,
       Settle, Person, Edit, Decide, network
  <2>2. CASE Pull \/ Push
    BY <2>2 DEF Pull, StartCycle, ResumeNext, ResumeDone, Drain, Fetch, Stage,
       EndPage, Push, Capture, NothingToPush, PushRejected, Pick, Post, PushAcked,
       network
  <2> QED
    BY <1>3, <2>1, <2>2 DEF GiveUp, Crash, ExternalEdit, vars, network
<1> QED
  BY <1>1, <1>2, <1>3 DEF Next, Server, Environment

\* Who sets heads: sync_ack for an operation that the log has, and sync_finish.
LEMMA HeadStep ==
    ASSUME SyncInv, [Next]_vars
    PROVE  \/ heads' = heads
           \/ /\ UNCHANGED log
              /\ \E f \in Files : \E s \in RevisionsOf(f), c \in Hashes :
                    /\ heads' = Newer(f, s, c)
                    /\ \/ c = log[s].content
                       \/ Own(s) /\ c = queue[f][log[s].by].content
<1>a. \A s \in 1..Len(log) : log[s] \in Revisions /\ log[s].file \in Files
                             /\ log[s].content \in Hashes
  <2>1. \A s \in 1..Len(log) : log[s] \in Revisions
    BY DEF SyncInv, TypeOK
  <2> QED
    BY <2>1 DEF Revisions
<1>b. \A f \in Files : \A i \in 1..Len(queue[f]) : queue[f][i].content \in Hashes
  BY Tables DEF Jobs
<1>1. ASSUME NEW s \in 1..Len(inbox), ApplyOwn(s)
      PROVE  /\ UNCHANGED log
             /\ \E f \in Files : \E t \in RevisionsOf(f), c \in Hashes :
                   heads' = Newer(f, t, c) /\ Own(t) /\ c = queue[f][log[t].by].content
  <2>1. s \in 1..Len(log) /\ Own(s)
    BY <1>1, Tables DEF ApplyOwn, OwnRevision, Own
  <2>2. log[s].by \in 1..Len(queue[log[s].file]) /\ log[s].file \in Files
    BY <1>a, <2>1, Tables
  <2>3. s \in RevisionsOf(log[s].file)
    BY <2>1 DEF RevisionsOf
  <2>4. heads' = Newer(log[s].file, s, queue[log[s].file][log[s].by].content)
    BY <1>1 DEF ApplyOwn, Acked
  <2> QED
    BY <1>1, <1>b, <2>1, <2>2, <2>3, <2>4 DEF ApplyOwn, network
<1>2. ASSUME NEW f \in Files, NEW i \in 1..Len(queue[f]), PushAcked(f, i)
      PROVE  /\ UNCHANGED log
             /\ \E t \in RevisionsOf(f), c \in Hashes :
                   heads' = Newer(f, t, c) /\ Own(t) /\ c = queue[f][log[t].by].content
  <2>1. PICK s \in Committed(f, i) : heads' = Newer(f, s, queue[f][i].content)
    BY <1>2 DEF PushAcked, Acked
  <2>2. i \in Nat /\ i # 0 /\ s \in RevisionsOf(f) /\ log[s].by = i
    BY DEF Committed
  <2>3. Own(s)
    BY <2>2 DEF Own, Other
  <2> QED
    BY <1>2, <1>b, <2>1, <2>2, <2>3 DEF PushAcked
<1>3. ASSUME NEW s \in 1..Len(inbox), Finish(s)
      PROVE  /\ UNCHANGED log
             /\ \E f \in Files : \E t \in RevisionsOf(f), c \in Hashes :
                   heads' = Newer(f, t, c) /\ c = log[t].content
  <2>1. s \in 1..Len(log)
    BY Tables
  <2>2. s \in RevisionsOf(log[s].file)
    BY <2>1 DEF RevisionsOf
  <2> QED
    BY <1>3, <1>a, <2>1, <2>2 DEF Finish, network
<1>4. ASSUME NEW s \in 1..Len(inbox),
             ApplyKnown(s) \/ ApplyConflict(s) \/ ApplyFile(s)
      PROVE  heads' = heads
  BY <1>4 DEF ApplyKnown, ApplyConflict, ApplyFile, durable
<1>5. CASE Server \/ Environment \/ Pull \/ UNCHANGED vars
  BY <1>5 DEF Server, Serve, Environment, ExternalEdit, OtherCommit, GiveUp, Crash,
     Pull, StartCycle, ResumeNext, ResumeDone, Drain, Fetch, Stage, EndPage, vars,
     durable
<1>6. CASE Decision \/ Person
  BY <1>6 DEF Decision, DecideCopy, DecideLocal, DecideRemote, DecideResumed,
     DecideFails, Settle, Person, Edit, Decide, durable
<1>7. CASE Push /\ ~\E f \in Files : \E i \in 1..Len(queue[f]) : PushAcked(f, i)
  BY <1>7 DEF Push, Capture, NothingToPush, PushRejected, Pick, Post, durable
<1> QED
  BY <1>1, <1>2, <1>3, <1>4, <1>5, <1>6, <1>7 DEF Next, Apply, Push

\* The log and the heads keep their contents: a head is set by sync_finish from
\* the log or by sync_ack from the operation, which have the same content.
LEMMA HeadContentsStep ==
    ASSUME SyncInv, SyncInv', OwnContents, HeadContents, [Next]_vars
    PROVE  OwnContents' /\ HeadContents'
<1>a. /\ Len(log) \in Nat /\ log \in Seq(Revisions) /\ heads \in [Files -> Heads]
  BY DEF SyncInv, TypeOK
<1>b. \A s \in 1..Len(log) : log[s].file \in Files
  BY Tables
<1>c. \A s \in 1..Len(log) : Own(s) => log[s].by \in 1..Len(queue[log[s].file])
  BY Tables
<1>d. ContentsKept
  BY ContentsStep
<1>e. \A f \in Files : /\ heads[f].revision \in Nat
                       /\ heads[f].revision # 0 => heads[f].revision \in 1..Len(log)
  BY <1>a, Tables
<1>1. CASE log' = log
  <2>1. OwnContents'
    <3> SUFFICES ASSUME NEW s \in 1..Len(log), Own(s)
                 PROVE  log[s].content = queue'[log[s].file][log[s].by].content
      BY <1>1 DEF OwnContents, Own
    <3>1. queue'[log[s].file][log[s].by].content = queue[log[s].file][log[s].by].content
      BY <1>b, <1>c, <1>d DEF ContentsKept
    <3> QED
      BY <3>1 DEF OwnContents
  <2>2. CASE heads' = heads
    BY <1>1, <2>1, <2>2 DEF HeadContents
  <2>3. ASSUME NEW f \in Files, NEW s \in RevisionsOf(f), NEW c \in Hashes,
               heads' = Newer(f, s, c),
               \/ c = log[s].content
               \/ Own(s) /\ c = queue[f][log[s].by].content
        PROVE  HeadContents'
    <3>1. s \in 1..Len(log) /\ log[s].file = f
      BY DEF RevisionsOf
    <3>2. c = log[s].content
      BY <2>3, <3>1 DEF OwnContents
    <3>3. CASE heads' = heads
      BY <1>1, <3>3 DEF HeadContents
    <3>4. CASE heads' = [heads EXCEPT ![f] = [revision |-> s, hash |-> c]]
      <4>1. /\ heads'[f].revision = s /\ heads'[f].hash = c
            /\ \A g \in Files \ {f} : heads'[g] = heads[g]
        BY <1>a, <3>4
      <4> QED
        BY <1>1, <3>2, <4>1 DEF HeadContents
    <3> QED
      BY <2>3, <3>3, <3>4 DEF Newer
  <2> QED
    BY <2>1, <2>2, <2>3, HeadStep
<1>2. ASSUME NEW r \in Revisions, log' = Append(log, r), UNCHANGED <<heads, queue>>,
             \/ r.by = Other
             \/ /\ r.by \in 1..Len(queue[r.file])
                /\ r.content = queue[r.file][r.by].content
      PROVE  OwnContents' /\ HeadContents'
  <2>1. /\ Len(log') = Len(log) + 1 /\ log'[Len(log) + 1] = r
        /\ \A s \in 1..Len(log) : log'[s] = log[s]
    BY <1>a, <1>2
  <2>2. \A s \in 1..Len(log') : s \in 1..Len(log) \/ s = Len(log) + 1
    BY <1>a, <2>1
  <2>3. OwnContents'
    BY <1>2, <2>1, <2>2 DEF OwnContents, Own
  <2>4. HeadContents'
    BY <1>e, <1>2, <2>1 DEF HeadContents
  <2> QED
    BY <2>3, <2>4
<1> QED
  BY <1>1, <1>2, LogStep

\* sync_apply_pending replaces or deletes a file only if the head has its
\* content, and the log has the content of the head.
THEOREM UnsyncedIsSpared == Spec => NeverOverwritesUnsynced
<1> DEFINE ContentInv == OwnContents /\ HeadContents
           Spared == hold.step = "apply" =>
                       \A f \in Files : disk'[f] # disk[f] /\ disk[f] # Absent
                          /\ budget'.externals = budget.externals =>
                            \E s \in RevisionsOf(f) : log[s].content = disk[f]
<1>1. Init => ContentInv
  BY DEF Init, OwnContents, HeadContents
<1>2. SyncInv /\ SyncInv' /\ ContentInv /\ [Next]_vars => ContentInv'
  BY HeadContentsStep
<1>3. SyncInv /\ HeadContents /\ [Next]_vars => Spared
  <2> SUFFICES ASSUME SyncInv, HeadContents, [Next]_vars, hold.step = "apply",
                      NEW f \in Files, disk'[f] # disk[f], disk[f] # Absent,
                      budget'.externals = budget.externals
               PROVE  \E s \in RevisionsOf(f) : log[s].content = disk[f]
    OBVIOUS
  <2>1. ~Person
    BY DEF Person, Edit, Decide, Locked
  <2>2. ~Decision
    BY DEF Decision, DecideCopy, DecideLocal, DecideRemote, DecideResumed,
       DecideFails, Settle, Deciding
  <2>3. ~(Server \/ Pull \/ Push \/ UNCHANGED vars \/ GiveUp \/ Crash)
    BY DEF Server, Serve, Pull, StartCycle, ResumeNext, ResumeDone, Drain, Fetch,
       Stage, EndPage, Push, Capture, NothingToPush, PushRejected, Pick, Post,
       PushAcked, GiveUp, Crash, vars, durable
  <2>4. ~\E g \in Files, c \in Hashes : ExternalEdit(g, c) \/ OtherCommit(g, c)
    <3>1. budget \in Budgets
      BY DEF SyncInv, TypeOK
    <3>2. ASSUME NEW g \in Files, NEW c \in Hashes, ExternalEdit(g, c)
          PROVE  FALSE
      <4>1. budget'.externals = budget.externals - 1 /\ budget.externals \in Nat
        BY <3>1, <3>2 DEF ExternalEdit, Budgets
      <4> QED
        BY <4>1
    <3> QED
      BY <3>2 DEF OtherCommit, durable
  <2>5. PICK s \in 1..Len(inbox) : ApplyFile(s)
    BY <2>1, <2>2, <2>3, <2>4 DEF Next, Environment, Apply, ApplyOwn, ApplyKnown,
       ApplyConflict, Finish, durable
  <2>6. f = log[s].file /\ ~LocalWork(f)
    BY <2>5 DEF ApplyFile, RemoteWrite, SyncInv, TypeOK
  <2>7. heads[f].revision # 0 /\ heads[f].hash = disk[f]
    BY <2>6 DEF LocalWork
  <2>8. heads[f].revision \in RevisionsOf(f)
    <3>1. Dealt(f) \subseteq 1..Len(log) /\ Len(log) \in Nat
      BY DEF Dealt, RevisionsOf, SyncInv, TypeOK
    <3>2. heads[f].revision \in Dealt(f)
      BY <2>7, <3>1, LatestIsGreatest DEF SyncInv, HeadsLatest
    <3> QED
      BY <3>2 DEF Dealt
  <2> QED
    BY <2>7, <2>8 DEF HeadContents
<1>4. Spec => []ContentInv
  BY <1>1, <1>2, SyncInvariant, PTL DEF Spec
<1>5. Spec => [][Spared]_vars
  BY <1>3, <1>4, SyncInvariant, PTL DEF Spec
<1> QED
  BY <1>5 DEF NeverOverwritesUnsynced

-----------------------------------------------------------------------------
(* Where edits are, while no other program edits and no process stops *)

\* The hypothesis: the two disturbances with which the code does less than it
\* says (README, section 7) do not occur.
Undisturbed == MaxExternals = 0 /\ MaxCrashes = 0

\* Nothing but journalled operations changes a file.
Calm ==
    /\ budget.externals = 0 /\ budget.crashes = 0
    /\ disk = observed

\* The head has every revision of the file up to it behind itself.
HeadComplete(f) ==
    \A s \in RevisionsOf(f) : s <= heads[f].revision => s \in Dealt(f)

Over == {"acked", "archived"}
\* The operations of a file are dealt with in order: what is sent or over has
\* nothing outgoing before it.
InOrder(f) ==
    \A i, j \in 1..Len(queue[f]) :
        i < j /\ queue[f][j].stage \in {"committing", "acked", "archived"} =>
            queue[f][i].stage \in Over
\* An operation in conflict waits for a decision.
ConflictShown(f) ==
    \A i \in 1..Len(queue[f]) : queue[f][i].stage = "conflict" => Open(f) # {}

\* A file in the middle of a replacement: the disk is ahead of the head.
Replacing(f) ==
    /\ hold.step = "finish" /\ hold.outcome = "applied" /\ log[hold.seq].file = f
    /\ heads[f].revision < hold.seq /\ disk[f] = log[hold.seq].content
Overruled(f) == hold.step = "settle" /\ log[hold.seq].file = f

\* The newest operation has the content of the disk, as long as it is outgoing.
NewestIsDisk(f) ==
    \A i \in 1..Len(queue[f]) :
        i = Len(queue[f]) /\ queue[f][i].stage \notin Over =>
            disk[f] = queue[f][i].content \/ Overruled(f)
\* The disk is the head, or the difference is on its way.
EditKnown(f) ==
    \/ disk[f] = heads[f].hash
    \/ Outgoing(f) # {} \/ Open(f) # {} \/ Replacing(f)

FileInv(f) ==
    /\ HeadComplete(f) /\ InOrder(f) /\ ConflictShown(f)
    /\ NewestIsDisk(f) /\ EditKnown(f)

\* The operation that was picked is the first that is outgoing.
PickedFirst ==
    engine.at = "picked" =>
        /\ engine.op \in 1..Len(queue[engine.file])
        /\ \A i \in 1..Len(queue[engine.file]) :
              i < engine.op => queue[engine.file][i].stage \in Over

\* A revision is applied in the piece of work that finishes it.
AppliedNow ==
    /\ hold.step = "finish" /\ hold.outcome = "applied" =>
         LET f == log[hold.seq].file IN
         heads[f].revision >= hold.seq \/ Replacing(f)
    /\ \A s \in Pending : inbox[s].done => hold.step = "finish" /\ hold.seq = s

\* A decision is carried out in the piece of work in which it was taken, on the
\* file that was reviewed.
DecidedNow ==
    /\ \A s \in Unsettled : hold.step \in {"decide", "settle"} /\ hold.seq = s
    /\ hold.step \in {"decide", "settle"} =>
         LET s == hold.seq  f == log[s].file IN s \in Open(f) /\ CurrentHead(s)
    /\ hold.step = "decide" =>
         LET s == hold.seq  f == log[s].file  d == inbox[s].decision IN
         /\ ~d.committed /\ AsReviewed(s) /\ d.seen = Len(queue[f]) /\ d.op = 0
         /\ NeedsCopy(s) => disk[d.copy] = Absent /\ d.copy # f
    /\ hold.step = "settle" =>
         LET s == hold.seq  f == log[s].file  d == inbox[s].decision IN
         IF d.choice = "local"
         THEN /\ d.op = d.seen + 1 /\ d.op = Len(queue[f])
              /\ queue[f][d.op].stage = "pending"
              /\ queue[f][d.op].content = disk[f]
         ELSE d.seen = Len(queue[f]) /\ d.op = 0 /\ disk[f] = log[s].content

EditInv ==
    /\ Calm /\ PickedFirst /\ AppliedNow /\ DecidedNow
    /\ \A f \in Files : FileInv(f)

\* No step but another program's makes the disk differ from the catalogue.
LEMMA CalmStep ==
    ASSUME SyncInv, Calm, [Next]_vars
    PROVE  Calm'
<1>1. budget \in Budgets /\ budget.externals = 0 /\ budget.crashes = 0 /\ disk = observed
  BY DEF SyncInv, TypeOK, Calm
<1>2. ASSUME UNCHANGED <<disk, observed, budget>> PROVE Calm'
  BY <1>2 DEF Calm
<1>3. ASSUME NEW f, NEW c, LocalWrite(f, c) \/ RemoteWrite(f, c)
      PROVE  disk' = observed'
  BY <1>1, <1>3 DEF LocalWrite, RemoteWrite
<1>4. CASE Server \/ UNCHANGED vars
  BY <1>2, <1>4 DEF Server, Serve, vars, durable
<1>5. CASE Apply
  <2>1. ASSUME NEW s \in 1..Len(inbox), ApplyFile(s)
        PROVE  disk' = observed' /\ budget' = budget
    BY <1>1, <1>3, <2>1 DEF ApplyFile
  <2> QED
    BY <1>2, <1>5, <2>1 DEF Calm, Apply, ApplyOwn, ApplyKnown, ApplyConflict, Finish,
       durable
<1>6. CASE Pull
  <2>1. CASE StartCycle
    BY <1>1, <2>1 DEF StartCycle, Calm
  <2> QED
    BY <1>2, <1>6, <2>1 DEF Pull, ResumeNext, ResumeDone, Drain, Fetch, Stage,
       EndPage, durable
<1>7. CASE Push
  BY <1>2, <1>7 DEF Push, Capture, NothingToPush, PushRejected, Pick, Post,
     PushAcked, durable
<1>8. CASE Decision
  <2>1. ASSUME NEW s \in 1..Len(inbox),
               DecideCopy(s) \/ DecideLocal(s) \/ DecideRemote(s)
        PROVE  disk' = observed' /\ budget' = budget
    BY <1>1, <1>3, <2>1 DEF DecideCopy, DecideLocal, DecideRemote
  <2> QED
    BY <1>1, <1>2, <1>8, <2>1 DEF Calm, Decision, DecideResumed, DecideFails, Settle,
       durable
<1>9. CASE Person
  <2>1. ASSUME NEW f \in Files, NEW c \in Hashes, Edit(f, c)
        PROVE  Calm'
    <3>1. budget' = [budget EXCEPT !.edits = @ - 1] /\ disk' = observed'
      BY <1>3, <2>1 DEF Edit
    <3> QED
      BY <1>1, <3>1 DEF Calm, Budgets
  <2> QED
    BY <1>2, <1>9, <2>1 DEF Person, Decide
<1>10. CASE Environment
  <2>1. ASSUME NEW f \in Files, NEW c \in Hashes, OtherCommit(f, c)
        PROVE  Calm'
    BY <1>1, <2>1 DEF OtherCommit, Calm, Budgets, durable
  <2>2. CASE GiveUp
    BY <1>1, <2>2 DEF GiveUp, Calm, Budgets, durable
  <2> QED
    BY <1>1, <1>10, <2>1, <2>2 DEF Environment, ExternalEdit, Crash
<1> QED
  BY <1>4, <1>5, <1>6, <1>7, <1>8, <1>9, <1>10 DEF Next

\* The server's log keeps its revisions and gets new ones at the end.
LogKept ==
    Len(log) \in Nat /\ Len(log') \in Nat /\ Len(log) <= Len(log')
    /\ \A s \in 1..Len(log) : log'[s] = log[s]

\* A head that stays has no less behind itself.
LEMMA HeadKept ==
    ASSUME SyncInv, NEW f \in Files, HeadComplete(f), LogKept,
           heads'[f] = heads[f], cursor' = cursor,
           \A i \in 1..Len(queue[f]) :
               /\ i \in 1..Len(queue'[f])
               /\ queue[f][i].stage = "acked" => queue'[f][i].stage = "acked"
    PROVE  HeadComplete(f)'
<1>1. /\ heads[f].revision \in Nat /\ heads[f].revision <= Len(log)
      /\ cursor \in Nat
  BY Tables
<1>2. AckedOps(f) \subseteq AckedOps(f)'
  BY DEF AckedOps
<1> SUFFICES ASSUME NEW s \in RevisionsOf(f)', s <= heads[f].revision
             PROVE  s \in Dealt(f)'
  BY DEF HeadComplete
<1>3. s \in 1..Len(log) /\ log'[s] = log[s]
  BY <1>1 DEF RevisionsOf, LogKept
<1>4. s \in RevisionsOf(f)
  BY <1>3 DEF RevisionsOf
<1>5. s \in Dealt(f)
  BY <1>4 DEF HeadComplete
<1> QED
  BY <1>2, <1>3, <1>5 DEF Dealt, Own

\* A step that does not concern the file.
LEMMA FileKept ==
    ASSUME SyncInv, NEW f \in Files, FileInv(f), LogKept, cursor' = cursor,
           heads'[f] = heads[f], disk'[f] = disk[f], queue'[f] = queue[f],
           Open(f)' = Open(f), Replacing(f) => Replacing(f)',
           Overruled(f) => Overruled(f)'
    PROVE  FileInv(f)'
<1>1. HeadComplete(f)'
  BY HeadKept DEF FileInv
<1>2. InOrder(f)' /\ ConflictShown(f)' /\ NewestIsDisk(f)'
  BY DEF FileInv, InOrder, ConflictShown, NewestIsDisk
<1>3. EditKnown(f)'
  BY DEF FileInv, EditKnown, Outgoing
<1> QED
  BY <1>1, <1>2, <1>3 DEF FileInv

\* An update of one entry of the inbox.
LEMMA EntryChanged ==
    ASSUME SyncInv, NEW s \in 1..Len(inbox), NEW e \in Entries,
           inbox' = [inbox EXCEPT ![s] = e]
    PROVE  /\ Len(inbox') = Len(inbox)
           /\ \A t \in 1..Len(inbox) : inbox'[t] = IF t = s THEN e ELSE inbox[t]
<1>1. inbox \in Seq(Entries)
  BY DEF SyncInv, TypeOK
<1> QED
  BY <1>1

\* Without a decision under the lock none is left unsettled.
LEMMA NothingUnsettled ==
    ASSUME DecidedNow, hold.step \notin {"decide", "settle"},
           hold'.step \notin {"decide", "settle"},
           \A s \in 1..Len(inbox') :
               \/ inbox'[s].decision.choice = "none"
               \/ /\ s \in 1..Len(inbox)
                  /\ inbox'[s].decision.choice = inbox[s].decision.choice
                  /\ inbox[s].conflict = "resolved" => inbox'[s].conflict = "resolved"
    PROVE  DecidedNow'
<1>1. Unsettled = {}
  BY DEF DecidedNow
<1>2. Unsettled' = {}
  BY <1>1 DEF Unsettled
<1> QED
  BY <1>2 DEF DecidedNow

\* A decision under the lock, before and after its file operation.
LEMMA StillDeciding ==
    ASSUME NEW s, NEW f, hold'.step = "decide", hold'.seq = s, log'[s].file = f,
           \A t \in Unsettled' : t = s, s \in Open(f)', CurrentHead(s)',
           ~inbox'[s].decision.committed, AsReviewed(s)',
           inbox'[s].decision.seen = Len(queue'[f]), inbox'[s].decision.op = 0,
           NeedsCopy(s)' => /\ disk'[inbox'[s].decision.copy] = Absent
                            /\ inbox'[s].decision.copy # f
    PROVE  DecidedNow'
  BY DEF DecidedNow

\* The same once the file operation is done.
LEMMA StillSettling ==
    ASSUME NEW s, NEW f, hold'.step = "settle", hold'.seq = s, log'[s].file = f,
           \A t \in Unsettled' : t = s, s \in Open(f)', CurrentHead(s)',
           IF inbox'[s].decision.choice = "local"
           THEN /\ inbox'[s].decision.op = inbox'[s].decision.seen + 1
                /\ inbox'[s].decision.op = Len(queue'[f])
                /\ queue'[f][inbox'[s].decision.op].stage = "pending"
                /\ queue'[f][inbox'[s].decision.op].content = disk'[f]
           ELSE /\ inbox'[s].decision.seen = Len(queue'[f])
                /\ inbox'[s].decision.op = 0 /\ disk'[f] = log'[s].content
    PROVE  DecidedNow'
  BY DEF DecidedNow

\* The inbox is as it was, but for an entry that was just staged.
InboxKept ==
    /\ \A s \in 1..Len(inbox) : s \in 1..Len(inbox') /\ inbox'[s] = inbox[s]
    /\ \A s \in 1..Len(inbox') : s \notin 1..Len(inbox) =>
         /\ inbox'[s].conflict = "none" /\ inbox'[s].decision.choice = "none"
         /\ ~inbox'[s].done

\* A step on the network or of the cycle's position, also one that takes up a
\* revision.
LEMMA EditsQuiet ==
    ASSUME SyncInv, ReviewInv, EditInv, Calm', PickedFirst', LogKept, InboxKept,
           UNCHANGED <<disk, observed, queue, heads, cursor>>,
           hold' = hold \/ (hold.step = "none" /\ hold'.step = "apply")
    PROVE  EditInv'
<1>1. /\ \A s \in 1..Len(inbox) : s \in 1..Len(log) /\ log[s].file \in Files
  BY Tables
<1>2. \A s \in 1..Len(inbox) : s \in 1..Len(inbox') /\ log'[s] = log[s]
                               /\ inbox'[s] = inbox[s]
  BY <1>1 DEF LogKept, InboxKept
<1>3. ASSUME NEW f PROVE Open(f)' = Open(f)
  BY <1>2 DEF Open, InboxKept
<1>4. hold.step \in {"finish", "decide", "settle"} =>
        hold' = hold /\ hold.seq \in 1..Len(inbox)
  BY DEF ReviewInv, Work, ApplyWork, DecideWork
<1>5. ASSUME NEW f \in Files PROVE FileInv(f)'
  <2>1. Replacing(f) => Replacing(f)'
    BY <1>2, <1>4 DEF Replacing
  <2>2. Overruled(f) => Overruled(f)'
    BY <1>2, <1>4 DEF Overruled
  <2>3. FileInv(f)
    BY DEF EditInv
  <2> QED
    BY <1>3, <2>1, <2>2, <2>3, FileKept
<1>6. AppliedNow'
  <2>1. ASSUME hold'.step = "finish", hold'.outcome = "applied"
        PROVE  (LET f == log[hold.seq].file IN
                heads[f].revision >= hold.seq \/ Replacing(f))'
    <3>1. hold' = hold /\ hold.seq \in 1..Len(inbox) /\ log'[hold.seq] = log[hold.seq]
      BY <1>2, <1>4, <2>1
    <3>2. PICK f : f = log[hold.seq].file
      OBVIOUS
    <3>3. heads[f].revision >= hold.seq \/ Replacing(f)
      BY <2>1, <3>1, <3>2 DEF EditInv, AppliedNow
    <3>4. Replacing(f) => Replacing(f)'
      BY <3>1 DEF Replacing
    <3> QED
      BY <3>1, <3>2, <3>3, <3>4
  <2>2. ASSUME NEW s \in Pending', inbox'[s].done
        PROVE  hold'.step = "finish" /\ hold'.seq = s
    <3>1. s \in 1..Len(inbox)
      BY <2>2 DEF InboxKept, Pending
    <3>2. s \in Pending /\ inbox[s].done
      BY <1>2, <2>2, <3>1 DEF Pending
    <3>3. hold.step = "finish" /\ hold.seq = s
      BY <3>2 DEF EditInv, AppliedNow
    <3> QED
      BY <1>4, <3>3
  <2> QED
    BY <2>1, <2>2 DEF AppliedNow
<1>7. DecidedNow'
  <2>1. CASE hold.step \notin {"decide", "settle"}
    <3>1. hold'.step \notin {"decide", "settle"}
      BY <2>1
    <3>2. \A s \in 1..Len(inbox') :
               \/ inbox'[s].decision.choice = "none"
               \/ s \in 1..Len(inbox) /\ inbox'[s] = inbox[s]
      BY DEF InboxKept
    <3> QED
      BY <2>1, <3>1, <3>2, NothingUnsettled DEF EditInv
  <2>2. CASE hold.step \in {"decide", "settle"}
    <3>0. PICK s \in 1..Len(inbox), f \in Files : s = hold.seq /\ f = log[s].file
      BY <1>1, <1>4, <2>2
    <3>1. /\ hold' = hold /\ hold'.seq = s /\ log'[s].file = f
          /\ log'[s] = log[s] /\ inbox'[s] = inbox[s]
      BY <1>2, <1>4, <2>2, <3>0
    <3>2. \A t \in Unsettled' : t \in Unsettled
      BY <1>2 DEF Unsettled, InboxKept
    <3>3. Open(f)' = Open(f)
      BY <1>3
    <3>4. s \in Open(f) /\ CurrentHead(s) /\ \A t \in Unsettled : t = s
      BY <2>2, <3>0 DEF EditInv, DecidedNow
    <3>5. /\ CurrentHead(s)' <=> CurrentHead(s)
          /\ AsReviewed(s)' <=> AsReviewed(s)
          /\ NeedsCopy(s)' <=> NeedsCopy(s)
      BY <3>1 DEF CurrentHead, AsReviewed, NeedsCopy
    <3>6. CASE hold.step = "decide"
      <4>1. /\ ~inbox[s].decision.committed /\ AsReviewed(s)
            /\ inbox[s].decision.seen = Len(queue[f]) /\ inbox[s].decision.op = 0
            /\ NeedsCopy(s) => /\ disk[inbox[s].decision.copy] = Absent
                               /\ inbox[s].decision.copy # f
        BY <3>0, <3>6 DEF EditInv, DecidedNow
      <4> QED
        BY <3>1, <3>2, <3>3, <3>4, <3>5, <3>6, <4>1, StillDeciding
    <3>7. CASE hold.step = "settle"
      <4>1. IF inbox[s].decision.choice = "local"
            THEN /\ inbox[s].decision.op = inbox[s].decision.seen + 1
                 /\ inbox[s].decision.op = Len(queue[f])
                 /\ queue[f][inbox[s].decision.op].stage = "pending"
                 /\ queue[f][inbox[s].decision.op].content = disk[f]
            ELSE /\ inbox[s].decision.seen = Len(queue[f])
                 /\ inbox[s].decision.op = 0 /\ disk[f] = log[s].content
        BY <3>0, <3>7 DEF EditInv, DecidedNow
      <4>2. IF inbox'[s].decision.choice = "local"
            THEN /\ inbox'[s].decision.op = inbox'[s].decision.seen + 1
                 /\ inbox'[s].decision.op = Len(queue'[f])
                 /\ queue'[f][inbox'[s].decision.op].stage = "pending"
                 /\ queue'[f][inbox'[s].decision.op].content = disk'[f]
            ELSE /\ inbox'[s].decision.seen = Len(queue'[f])
                 /\ inbox'[s].decision.op = 0 /\ disk'[f] = log'[s].content
        <5>1. queue' = queue /\ disk' = disk
          OBVIOUS
        <5> QED
          BY ONLY <3>1, <4>1, <5>1
      <4>3. hold'.step = "settle"
        BY <3>1, <3>7
      <4>4. s \in Open(f)' /\ CurrentHead(s)' /\ \A t \in Unsettled' : t = s
        BY <3>2, <3>3, <3>4, <3>5
      <4> QED
        BY <3>1, <4>2, <4>3, <4>4, StillSettling
    <3> QED
      BY <2>2, <3>6, <3>7
  <2> QED
    BY <2>1, <2>2
<1> QED
  BY <1>5, <1>6, <1>7 DEF EditInv

\* sync_ack. An operation that the server accepted when the head was behind is
\* the newest of its file, or another one is on its way: so the head gets what
\* the disk has, or the difference is still outgoing.
LEMMA AckedEdits ==
    ASSUME SyncInv, ReviewInv, EditInv, NEW f \in Files, NEW i \in 1..Len(queue[f]),
           NEW s \in Committed(f, i), Acked(f, i, s),
           UNCHANGED <<log, disk, cursor, inbox>>, hold.step \in {"none", "apply"}
    PROVE  /\ \A g \in Files : FileInv(g)'
           /\ heads'[f].revision >= s
<1>0. FileInv(f) /\ LogKept
  BY DEF EditInv, LogKept, SyncInv, TypeOK
<1>1. /\ queue \in [Files -> Seq(Jobs)] /\ queue[f] \in Seq(Jobs) /\ queue[f][i] \in Jobs
      /\ heads \in [Files -> Heads] /\ heads[f].revision \in Nat /\ Len(queue[f]) \in Nat
      /\ heads[f].revision <= Len(log) /\ cursor \in Nat /\ Len(log) \in Nat
  BY Tables DEF SyncInv, TypeOK
<1>2. s \in RevisionsOf(f) /\ s \in 1..Len(log) /\ Own(s) /\ log[s].file = f /\ log[s].by = i
  BY DEF Committed, RevisionsOf, Own, Other
<1>3. queue[f][i].stage \in {"committing", "acked"} /\ queue[f][i].frozen
  BY <1>2 DEF ReviewInv, Records, OwnStages, SyncInv, OwnOps
<1>4. queue'[f] = [queue[f] EXCEPT ![i] = [queue[f][i] EXCEPT !.stage = "acked"]]
  BY <1>1 DEF Acked
<1>5. /\ \A g \in Files \ {f} : queue'[g] = queue[g] /\ heads'[g] = heads[g]
      /\ Len(queue'[f]) = Len(queue[f])
      /\ \A j \in 1..Len(queue[f]) \ {i} : queue'[f][j] = queue[f][j]
      /\ queue'[f][i].stage = "acked" /\ queue'[f][i].content = queue[f][i].content
  BY <1>1, <1>4 DEF Acked, Newer, Jobs
<1>6. heads'[f] = IF heads[f].revision < s
                  THEN [revision |-> s, hash |-> queue[f][i].content] ELSE heads[f]
  BY <1>1 DEF Acked, Newer
<1>7. heads'[f].revision >= s
  BY <1>1, <1>2, <1>6
<1>8. \A g : Open(g)' = Open(g) /\ ~Overruled(g) /\ ~Replacing(g)
  BY DEF Open, Overruled, Replacing
<1>9. ASSUME NEW g \in Files, g # f PROVE FileInv(g)'
  BY <1>0, <1>5, <1>8, <1>9, FileKept DEF EditInv
<1>10. HeadComplete(f)'
  <2>1. AckedOps(f) \subseteq AckedOps(f)' /\ i \in AckedOps(f)'
    BY <1>5 DEF AckedOps
  <2>2. Dealt(f) \subseteq Dealt(f)' /\ s \in Dealt(f)' /\ RevisionsOf(f)' = RevisionsOf(f)
    BY <1>2, <2>1 DEF Dealt, RevisionsOf, Own
  <2>3. ASSUME NEW t \in RevisionsOf(f), t < s PROVE t \in Dealt(f)
    <3>1. t \in 1..Len(log) /\ log[t].file = f
      BY DEF RevisionsOf
    <3>2. t <= queue[f][i].base
      BY <1>2, <2>3, <3>1 DEF ReviewInv, Records, OwnBases
    <3>3. queue[f][i].base <= heads[f].revision /\ queue[f][i].base \in Nat
      BY <1>1, <1>3 DEF ReviewInv, Records, FrozenJobs, Jobs
    <3>4. t <= heads[f].revision
      BY <1>1, <3>1, <3>2, <3>3
    <3> QED
      BY <1>0, <3>4 DEF FileInv, HeadComplete
  <2>4. ASSUME NEW t \in RevisionsOf(f), t <= heads'[f].revision
        PROVE  t \in Dealt(f)'
    <3>1. t \in 1..Len(log)
      BY DEF RevisionsOf
    <3>2. CASE heads[f].revision < s
      <4>1. t <= s
        BY <1>6, <2>4, <3>2
      <4> QED
        BY <1>2, <2>2, <2>3, <3>1, <4>1
    <3>3. CASE ~(heads[f].revision < s)
      BY <1>0, <1>6, <2>2, <2>4, <3>3 DEF FileInv, HeadComplete
    <3> QED
      BY <3>2, <3>3
  <2> QED
    BY <2>2, <2>4 DEF HeadComplete
<1>11. InOrder(f)'
  <2> SUFFICES ASSUME NEW j \in 1..Len(queue[f]), NEW k \in 1..Len(queue[f]), j < k,
                      queue'[f][k].stage \in {"committing", "acked", "archived"}
               PROVE  queue'[f][j].stage \in Over
    BY <1>5 DEF InOrder
  <2>1. queue[f][k].stage \in {"committing", "acked", "archived"}
    BY <1>3, <1>5
  <2>2. queue[f][j].stage \in Over
    BY <1>0, <2>1 DEF FileInv, InOrder
  <2> QED
    BY <1>5, <2>2 DEF Over
<1>12. ConflictShown(f)' /\ NewestIsDisk(f)'
  <2>1. ConflictShown(f)'
    BY <1>0, <1>5, <1>8 DEF FileInv, ConflictShown
  <2>2. NewestIsDisk(f)'
    BY <1>0, <1>5, <1>8 DEF FileInv, NewestIsDisk, Over
  <2> QED
    BY <2>1, <2>2
<1>13. EditKnown(f)'
  <2>1. CASE queue[f][i].stage = "acked"
    <3>1. queue'[f][i].stage = queue[f][i].stage
      BY <1>5, <2>1
    <3>2. s \in Dealt(f) /\ Dealt(f) \subseteq 1..Len(log)
      BY <1>2, <2>1 DEF Dealt, AckedOps, RevisionsOf
    <3>3. heads[f].revision = Latest(Dealt(f))
      BY DEF SyncInv, HeadsLatest
    <3>4. s <= heads[f].revision
      BY <1>1, <3>2, <3>3, LatestIsGreatest
    <3>5. heads'[f] = heads[f]
      BY <1>1, <1>2, <1>6, <3>4
    <3>6. Outgoing(f)' = Outgoing(f)
      BY <1>5, <3>1 DEF Outgoing
    <3> QED
      BY <1>0, <1>8, <3>5, <3>6 DEF FileInv, EditKnown
  <2>2. CASE queue[f][i].stage = "committing"
    <3> SUFFICES ASSUME Outgoing(f)' = {}
                 PROVE  disk'[f] = heads'[f].hash
      BY DEF EditKnown
    <3>1. \A j \in 1..Len(queue[f]) : j # i => queue[f][j].stage \in Over
      BY <1>5 DEF Outgoing, Over
    <3>2. i = Len(queue[f])
      <4>1. CASE i < Len(queue[f])
        <5> DEFINE n == Len(queue[f])
        <5>1. n \in 1..Len(queue[f]) /\ queue[f][n].stage \in {"committing", "acked", "archived"}
          BY <1>1, <3>1, <4>1 DEF Over
        <5>2. queue[f][i].stage \in Over
          BY <1>0, <4>1, <5>1 DEF FileInv, InOrder
        <5> QED
          BY <2>2, <5>2 DEF Over
      <4> QED
        BY <1>1, <4>1
    <3>3. disk[f] = queue[f][i].content
      BY <1>0, <1>8, <2>2, <3>2 DEF FileInv, NewestIsDisk, Over
    <3>4. s \notin Dealt(f)
      <4>1. i \notin AckedOps(f)
        BY <2>2 DEF AckedOps
      <4>2. ~(s <= cursor)
        BY <1>2, <2>2 DEF ReviewInv, Records, OwnStages
      <4> QED
        BY <1>2, <4>1, <4>2 DEF Dealt
    <3>5. heads[f].revision < s
      BY <1>0, <1>1, <1>2, <3>4 DEF FileInv, HeadComplete
    <3> QED
      BY <1>6, <3>3, <3>5
  <2> QED
    BY <1>3, <2>1, <2>2
<1> QED
  BY <1>7, <1>9, <1>10, <1>11, <1>12, <1>13 DEF FileInv

\* While a revision is applied, no job is picked and no decision is taken.
LEMMA ApplyControl ==
    ASSUME ReviewInv, EditInv, hold.step \in {"apply", "finish"},
           hold'.step \in {"finish", "none"}, engine' = engine,
           \A t \in 1..Len(inbox') : t \in 1..Len(inbox) /\
               /\ inbox'[t].decision.choice = inbox[t].decision.choice
               /\ inbox[t].conflict = "resolved" => inbox'[t].conflict = "resolved"
    PROVE  PickedFirst' /\ DecidedNow'
<1>1. engine'.at \in {"drain", "item"}
  BY DEF ReviewInv, Work, ApplyWork
<1>2. PickedFirst'
  BY <1>1 DEF PickedFirst
<1>3. DecidedNow'
  BY NothingUnsettled DEF EditInv
<1> QED
  BY <1>2, <1>3

\* A revision that is applied has not been: only its own piece of work does so.
LEMMA NotApplied ==
    ASSUME SyncInv, ReviewInv, EditInv, NEW s \in 1..Len(inbox), Applying(s)
    PROVE  /\ s = cursor + 1 /\ s \in Pending /\ ~inbox[s].done
           /\ \A t \in Pending : ~inbox[t].done
           /\ \A g : ~Overruled(g) /\ ~Replacing(g)
           /\ hold.step = "apply" /\ hold.seq = s
<1>1. s = cursor + 1 /\ hold.step = "apply" /\ hold.seq = s
  BY DEF Applying, ReviewInv, Work, ApplyWork
<1>2. s \in Pending
  BY <1>1, Tables DEF SyncInv, Positions, Pending
<1>3. \A t \in Pending : ~inbox[t].done
  BY <1>1 DEF EditInv, AppliedNow
<1> QED
  BY <1>1, <1>2, <1>3 DEF Overruled, Replacing

\* The own revision is acknowledged, the known one is passed over.
LEMMA KnownEdits ==
    ASSUME SyncInv, ReviewInv, EditInv, Calm', NEW s \in 1..Len(inbox),
           ApplyOwn(s) \/ ApplyKnown(s)
    PROVE  EditInv'
<1>1. /\ Applying(s) /\ UNCHANGED <<log, disk, cursor, inbox, engine>>
      /\ hold' = Holding("finish", s, "applied")
  BY DEF ApplyOwn, ApplyKnown, ToFinish, durable, network
<1>2. /\ s = cursor + 1 /\ s \in Pending /\ ~inbox[s].done
      /\ \A t \in Pending : ~inbox[t].done
      /\ \A g : ~Overruled(g) /\ ~Replacing(g)
      /\ hold.step = "apply" /\ hold.seq = s
  BY <1>1, NotApplied
<1>3. PICK f \in Files : f = log[s].file
  BY EntryRevision DEF SyncInv
<1>4. hold'.step = "finish" /\ hold'.seq = s /\ hold'.outcome = "applied"
  BY <1>1 DEF Holding
<1>5. PickedFirst' /\ DecidedNow'
  BY <1>1, <1>2, <1>4, ApplyControl
<1>6. /\ \A g \in Files : FileInv(g)'
      /\ heads'[f].revision >= s
  <2>1. CASE ApplyOwn(s)
    <3>1. s \in 1..Len(log) /\ Own(s)
      BY <2>1, Tables DEF ApplyOwn, OwnRevision, Own
    <3>2. PICK i \in 1..Len(queue[f]) : i = log[s].by
      BY <1>3, <3>1, Tables
    <3>3. s \in Committed(f, i) /\ Acked(f, i, s)
      BY <1>3, <2>1, <3>1, <3>2 DEF ApplyOwn, Committed, RevisionsOf
    <3> QED
      BY <1>1, <1>2, <3>3, AckedEdits
  <2>2. CASE ApplyKnown(s)
    <3>1. UNCHANGED <<heads, queue>> /\ LogKept
      BY <1>1, <2>2 DEF ApplyKnown, durable, LogKept, SyncInv, TypeOK
    <3>2. \A g : Open(g)' = Open(g)
      BY <1>1 DEF Open
    <3>3. \A g \in Files : FileInv(g)'
      BY <1>1, <1>2, <3>1, <3>2, FileKept DEF EditInv
    <3>4. heads[f].revision >= s
      BY <1>2, <1>3, <2>2 DEF ApplyKnown, AlreadyApplied
    <3> QED
      BY <3>1, <3>3, <3>4
  <2> QED
    BY <2>1, <2>2
<1>7. AppliedNow'
  <2>1. log'[hold'.seq].file = f
    BY <1>1, <1>3, <1>4
  <2>2. \A t \in Pending' : ~inbox'[t].done
    BY <1>1, <1>2 DEF Pending
  <2> QED
    BY <1>4, <1>6, <2>1, <2>2 DEF AppliedNow
<1> QED
  BY <1>5, <1>6, <1>7 DEF EditInv

\* The revision replaces a file without outgoing work: the disk is ahead of the
\* head until sync_finish.
LEMMA ReplacedEdits ==
    ASSUME SyncInv, ReviewInv, EditInv, Calm', NEW s \in 1..Len(inbox), ApplyFile(s)
    PROVE  EditInv'
<1>1. PICK f \in Files : f = log[s].file
  BY EntryRevision DEF SyncInv
<1>2. /\ Applying(s) /\ UNCHANGED <<log, heads, cursor, engine, queue>>
      /\ hold' = Holding("finish", s, "applied")
      /\ ~LocalWork(f) /\ ~(heads[f].revision >= s)
  BY <1>1 DEF ApplyFile, ToFinish, network, AlreadyApplied, RemoteWrite
<1>3. /\ s = cursor + 1 /\ s \in Pending /\ ~inbox[s].done
      /\ \A t \in Pending : ~inbox[t].done
      /\ \A g : ~Overruled(g) /\ ~Replacing(g)
      /\ hold.step = "apply" /\ hold.seq = s
  BY <1>2, NotApplied
<1>4. /\ disk \in [Files -> Hashes] /\ disk = observed /\ inbox \in Seq(Entries)
      /\ \A t \in 1..Len(inbox) : inbox[t] \in Entries
      /\ heads[f].revision \in Nat /\ s \in Nat
  BY Tables DEF SyncInv, TypeOK, EditInv, Calm
<1>5. disk'[f] = log[s].content /\ \A g \in Files \ {f} : disk'[g] = disk[g]
  BY <1>1, <1>4 DEF ApplyFile, RemoteWrite
<1>6. /\ Len(inbox') = Len(inbox)
      /\ \A t \in 1..Len(inbox) :
           /\ inbox'[t].state = inbox[t].state
           /\ inbox'[t].conflict = inbox[t].conflict
           /\ inbox'[t].decision = inbox[t].decision
           /\ t # s => inbox'[t].done = inbox[t].done
  <2>1. inbox' = inbox \/ inbox' = [inbox EXCEPT ![s].done = TRUE]
    BY DEF ApplyFile
  <2>2. CASE inbox' = inbox
    BY <2>2
  <2>3. CASE inbox' = [inbox EXCEPT ![s].done = TRUE]
    <3> DEFINE e == [inbox[s] EXCEPT !.done = TRUE]
    <3>1. e \in Entries /\ inbox' = [inbox EXCEPT ![s] = e]
      BY <1>4, <2>3, EntryUpdates
    <3>2. /\ e.state = inbox[s].state /\ e.conflict = inbox[s].conflict
          /\ e.decision = inbox[s].decision
      BY <1>4 DEF Entries
    <3> HIDE DEF e
    <3> QED
      BY <3>1, <3>2, EntryChanged
  <2> QED
    BY <2>1, <2>2, <2>3
<1>7. hold'.step = "finish" /\ hold'.seq = s /\ hold'.outcome = "applied"
  BY <1>2 DEF Holding
<1>8. PickedFirst' /\ DecidedNow'
  BY <1>2, <1>3, <1>6, <1>7, ApplyControl
<1>9. Replacing(f)'
  <2>1. heads[f].revision < s
    BY <1>2, <1>4
  <2> QED
    BY <1>1, <1>2, <1>5, <1>7, <2>1 DEF Replacing
<1>10. \A g : Open(g)' = Open(g)
  BY <1>2, <1>6 DEF Open
<1>11. LogKept /\ FileInv(f)
  BY <1>2 DEF LogKept, SyncInv, TypeOK, EditInv
<1>12. ASSUME NEW g \in Files, g # f PROVE FileInv(g)'
  BY <1>2, <1>3, <1>5, <1>10, <1>11, <1>12, FileKept DEF EditInv
<1>13. FileInv(f)'
  <2>1. HeadComplete(f)'
    BY <1>2, <1>11, HeadKept DEF FileInv
  <2>2. InOrder(f)' /\ ConflictShown(f)'
    BY <1>2, <1>10, <1>11 DEF FileInv, InOrder, ConflictShown
  <2>3. NewestIsDisk(f)'
    BY <1>2 DEF LocalWork, Outgoing, NewestIsDisk, Over
  <2> QED
    BY <1>9, <2>1, <2>2, <2>3 DEF FileInv, EditKnown
<1>14. AppliedNow'
  <2>1. ASSUME NEW t \in Pending', inbox'[t].done PROVE t = s
    BY <1>3, <1>6, <2>1 DEF Pending
  <2>2. log'[hold'.seq].file = f
    BY <1>1, <1>2, <1>7
  <2> QED
    BY <1>7, <1>9, <2>1, <2>2 DEF AppliedNow
<1> QED
  BY <1>8, <1>12, <1>13, <1>14 DEF EditInv

\* The revision meets local work: the conflict is open, and what was on its way
\* waits for the decision.
LEMMA ConflictEdits ==
    ASSUME SyncInv, SyncInv', ReviewInv, EditInv, Calm', NEW s \in 1..Len(inbox),
           ApplyConflict(s)
    PROVE  EditInv'
<1>0. PICK f \in Files : f = log[s].file
  BY EntryRevision DEF SyncInv
<1>1. /\ Applying(s) /\ UNCHANGED <<log, disk, heads, cursor, engine>>
      /\ hold' = Holding("finish", s, "conflict")
      /\ inbox' = [t \in DOMAIN inbox |->
                     IF t = s /\ inbox[t].conflict = "none"
                     THEN [inbox[t] EXCEPT !.conflict = "open"]
                     ELSE IF t < s /\ t \in Open(f)
                     THEN [inbox[t] EXCEPT !.conflict = "superseded"]
                     ELSE inbox[t]]
      /\ queue' = [queue EXCEPT ![f] = [i \in DOMAIN @ |->
                     IF @[i].stage \in {"queued", "committing"}
                     THEN [@[i] EXCEPT !.stage = "conflict"] ELSE @[i]]]
  BY <1>0 DEF ApplyConflict, ToFinish, network
<1>2. /\ s = cursor + 1 /\ s \in Pending /\ ~inbox[s].done
      /\ \A t \in Pending : ~inbox[t].done
      /\ \A g : ~Overruled(g) /\ ~Replacing(g)
      /\ hold.step = "apply" /\ hold.seq = s
  BY <1>1, NotApplied
<1>3. /\ queue \in [Files -> Seq(Jobs)] /\ queue' \in [Files -> Seq(Jobs)]
      /\ inbox \in Seq(Entries) /\ inbox' \in Seq(Entries)
      /\ s \in 1..Len(log) /\ cursor \in Nat
      /\ \A t \in 1..Len(inbox) : inbox[t] \in Entries
      /\ \A i \in 1..Len(queue[f]) : queue[f][i] \in Jobs
  BY Tables DEF SyncInv, TypeOK
<1>4. /\ Len(inbox') = Len(inbox)
      /\ inbox'[s].conflict = "open"
      /\ \A t \in 1..Len(inbox) :
           /\ inbox'[t].state = inbox[t].state
           /\ inbox'[t].done = inbox[t].done
           /\ inbox'[t].decision = inbox[t].decision
           /\ inbox[t].conflict = "resolved" => inbox'[t].conflict = "resolved"
           /\ log[t].file # f => inbox'[t].conflict = inbox[t].conflict
  <2>1. Len(inbox') = Len(inbox) /\ DOMAIN inbox = 1..Len(inbox)
    <3>1. DOMAIN inbox' = DOMAIN inbox
      BY <1>1
    <3> QED
      BY <1>3, <3>1
  <2>2. \A t \in 1..Len(inbox) :
           inbox'[t] = IF t = s /\ inbox[t].conflict = "none"
                       THEN [inbox[t] EXCEPT !.conflict = "open"]
                       ELSE IF t < s /\ t \in Open(f)
                       THEN [inbox[t] EXCEPT !.conflict = "superseded"]
                       ELSE inbox[t]
    BY <1>1, <2>1
  <2>3. inbox[s].conflict \in {"none", "open"}
    BY <1>2, <1>3 DEF ReviewInv, Records, ConflictLife
  <2>4. s = s /\ ~(s < s)
    BY <1>2, <1>3
  <2>5. inbox'[s].conflict = "open"
    BY <1>3, <2>2, <2>3, <2>4 DEF Entries
  <2>6. ASSUME NEW t \in 1..Len(inbox)
        PROVE  /\ inbox'[t].state = inbox[t].state
               /\ inbox'[t].done = inbox[t].done
               /\ inbox'[t].decision = inbox[t].decision
               /\ inbox[t].conflict = "resolved" => inbox'[t].conflict = "resolved"
               /\ log[t].file # f => inbox'[t].conflict = inbox[t].conflict
    <3>1. inbox[t] \in Entries
      BY <1>3
    <3>2. CASE t = s /\ inbox[t].conflict = "none"
      BY <1>0, <2>2, <3>1, <3>2 DEF Entries
    <3>3. CASE ~(t = s /\ inbox[t].conflict = "none") /\ t < s /\ t \in Open(f)
      <4>1. inbox[t].conflict = "open" /\ log[t].file = f
        BY <3>3 DEF Open
      <4> QED
        BY <2>2, <3>1, <3>3, <4>1 DEF Entries
    <3>4. CASE ~(t = s /\ inbox[t].conflict = "none") /\ ~(t < s /\ t \in Open(f))
      BY <2>2, <3>4
    <3> QED
      BY <3>2, <3>3, <3>4
  <2> QED
    BY <2>1, <2>5, <2>6
<1>5. /\ \A g \in Files \ {f} : queue'[g] = queue[g]
      /\ Len(queue'[f]) = Len(queue[f])
      /\ \A i \in 1..Len(queue[f]) :
           /\ queue'[f][i].content = queue[f][i].content
           /\ queue'[f][i].stage = IF queue[f][i].stage \in {"queued", "committing"}
                                   THEN "conflict" ELSE queue[f][i].stage
  <2>1. /\ queue'[f] = [i \in DOMAIN queue[f] |->
                 IF queue[f][i].stage \in {"queued", "committing"}
                 THEN [queue[f][i] EXCEPT !.stage = "conflict"] ELSE queue[f][i]]
        /\ \A g \in Files \ {f} : queue'[g] = queue[g]
    BY <1>1, <1>3
  <2>2. Len(queue'[f]) = Len(queue[f]) /\ DOMAIN queue[f] = 1..Len(queue[f])
    <3>1. queue[f] \in Seq(Jobs) /\ queue'[f] \in Seq(Jobs)
          /\ DOMAIN queue'[f] = DOMAIN queue[f]
      BY <1>3, <2>1
    <3> QED
      BY <3>1
  <2>3. \A i \in 1..Len(queue[f]) :
           queue'[f][i] = IF queue[f][i].stage \in {"queued", "committing"}
                          THEN [queue[f][i] EXCEPT !.stage = "conflict"] ELSE queue[f][i]
    BY <2>1, <2>2
  <2> QED
    BY <1>3, <2>1, <2>2, <2>3 DEF Jobs
<1>6. s \in Open(f)' /\ \A g : g # f => Open(g)' = Open(g)
  <2>1. log' = log /\ 1..Len(inbox') = 1..Len(inbox) /\ s \in 1..Len(inbox)
    BY <1>0, <1>1, <1>4
  <2>2. s \in Open(f)'
    BY <1>0, <1>4, <2>1 DEF Open
  <2>3. ASSUME NEW g, g # f PROVE Open(g)' = Open(g)
    <3>1. \A t \in 1..Len(inbox) : log[t].file = g => inbox'[t].conflict = inbox[t].conflict
      BY <1>4, <2>3
    <3> QED
      BY <2>1, <3>1 DEF Open
  <2> QED
    BY <2>2, <2>3
<1>7. LogKept /\ FileInv(f)
  BY <1>1 DEF LogKept, SyncInv, TypeOK, EditInv
<1>8. ASSUME NEW g \in Files, g # f PROVE FileInv(g)'
  BY <1>1, <1>2, <1>5, <1>6, <1>7, <1>8, FileKept DEF EditInv
<1>9. FileInv(f)'
  <2>1. HeadComplete(f)'
    <3>1. \A i \in 1..Len(queue[f]) :
             /\ i \in 1..Len(queue'[f])
             /\ queue[f][i].stage = "acked" => queue'[f][i].stage = "acked"
      BY <1>5
    <3> QED
      BY <1>1, <1>7, <3>1, HeadKept DEF FileInv
  <2>2. InOrder(f)'
    <3> SUFFICES ASSUME NEW i \in 1..Len(queue[f]), NEW j \in 1..Len(queue[f]), i < j,
                        queue'[f][j].stage \in {"committing", "acked", "archived"}
                 PROVE  queue'[f][i].stage \in Over
      BY <1>5 DEF InOrder
    <3>1. queue[f][j].stage \in {"committing", "acked", "archived"}
      BY <1>5
    <3>2. queue[f][i].stage \in Over
      BY <1>7, <3>1 DEF FileInv, InOrder
    <3> QED
      BY <1>5, <3>2 DEF Over
  <2>3. ConflictShown(f)' /\ EditKnown(f)'
    BY <1>6 DEF ConflictShown, EditKnown
  <2>4. NewestIsDisk(f)'
    <3> SUFFICES ASSUME NEW i \in 1..Len(queue[f]), i = Len(queue[f]),
                        queue'[f][i].stage \notin Over
                 PROVE  disk[f] = queue[f][i].content
      BY <1>1, <1>5 DEF NewestIsDisk
    <3>1. queue[f][i].stage \notin Over
      BY <1>5 DEF Over
    <3> QED
      BY <1>2, <1>7, <3>1 DEF FileInv, NewestIsDisk
  <2> QED
    BY <2>1, <2>2, <2>3, <2>4 DEF FileInv
<1>10. hold'.step = "finish" /\ hold'.outcome = "conflict"
  BY <1>1 DEF Holding
<1>11. PickedFirst' /\ DecidedNow'
  BY <1>1, <1>2, <1>4, <1>10, ApplyControl
<1>12. AppliedNow'
  <2>1. \A t \in Pending' : ~inbox'[t].done
    BY <1>2, <1>4 DEF Pending
  <2> QED
    BY <1>10, <2>1 DEF AppliedNow
<1> QED
  BY <1>8, <1>9, <1>11, <1>12 DEF EditInv

\* sync_finish: the head catches up with the disk.
LEMMA FinishEdits ==
    ASSUME SyncInv, ReviewInv, EditInv, Calm', NEW s \in 1..Len(inbox), Finish(s)
    PROVE  EditInv'
<1>0. PICK f \in Files : f = log[s].file
  BY EntryRevision DEF SyncInv
<1>1. /\ UNCHANGED <<log, disk, queue, engine>> /\ hold.step = "finish" /\ hold.seq = s
      /\ cursor = s - 1 /\ cursor' = s
      /\ heads' = Newer(f, s, log[s].content)
      /\ inbox' = [inbox EXCEPT ![s].state = hold.outcome]
      /\ hold'.step = "none"
  BY <1>0 DEF Finish, network, NoHold
<1>2. /\ heads \in [Files -> Heads] /\ heads[f].revision \in Nat /\ s \in Nat
      /\ cursor \in Nat /\ s \in 1..Len(log)
      /\ inbox[s] \in Entries /\ hold.outcome \in {"applied", "conflict"}
  BY Tables, EntryRevision DEF SyncInv, TypeOK, Holds
<1>3. /\ Len(inbox') = Len(inbox)
      /\ \A t \in 1..Len(inbox) :
           /\ inbox'[t].conflict = inbox[t].conflict
           /\ inbox'[t].decision = inbox[t].decision
           /\ t # s => inbox'[t] = inbox[t]
      /\ inbox'[s].state = hold.outcome
  <2> DEFINE e == [inbox[s] EXCEPT !.state = hold.outcome]
  <2>1. e \in Entries /\ inbox' = [inbox EXCEPT ![s] = e]
    BY <1>1, <1>2, EntryUpdates
  <2>2. /\ e.conflict = inbox[s].conflict /\ e.decision = inbox[s].decision
        /\ e.state = hold.outcome
    BY <1>2 DEF Entries
  <2> HIDE DEF e
  <2> QED
    BY <2>1, <2>2, EntryChanged
<1>4. \A g : Open(g)' = Open(g)
  BY <1>1, <1>3 DEF Open
<1>5. PickedFirst' /\ DecidedNow'
  BY <1>1, <1>3, ApplyControl
<1>6. AppliedNow'
  <2>1. ASSUME NEW t \in Pending', inbox'[t].done PROVE FALSE
    <3>1. t \in 1..Len(inbox) /\ inbox'[t].state = "pending"
      BY <1>3, <2>1 DEF Pending
    <3>2. t # s
      BY <1>2, <1>3, <3>1
    <3>3. t \in Pending /\ inbox[t].done
      BY <1>3, <2>1, <3>1, <3>2 DEF Pending
    <3> QED
      BY <1>1, <3>2, <3>3 DEF EditInv, AppliedNow
  <2> QED
    BY <1>1, <2>1 DEF AppliedNow
<1>7. /\ heads'[f] = IF heads[f].revision < s
                     THEN [revision |-> s, hash |-> log[s].content] ELSE heads[f]
      /\ \A g \in Files \ {f} : heads'[g] = heads[g]
  BY <1>1, <1>2 DEF Newer
<1>8. ASSUME NEW g \in Files PROVE HeadComplete(g)'
  <2>1. /\ RevisionsOf(g)' = RevisionsOf(g) /\ AckedOps(g)' = AckedOps(g)
        /\ RevisionsOf(g) \subseteq 1..Len(log)
    BY <1>1 DEF RevisionsOf, AckedOps
  <2>2. Dealt(g) \subseteq Dealt(g)'
    BY <1>1, <1>2, <2>1 DEF Dealt, Own, RevisionsOf
  <2>3. \A t \in RevisionsOf(g) : t <= s => t \in Dealt(g)'
    BY <1>1, <2>1 DEF Dealt
  <2>4. ASSUME NEW t \in RevisionsOf(g), t <= heads'[g].revision
        PROVE  t <= heads[g].revision \/ t <= s
    BY <1>7, <2>4
  <2> QED
    BY <2>1, <2>2, <2>3, <2>4 DEF HeadComplete, EditInv, FileInv
<1>9. ASSUME NEW g \in Files PROVE InOrder(g)' /\ ConflictShown(g)' /\ NewestIsDisk(g)'
  BY <1>1, <1>4 DEF EditInv, FileInv, InOrder, ConflictShown, NewestIsDisk, Overruled
<1>10. ASSUME NEW g \in Files PROVE EditKnown(g)'
  <2>1. Outgoing(g)' = Outgoing(g)
    BY <1>1 DEF Outgoing
  <2>2. CASE g # f
    BY <1>0, <1>1, <1>4, <1>7, <2>1, <2>2 DEF EditInv, FileInv, EditKnown, Replacing
  <2>3. CASE g = f
    <3>1. CASE hold.outcome = "conflict"
      <4>1. s \in Open(f)
        BY <1>0, <1>1, <3>1 DEF ReviewInv, Work, FinishWork, Open
      <4> QED
        BY <1>4, <2>3, <4>1 DEF EditKnown
    <3>2. CASE hold.outcome = "applied"
      <4>1. heads[f].revision >= s \/ Replacing(f)
        BY <1>0, <1>1, <3>2 DEF EditInv, AppliedNow
      <4>2. CASE Replacing(f)
        <5>1. heads[f].revision < s /\ disk[f] = log[s].content
          BY <1>1, <4>2 DEF Replacing
        <5> QED
          BY <1>1, <1>7, <2>3, <5>1 DEF EditKnown
      <4>3. CASE ~Replacing(f)
        <5>1. heads'[f] = heads[f]
          BY <1>2, <1>7, <4>1, <4>3
        <5> QED
          BY <1>1, <1>4, <2>1, <2>3, <4>3, <5>1 DEF EditInv, FileInv, EditKnown
      <4> QED
        BY <4>2, <4>3
    <3> QED
      BY <1>2, <3>1, <3>2
  <2> QED
    BY <2>2, <2>3
<1> QED
  BY <1>5, <1>6, <1>8, <1>9, <1>10 DEF EditInv, FileInv

\* sync_capture and sync_commit_payload move operations without taking any of
\* them out of the way.
LEMMA StagesMove ==
    ASSUME SyncInv, NEW f \in Files, FileInv(f), LogKept, cursor' = cursor,
           heads'[f] = heads[f], disk'[f] = disk[f], Open(f)' = Open(f),
           Replacing(f) => Replacing(f)', Overruled(f) => Overruled(f)',
           Len(queue'[f]) = Len(queue[f]),
           \A i \in 1..Len(queue[f]) :
               /\ queue'[f][i].content = queue[f][i].content
               /\ queue[f][i].stage \in Over => queue'[f][i].stage = queue[f][i].stage
               /\ queue[f][i].stage \notin Over => queue'[f][i].stage \notin Over
               /\ queue'[f][i].stage = "conflict" => queue[f][i].stage = "conflict"
               /\ queue'[f][i].stage = "committing" /\ queue[f][i].stage # "committing" =>
                    \A j \in 1..Len(queue[f]) : j < i => queue[f][j].stage \in Over
    PROVE  FileInv(f)'
<1>1. HeadComplete(f)'
  BY HeadKept DEF FileInv, Over
<1>2. InOrder(f)'
  <2> SUFFICES ASSUME NEW i \in 1..Len(queue[f]), NEW j \in 1..Len(queue[f]), i < j,
                      queue'[f][j].stage \in {"committing", "acked", "archived"}
               PROVE  queue'[f][i].stage \in Over
    BY DEF InOrder
  <2>1. \/ queue[f][j].stage \in {"committing", "acked", "archived"}
        \/ queue'[f][j].stage = "committing" /\ queue[f][j].stage # "committing"
    BY DEF Over
  <2>2. queue[f][i].stage \in Over
    BY <2>1 DEF FileInv, InOrder
  <2> QED
    BY <2>2
<1>3. ConflictShown(f)' /\ NewestIsDisk(f)'
  BY DEF FileInv, ConflictShown, NewestIsDisk
<1>4. EditKnown(f)'
  <2>1. Outgoing(f)' = Outgoing(f)
    BY DEF Outgoing, Over
  <2> QED
    BY <2>1 DEF FileInv, EditKnown
<1> QED
  BY <1>1, <1>2, <1>3, <1>4 DEF FileInv

\* A journalled write: the newest operation has the content of the disk.
LEMMA WriteEdits ==
    ASSUME SyncInv, NEW f \in Files, NEW c, FileInv(f), LogKept, cursor' = cursor,
           heads'[f] = heads[f], disk'[f] = c, Open(f)' = Open(f),
           queue'[f] = Append(queue[f], NewJob(c))
    PROVE  FileInv(f)'
<1>1. /\ Len(queue[f]) \in Nat /\ Len(queue'[f]) = Len(queue[f]) + 1
      /\ \A i \in 1..Len(queue[f]) : queue'[f][i] = queue[f][i]
      /\ queue'[f][Len(queue[f]) + 1] = NewJob(c)
  <2>1. queue[f] \in Seq(Jobs)
    BY DEF SyncInv, TypeOK
  <2> QED
    BY <2>1
<1>2. /\ NewJob(c).stage = "pending" /\ NewJob(c).content = c
      /\ \A i \in 1..Len(queue'[f]) : i \in 1..Len(queue[f]) \/ i = Len(queue[f]) + 1
      /\ \A i \in 1..Len(queue[f]) : i \in 1..Len(queue'[f])
  BY <1>1 DEF NewJob
<1>3. HeadComplete(f)'
  BY <1>1, <1>2, HeadKept DEF FileInv
<1>4. InOrder(f)'
  <2> SUFFICES ASSUME NEW i \in 1..Len(queue'[f]), NEW j \in 1..Len(queue'[f]), i < j,
                      queue'[f][j].stage \in {"committing", "acked", "archived"}
               PROVE  queue'[f][i].stage \in Over
    BY DEF InOrder
  <2>1. j \in 1..Len(queue[f])
    BY <1>1, <1>2
  <2>2. i \in 1..Len(queue[f])
    BY <1>1, <2>1
  <2> QED
    BY <1>1, <2>1, <2>2 DEF FileInv, InOrder
<1>5. ConflictShown(f)' /\ NewestIsDisk(f)'
  <2>1. ConflictShown(f)'
    BY <1>1, <1>2 DEF FileInv, ConflictShown
  <2>2. NewestIsDisk(f)'
    BY <1>1, <1>2 DEF NewestIsDisk
  <2> QED
    BY <2>1, <2>2
<1>6. EditKnown(f)'
  <2>1. Len(queue[f]) + 1 \in Outgoing(f)'
    BY <1>1, <1>2 DEF Outgoing
  <2> QED
    BY <2>1 DEF EditKnown
<1> QED
  BY <1>3, <1>4, <1>5, <1>6 DEF FileInv

\* New operations come behind the one that was picked.
LEMMA PickedKept ==
    ASSUME SyncInv, PickedFirst, engine' = engine,
           \A f \in Files : \A i \in 1..Len(queue[f]) :
               i \in 1..Len(queue'[f]) /\ queue'[f][i].stage = queue[f][i].stage
    PROVE  PickedFirst'
<1>1. PICK f \in Files : f = engine.file
  BY DEF SyncInv, TypeOK, Engines
<1>2. Len(queue[f]) \in Nat
  BY Tables
<1> SUFFICES ASSUME engine.at = "picked"
             PROVE  /\ engine.op \in 1..Len(queue'[f])
                    /\ \A i \in 1..Len(queue'[f]) :
                          i < engine.op => queue'[f][i].stage \in Over
  BY <1>1 DEF PickedFirst
<1>3. engine.op \in 1..Len(queue[f])
  BY <1>1 DEF PickedFirst
<1>4. ASSUME NEW i \in 1..Len(queue'[f]), i < engine.op
      PROVE  queue'[f][i].stage \in Over
  <2>1. i \in 1..Len(queue[f])
    BY <1>2, <1>3, <1>4
  <2> QED
    BY <1>1, <1>4, <2>1 DEF PickedFirst
<1> QED
  BY <1>3, <1>4

\* A journalled write is an operation behind the others.
LEMMA WriteAppends ==
    ASSUME SyncInv, NEW f \in Files, NEW c, LocalWrite(f, c)
    PROVE  /\ disk'[f] = c /\ queue'[f] = Append(queue[f], NewJob(c))
           /\ \A g \in Files \ {f} : disk'[g] = disk[g] /\ queue'[g] = queue[g]
           /\ \A g \in Files : \A i \in 1..Len(queue[g]) :
                 i \in 1..Len(queue'[g]) /\ queue'[g][i].stage = queue[g][i].stage
<1>1. queue \in [Files -> Seq(Jobs)] /\ disk \in [Files -> Hashes]
  BY DEF SyncInv, TypeOK
<1>2. /\ disk'[f] = c /\ queue'[f] = Append(queue[f], NewJob(c))
      /\ \A g \in Files \ {f} : disk'[g] = disk[g] /\ queue'[g] = queue[g]
  BY <1>1 DEF LocalWrite
<1>3. \A i \in 1..Len(queue[f]) : i \in 1..Len(queue'[f]) /\ queue'[f][i] = queue[f][i]
  <2>1. queue[f] \in Seq(Jobs)
    BY <1>1
  <2> QED
    BY <1>2, <2>1
<1> QED
  BY <1>2, <1>3

\* Nothing is applied while the work under the lock is another one.
LEMMA NoneApplied ==
    ASSUME AppliedNow, hold.step # "finish", hold'.step # "finish",
           \A t \in 1..Len(inbox') : t \in 1..Len(inbox) /\
               inbox'[t].state = inbox[t].state /\ inbox'[t].done = inbox[t].done
    PROVE  AppliedNow'
<1>1. \A t \in Pending : ~inbox[t].done
  BY DEF AppliedNow
<1>2. \A t \in Pending' : ~inbox'[t].done
  BY <1>1 DEF Pending
<1> QED
  BY <1>2 DEF AppliedNow

\* The server and the other devices only add revisions.
LEMMA ServerEdits ==
    ASSUME SyncInv, ReviewInv, EditInv, Calm', [Next]_vars,
           UNCHANGED <<durable, engine, hold>>
    PROVE  EditInv'
<1>1. LogKept
  <2>1. log' = log \/ \E r \in Revisions : log' = Append(log, r)
    BY LogStep
  <2> QED
    BY <2>1 DEF LogKept, SyncInv, TypeOK
<1>2. UNCHANGED <<disk, observed, queue, heads, cursor, inbox, hold, engine>>
  BY DEF durable
<1>3. PickedFirst' /\ InboxKept
  BY <1>2 DEF EditInv, PickedFirst, InboxKept
<1> QED
  BY <1>1, <1>2, <1>3, EditsQuiet

\* A step that moves the engine to another point than the picked job.
LEMMA EngineEdits ==
    ASSUME SyncInv, ReviewInv, EditInv, Calm', engine'.at # "picked",
           UNCHANGED <<log, disk, observed, queue, heads, cursor>>, InboxKept,
           hold' = hold \/ (hold.step = "none" /\ hold'.step = "apply")
    PROVE  EditInv'
<1>1. LogKept /\ PickedFirst'
  BY DEF LogKept, PickedFirst, SyncInv, TypeOK
<1> QED
  BY <1>1, EditsQuiet

\* The cycle pulls: with nothing to discover and nothing to resume, it adds a
\* pending entry and takes up the next revision.
LEMMA PullEdits ==
    ASSUME SyncInv, ReviewInv, EditInv, Calm', Pull
    PROVE  EditInv'
<1>1. engine \in Engines /\ disk = observed /\ queue \in [Files -> Seq(Jobs)]
  BY DEF SyncInv, TypeOK, EditInv, Calm
<1>2. inbox' = inbox => InboxKept
  BY DEF InboxKept
<1>3. hold.step = "none" => Unsettled = {}
  BY DEF EditInv, DecidedNow
<1>4. CASE StartCycle
  <2>1. queue' = queue /\ observed' = observed
    BY <1>1, <1>4 DEF StartCycle, Discovered
  <2>2. engine'.at # "picked"
    BY <1>1, <1>4 DEF StartCycle, GotoPhase, Engines
  <2> QED
    BY <1>2, <1>4, <2>1, <2>2, EngineEdits DEF StartCycle, network
<1>5. CASE ResumeNext
  BY <1>3, <1>5 DEF ResumeNext
<1>6. CASE ResumeDone \/ Drain
  <2>1. engine'.at # "picked"
    BY <1>1, <1>6 DEF ResumeDone, Drain, Goto, Engines
  <2>2. hold' = hold \/ (hold.step = "none" /\ hold'.step = "apply")
    BY <1>6 DEF ResumeDone, Drain, Holding
  <2>3. UNCHANGED <<log, disk, observed, queue, heads, cursor, inbox>>
    BY <1>6 DEF ResumeDone, Drain, network, durable
  <2> QED
    BY <1>2, <2>1, <2>2, <2>3, EngineEdits
<1>7. CASE Fetch \/ EndPage
  <2>1. engine'.at # "picked"
    BY <1>1, <1>7 DEF Fetch, EndPage, PullsDone, GotoPhase, Engines
  <2>2. UNCHANGED <<log, disk, observed, queue, heads, cursor, inbox, hold>>
    BY <1>7 DEF Fetch, EndPage, network, durable
  <2> QED
    BY <1>2, <2>1, <2>2, EngineEdits
<1>8. CASE Stage
  <2>1. engine'.at # "picked"
    BY <1>8 DEF Stage
  <2>2. hold.step = "none" /\ hold'.step = "apply"
    BY <1>8 DEF Stage, Locked, Holding
  <2>3. UNCHANGED <<log, disk, observed, queue, heads, cursor>>
    BY <1>8 DEF Stage, network
  <2>4. InboxKept
    <3>1. CASE inbox' = Append(inbox, Received)
      <4>1. inbox \in Seq(Entries)
        BY DEF SyncInv, TypeOK
      <4>2. /\ \A t \in 1..Len(inbox) : t \in 1..Len(inbox') /\ inbox'[t] = inbox[t]
            /\ \A t \in 1..Len(inbox') : t \notin 1..Len(inbox) => inbox'[t] = Received
        BY <3>1, <4>1
      <4>3. /\ Received.conflict = "none" /\ Received.decision.choice = "none"
            /\ ~Received.done
        BY DEF Received, NoDecision
      <4> QED
        BY <4>2, <4>3 DEF InboxKept
    <3> QED
      BY <1>2, <1>8, <3>1 DEF Stage
  <2> QED
    BY <2>1, <2>2, <2>3, <2>4, EngineEdits
<1> QED
  BY <1>4, <1>5, <1>6, <1>7, <1>8 DEF Pull

\* sync_capture moves the waiting operations of every file.
LEMMA CaptureEdits ==
    ASSUME SyncInv, SyncInv', ReviewInv, EditInv, Calm', Capture
    PROVE  EditInv'
<1>1. /\ UNCHANGED <<log, disk, heads, cursor, inbox, engine, hold>>
      /\ queue' = Captured /\ engine.at = "resume" /\ hold.step = "none"
  BY DEF Capture, network
<1>2. queue \in [Files -> Seq(Jobs)] /\ queue' \in [Files -> Seq(Jobs)]
  BY DEF SyncInv, TypeOK
<1>3. ASSUME NEW f \in Files
      PROVE  /\ Len(queue'[f]) = Len(queue[f])
             /\ \A i \in 1..Len(queue[f]) :
                  /\ queue'[f][i].content = queue[f][i].content
                  /\ queue'[f][i].stage = IF queue[f][i].stage = "pending"
                                          THEN "queued" ELSE queue[f][i].stage
  <2>1. queue[f] \in Seq(Jobs) /\ queue'[f] \in Seq(Jobs)
    BY <1>2
  <2>2. queue'[f] = [i \in DOMAIN queue[f] |->
             IF queue[f][i].stage = "pending"
             THEN [queue[f][i] EXCEPT !.stage = "queued"] ELSE queue[f][i]]
    BY <1>1 DEF Captured
  <2>3. Len(queue'[f]) = Len(queue[f]) /\ DOMAIN queue[f] = 1..Len(queue[f])
    <3>1. DOMAIN queue'[f] = DOMAIN queue[f]
      BY <2>2
    <3> QED
      BY <2>1, <3>1
  <2>4. \A i \in 1..Len(queue[f]) : queue[f][i] \in Jobs
    BY <2>1
  <2> QED
    BY <2>2, <2>3, <2>4 DEF Jobs
<1>4. LogKept
  BY <1>1 DEF LogKept, SyncInv, TypeOK
<1>5. \A g : Open(g)' = Open(g) /\ ~Replacing(g) /\ ~Overruled(g)
  BY <1>1 DEF Open, Replacing, Overruled
<1>6. ASSUME NEW f \in Files PROVE FileInv(f)'
  <2>1. \A i \in 1..Len(queue[f]) :
           /\ queue'[f][i].content = queue[f][i].content
           /\ queue[f][i].stage \in Over => queue'[f][i].stage = queue[f][i].stage
           /\ queue[f][i].stage \notin Over => queue'[f][i].stage \notin Over
           /\ queue'[f][i].stage = "conflict" => queue[f][i].stage = "conflict"
           /\ ~(queue'[f][i].stage = "committing" /\ queue[f][i].stage # "committing")
    BY <1>3 DEF Over
  <2> QED
    BY <1>1, <1>3, <1>4, <1>5, <2>1, StagesMove DEF EditInv
<1>7. PickedFirst'
  BY <1>1 DEF PickedFirst
<1>8. AppliedNow'
  BY <1>1, NoneApplied DEF EditInv
<1>9. DecidedNow'
  BY <1>1, NothingUnsettled DEF EditInv
<1> QED
  BY <1>6, <1>7, <1>8, <1>9 DEF EditInv

\* sync_next picks the first operation that is outgoing: nothing waits in the
\* outbox behind it, and nothing is in conflict.
LEMMA PickEdits ==
    ASSUME SyncInv, ReviewInv, EditInv, Calm', NEW f \in Files, Pick(f)
    PROVE  EditInv'
<1>1. /\ UNCHANGED <<log, disk, observed, queue, heads, cursor, inbox, hold>>
      /\ queue = Captured /\ Sendable(f) # {}
      /\ engine' = [engine EXCEPT !.at = "picked", !.file = f,
                                  !.op = First(Sendable(f))]
  BY DEF Pick, network, durable
<1>2. Sendable(f) \subseteq Nat /\ Sendable(f) \subseteq 1..Len(queue[f])
  BY Tables DEF Sendable
<1>3. First(Sendable(f)) \in Sendable(f) /\ \A j \in Sendable(f) : First(Sendable(f)) <= j
  BY <1>1, <1>2, FirstIsLeast
<1>4. PICK op : op = First(Sendable(f))
  OBVIOUS
<1>5. engine'.file = f /\ engine'.op = op
  BY <1>1, <1>4 DEF SyncInv, TypeOK, Engines
<1>6. op \in Nat /\ op \in 1..Len(queue[f]) /\ Open(f) = {}
  BY <1>2, <1>3, <1>4 DEF Sendable
<1>7. ASSUME NEW i \in 1..Len(queue[f]), i < op
      PROVE  queue[f][i].stage \in Over
  <2>1. queue[f][i].stage \notin {"queued", "committing"}
    <3>1. i \notin Sendable(f)
      BY <1>3, <1>4, <1>6, <1>7
    <3> QED
      BY <1>6, <3>1 DEF Sendable
  <2>2. queue[f][i].stage # "conflict"
    BY <1>6 DEF EditInv, FileInv, ConflictShown
  <2>3. queue[f] \in Seq(Jobs) /\ queue[f][i] \in Jobs
    BY DEF SyncInv, TypeOK
  <2>4. queue[f][i].stage # "pending"
    <3>1. queue[f] = [k \in DOMAIN queue[f] |->
             IF queue[f][k].stage = "pending"
             THEN [queue[f][k] EXCEPT !.stage = "queued"] ELSE queue[f][k]]
      <4>1. queue[f] = Captured[f]
        BY <1>1
      <4> QED
        BY <4>1 DEF Captured
    <3>2. i \in DOMAIN queue[f]
      BY <2>3
    <3>3. ASSUME queue[f][i].stage = "pending" PROVE FALSE
      <4>1. queue[f][i] = [queue[f][i] EXCEPT !.stage = "queued"]
        BY <3>1, <3>2, <3>3
      <4> QED
        BY <2>3, <3>3, <4>1 DEF Jobs
    <3> QED
      BY <3>3
  <2>5. queue[f][i].stage \in Stages
    BY <2>3 DEF Jobs
  <2> QED
    BY <2>1, <2>2, <2>4, <2>5 DEF Stages, Over
<1>8. PickedFirst'
  BY <1>1, <1>5, <1>6, <1>7 DEF PickedFirst
<1>9. LogKept /\ InboxKept
  BY <1>1 DEF LogKept, InboxKept, SyncInv, TypeOK
<1> QED
  BY <1>1, <1>8, <1>9, EditsQuiet

\* sync_commit_payload sends the operation that was picked, whose predecessors
\* are over.
LEMMA PostEdits ==
    ASSUME SyncInv, ReviewInv, EditInv, Calm', NEW f \in Files,
           NEW i \in 1..Len(queue[f]), Post(f, i)
    PROVE  EditInv'
<1>1. /\ UNCHANGED <<log, disk, heads, cursor, inbox, hold>>
      /\ queue' = [queue EXCEPT ![f] = [queue[f] EXCEPT ![i] = Frozen(queue[f][i], f)]]
      /\ engine.at = "picked" /\ engine.file = f /\ engine.op = i
      /\ queue[f][i].stage \notin {"archived", "conflict"}
      /\ engine' = [engine EXCEPT !.at = "sent"] /\ hold.step = "none"
  BY DEF Post, Goto, Locked
<1>2. /\ queue \in [Files -> Seq(Jobs)] /\ queue[f] \in Seq(Jobs) /\ queue[f][i] \in Jobs
      /\ engine \in Engines /\ heads \in [Files -> Heads]
  BY DEF SyncInv, TypeOK
<1>3. Frozen(queue[f][i], f) \in Jobs
  BY <1>2, JobUpdates
<1>4. /\ \A g \in Files \ {f} : queue'[g] = queue[g]
      /\ Len(queue'[f]) = Len(queue[f])
      /\ \A j \in 1..Len(queue[f]) : j # i => queue'[f][j] = queue[f][j]
      /\ queue'[f][i] = Frozen(queue[f][i], f)
  <2>1. /\ queue'[f] = [queue[f] EXCEPT ![i] = Frozen(queue[f][i], f)]
        /\ \A g \in Files \ {f} : queue'[g] = queue[g]
    BY <1>1, <1>2
  <2> QED
    BY <1>2, <1>3, <2>1
<1>5. /\ queue'[f][i].content = queue[f][i].content
      /\ queue[f][i].frozen => queue'[f][i].stage = queue[f][i].stage
      /\ ~queue[f][i].frozen => queue'[f][i].stage = "committing"
  BY <1>2, <1>4 DEF Frozen, Jobs
<1>6. queue[f][i].stage = "acked" => queue[f][i].frozen
  <2> SUFFICES ASSUME queue[f][i].stage = "acked" PROVE queue[f][i].frozen
    OBVIOUS
  <2>1. PICK s : s \in Committed(f, i)
    BY DEF SyncInv, AckedInLog, AckedOps
  <2>2. s \in 1..Len(log) /\ log[s].file = f /\ log[s].by = i /\ Own(s)
    BY <2>1 DEF Committed, RevisionsOf, Own, Other
  <2> QED
    BY <2>2 DEF SyncInv, OwnOps
<1>7. LogKept
  BY <1>1 DEF LogKept, SyncInv, TypeOK
<1>8. \A g : Open(g)' = Open(g) /\ ~Replacing(g) /\ ~Overruled(g)
  BY <1>1 DEF Open, Replacing, Overruled
<1>9. \A j \in 1..Len(queue[f]) : j < i => queue[f][j].stage \in Over
  BY <1>1 DEF EditInv, PickedFirst
<1>10. FileInv(f)'
  <2>1. ASSUME NEW k \in 1..Len(queue[f])
        PROVE  /\ queue'[f][k].content = queue[f][k].content
               /\ queue[f][k].stage \in Over => queue'[f][k].stage = queue[f][k].stage
               /\ queue[f][k].stage \notin Over => queue'[f][k].stage \notin Over
               /\ queue'[f][k].stage = "conflict" => queue[f][k].stage = "conflict"
               /\ queue'[f][k].stage = "committing" /\ queue[f][k].stage # "committing" =>
                    \A j \in 1..Len(queue[f]) : j < k => queue[f][j].stage \in Over
    BY <1>1, <1>4, <1>5, <1>6, <1>9 DEF Over
  <2> QED
    BY <1>1, <1>4, <1>7, <1>8, <2>1, StagesMove DEF EditInv
<1>11. ASSUME NEW g \in Files, g # f PROVE FileInv(g)'
  BY <1>1, <1>4, <1>7, <1>8, <1>11, FileKept DEF EditInv
<1>12. PickedFirst'
  BY <1>1, <1>2 DEF PickedFirst, Engines
<1>13. AppliedNow'
  BY <1>1, NoneApplied DEF EditInv
<1>14. DecidedNow'
  BY <1>1, NothingUnsettled DEF EditInv
<1> QED
  BY <1>10, <1>11, <1>12, <1>13, <1>14 DEF EditInv

\* push_one: capturing, picking, posting and the answer.
LEMMA PushEdits ==
    ASSUME SyncInv, SyncInv', ReviewInv, EditInv, Calm', Push
    PROVE  EditInv'
<1>1. inbox' = inbox => InboxKept
  BY DEF InboxKept
<1>2. CASE NothingToPush \/ PushRejected
  <2>1. engine'.at # "picked"
    BY <1>2 DEF NothingToPush, PushRejected, Goto, GotoPhase, SyncInv, TypeOK, Engines
  <2>2. UNCHANGED <<log, disk, observed, queue, heads, cursor, inbox, hold>>
    BY <1>2 DEF NothingToPush, PushRejected, network, durable
  <2> QED
    BY <1>1, <2>1, <2>2, EngineEdits
<1>3. ASSUME NEW f \in Files, NEW i \in 1..Len(queue[f]), PushAcked(f, i)
      PROVE  EditInv'
  <2>1. /\ UNCHANGED <<log, disk, cursor, inbox, hold>> /\ hold.step = "none"
        /\ engine'.at = "resume"
    BY <1>3 DEF PushAcked, GotoPhase, Locked, SyncInv, TypeOK, Engines
  <2>2. PICK s \in Committed(f, i) : Acked(f, i, s)
    BY <1>3 DEF PushAcked
  <2>3. \A g \in Files : FileInv(g)'
    BY <2>1, <2>2, AckedEdits
  <2>4. PickedFirst'
    BY <2>1 DEF PickedFirst
  <2>5. AppliedNow'
    BY <2>1, NoneApplied DEF EditInv
  <2>6. DecidedNow'
    BY <2>1, NothingUnsettled DEF EditInv
  <2> QED
    BY <2>3, <2>4, <2>5, <2>6 DEF EditInv
<1> QED
  BY <1>2, <1>3, CaptureEdits, PickEdits, PostEdits DEF Push

-----------------------------------------------------------------------------
(* Decisions and edits *)

\* An edit is an operation behind the others; no decision is being carried out.
LEMMA EditEdits ==
    ASSUME SyncInv, ReviewInv, EditInv, Calm', NEW f \in Files, NEW c \in Hashes,
           Edit(f, c)
    PROVE  EditInv'
<1>1. /\ UNCHANGED <<log, heads, cursor, inbox, hold, engine>> /\ hold.step = "none"
      /\ LocalWrite(f, c)
  BY DEF Edit, Locked, network
<1>2. /\ disk'[f] = c /\ queue'[f] = Append(queue[f], NewJob(c))
      /\ \A g \in Files \ {f} : disk'[g] = disk[g] /\ queue'[g] = queue[g]
      /\ \A g \in Files : \A i \in 1..Len(queue[g]) :
            i \in 1..Len(queue'[g]) /\ queue'[g][i].stage = queue[g][i].stage
  BY <1>1, WriteAppends
<1>3. LogKept
  BY <1>1 DEF LogKept, SyncInv, TypeOK
<1>4. \A g : Open(g)' = Open(g) /\ ~Replacing(g) /\ ~Overruled(g)
  BY <1>1 DEF Open, Replacing, Overruled
<1>5. FileInv(f)'
  BY <1>1, <1>2, <1>3, <1>4, WriteEdits DEF EditInv
<1>6. ASSUME NEW g \in Files, g # f PROVE FileInv(g)'
  BY <1>1, <1>2, <1>3, <1>4, <1>6, FileKept DEF EditInv
<1>7. PickedFirst'
  BY <1>1, <1>2, PickedKept DEF EditInv
<1>8. AppliedNow'
  BY <1>1, NoneApplied DEF EditInv
<1>9. DecidedNow'
  BY <1>1, NothingUnsettled DEF EditInv
<1> QED
  BY <1>5, <1>6, <1>7, <1>8, <1>9 DEF EditInv

\* A decision is recorded on the file as it is, and carried out at once.
LEMMA DecideEdits ==
    ASSUME SyncInv, ReviewInv, EditInv, Calm', NEW s \in 1..Len(inbox),
           NEW choice \in Choices, NEW g \in Files, Decide(s, choice, g)
    PROVE  EditInv'
<1>0. PICK f \in Files : f = log[s].file
  BY EntryRevision DEF SyncInv
<1> DEFINE d == [choice |-> choice, expected |-> disk[f],
                 live |-> observed[f] # Absent, copy |-> g,
                 copied |-> FALSE, committed |-> FALSE, op |-> 0,
                 seen |-> Len(queue[f])]
           e == [inbox[s] EXCEPT !.decision = d]
<1>1. /\ UNCHANGED <<log, disk, observed, queue, heads, cursor, engine>>
      /\ hold.step = "none" /\ hold' = Holding("decide", s, "conflict")
      /\ s \in Open(f) /\ heads[f].revision = s
      /\ choice = "copy" => disk[f] # Absent /\ disk[g] = Absent
      /\ inbox' = [inbox EXCEPT ![s] = e]
  BY <1>0 DEF Decide, Locked, Reviewable, FreshCopy, network
<1>2. d \in Decisions
  BY Tables, ConstantsAssumption DEF Decisions, SyncInv, TypeOK
<1>3. inbox[s] \in Entries
  BY Tables
<1>4. e \in Entries
  BY <1>2, <1>3, EntryUpdates
<1>5. /\ e.state = inbox[s].state /\ e.done = inbox[s].done
      /\ e.conflict = inbox[s].conflict /\ e.decision = d
  BY <1>3 DEF Entries
<1>6. /\ Len(inbox') = Len(inbox)
      /\ \A t \in 1..Len(inbox) : inbox'[t] = IF t = s THEN e ELSE inbox[t]
  BY <1>1, <1>4, EntryChanged
<1> HIDE DEF e
<1>7. hold'.step = "decide" /\ hold'.seq = s
  BY <1>1 DEF Holding
<1>8. LogKept
  BY <1>1 DEF LogKept, SyncInv, TypeOK
<1>9. \A h : Open(h)' = Open(h) /\ ~Replacing(h) /\ ~Overruled(h)
  BY <1>1, <1>5, <1>6 DEF Open, Replacing, Overruled
<1>10. ASSUME NEW h \in Files PROVE FileInv(h)'
  BY <1>1, <1>8, <1>9, FileKept DEF EditInv
<1>11. PickedFirst'
  BY <1>1, PickedKept DEF EditInv
<1>12. AppliedNow'
  BY <1>1, <1>5, <1>6, <1>7, NoneApplied DEF EditInv
<1>13. DecidedNow'
  <2>1. Unsettled = {}
    BY <1>1 DEF EditInv, DecidedNow
  <2>2. \A t \in Unsettled' : t = s
    BY <1>6, <2>1 DEF Unsettled
  <2>3. s \in Open(f)' /\ CurrentHead(s)' /\ log'[s].file = f
    BY <1>0, <1>1, <1>9 DEF CurrentHead
  <2>4. /\ inbox'[s].decision = d /\ ~d.committed /\ d.expected = disk[f]
        /\ d.live = (observed[f] # Absent) /\ d.op = 0 /\ d.seen = Len(queue[f])
        /\ d.copy = g /\ d.choice = choice
    BY <1>5, <1>6
  <2> HIDE DEF d
  <2>5. AsReviewed(s)'
    BY <1>1, <2>3, <2>4 DEF AsReviewed
  <2>6. NeedsCopy(s)' => disk'[g] = Absent /\ g # f
    BY <1>1, <2>4 DEF NeedsCopy
  <2> QED
    BY <1>1, <1>7, <2>2, <2>3, <2>4, <2>5, <2>6, StillDeciding
<1> QED
  BY <1>10, <1>11, <1>12, <1>13 DEF EditInv

\* What a decision under the lock is about.
LEMMA DecidingOn ==
    ASSUME SyncInv, ReviewInv, EditInv, NEW s \in 1..Len(inbox), NEW f \in Files,
           f = log[s].file, Deciding(s)
    PROVE  /\ hold.step = "decide" /\ hold.seq = s /\ s \in Open(f)
           /\ heads[f].revision = s /\ CurrentHead(s) /\ AsReviewed(s)
           /\ \A t \in Unsettled : t = s
           /\ \A g : ~Replacing(g) /\ ~Overruled(g)
           /\ ~inbox[s].decision.committed /\ inbox[s].decision.op = 0
           /\ inbox[s].decision.seen = Len(queue[f])
           /\ NeedsCopy(s) => disk[inbox[s].decision.copy] = Absent
                              /\ inbox[s].decision.copy # f
           /\ inbox[s] \in Entries /\ inbox[s].decision \in Decisions
           /\ inbox[s].decision.choice # "none"
<1>1. hold.step = "decide" /\ hold.seq = s
  BY DEF Deciding
<1>2. inbox[s] \in Entries /\ inbox[s].decision \in Decisions
  BY Tables DEF Entries
<1>3. inbox[s].decision.choice # "none"
  BY <1>1 DEF ReviewInv, Work, DecideWork
<1>4. heads[f].revision = s /\ CurrentHead(s)
  BY <1>1 DEF EditInv, DecidedNow, CurrentHead
<1> QED
  BY <1>1, <1>2, <1>3, <1>4 DEF EditInv, DecidedNow, Replacing, Overruled

\* The copy is a file of its own.
LEMMA CopyEdits ==
    ASSUME SyncInv, ReviewInv, EditInv, Calm', NEW s \in 1..Len(inbox), DecideCopy(s)
    PROVE  EditInv'
<1>0. PICK f \in Files : f = log[s].file
  BY EntryRevision DEF SyncInv
<1>1. /\ hold.step = "decide" /\ hold.seq = s /\ s \in Open(f)
      /\ heads[f].revision = s /\ AsReviewed(s)
      /\ \A t \in Unsettled : t = s
      /\ \A g : ~Replacing(g) /\ ~Overruled(g)
      /\ ~inbox[s].decision.committed /\ inbox[s].decision.op = 0
      /\ inbox[s].decision.seen = Len(queue[f])
      /\ inbox[s].decision.copy # f
      /\ inbox[s] \in Entries /\ inbox[s].decision \in Decisions
  BY <1>0, DecidingOn DEF DecideCopy
<1>2. PICK g \in Files, c \in Hashes :
         g = inbox[s].decision.copy /\ c = inbox[s].decision.expected
  BY <1>1 DEF Decisions
<1> DEFINE e == [inbox[s] EXCEPT !.decision.copied = TRUE]
<1>3. /\ UNCHANGED <<log, heads, cursor, engine, hold>> /\ LocalWrite(g, c)
      /\ inbox' = [inbox EXCEPT ![s] = e]
  BY <1>2 DEF DecideCopy, network
<1>4. e \in Entries
  BY <1>1, EntryUpdates
<1>5. /\ e.state = inbox[s].state /\ e.done = inbox[s].done
      /\ e.conflict = inbox[s].conflict
      /\ e.decision = [inbox[s].decision EXCEPT !.copied = TRUE]
  BY <1>1 DEF Entries
<1>6. /\ Len(inbox') = Len(inbox)
      /\ \A t \in 1..Len(inbox) : inbox'[t] = IF t = s THEN e ELSE inbox[t]
  BY <1>3, <1>4, EntryChanged
<1> HIDE DEF e
<1>7. /\ disk'[g] = c /\ queue'[g] = Append(queue[g], NewJob(c))
      /\ \A h \in Files \ {g} : disk'[h] = disk[h] /\ queue'[h] = queue[h]
      /\ \A h \in Files : \A i \in 1..Len(queue[h]) :
            i \in 1..Len(queue'[h]) /\ queue'[h][i].stage = queue[h][i].stage
  BY <1>3, WriteAppends
<1>8. LogKept
  BY <1>3 DEF LogKept, SyncInv, TypeOK
<1>9. \A h : Open(h)' = Open(h)
  BY <1>3, <1>5, <1>6 DEF Open
<1>10. FileInv(g)'
  BY <1>3, <1>7, <1>8, <1>9, WriteEdits DEF EditInv
<1>11. ASSUME NEW h \in Files, h # g PROVE FileInv(h)'
  BY <1>1, <1>3, <1>7, <1>8, <1>9, <1>11, FileKept DEF EditInv
<1>12. PickedFirst'
  BY <1>3, <1>7, PickedKept DEF EditInv
<1>13. AppliedNow'
  BY <1>1, <1>3, <1>5, <1>6, NoneApplied DEF EditInv
<1>14. DecidedNow'
  <2>1. g # f /\ disk'[f] = disk[f] /\ queue'[f] = queue[f]
    BY <1>1, <1>2, <1>7
  <2>2. observed' = disk' /\ observed = disk
    BY DEF EditInv, Calm
  <2>3. /\ inbox'[s].decision.expected = inbox[s].decision.expected
        /\ inbox'[s].decision.live = inbox[s].decision.live
        /\ inbox'[s].decision.copied
        /\ inbox'[s].decision.committed = inbox[s].decision.committed
        /\ inbox'[s].decision.op = inbox[s].decision.op
        /\ inbox'[s].decision.seen = inbox[s].decision.seen
    BY <1>1, <1>5, <1>6 DEF Decisions
  <2>4. \A t \in Unsettled' : t = s
    BY <1>1, <1>6 DEF Unsettled
  <2>5. s \in Open(f)' /\ CurrentHead(s)' /\ log'[s].file = f
    BY <1>0, <1>1, <1>3, <1>9 DEF CurrentHead
  <2>6. AsReviewed(s)'
    BY <1>0, <1>1, <2>1, <2>2, <2>3, <2>5 DEF AsReviewed
  <2>7. ~NeedsCopy(s)'
    BY <2>3 DEF NeedsCopy
  <2> QED
    BY <1>1, <1>3, <2>1, <2>3, <2>4, <2>5, <2>6, <2>7, StillDeciding
<1> QED
  BY <1>10, <1>11, <1>12, <1>13, <1>14 DEF EditInv

\* Keeping the local file: its operation is the newest, with what was reviewed.
LEMMA LocalEdits ==
    ASSUME SyncInv, ReviewInv, EditInv, Calm', NEW s \in 1..Len(inbox), DecideLocal(s)
    PROVE  EditInv'
<1>0. PICK f \in Files : f = log[s].file
  BY EntryRevision DEF SyncInv
<1>1. /\ hold.step = "decide" /\ hold.seq = s /\ s \in Open(f)
      /\ heads[f].revision = s /\ AsReviewed(s)
      /\ \A t \in Unsettled : t = s
      /\ \A g : ~Replacing(g) /\ ~Overruled(g)
      /\ inbox[s].decision.seen = Len(queue[f])
      /\ inbox[s] \in Entries /\ inbox[s].decision \in Decisions
  BY <1>0, DecidingOn DEF DecideLocal
<1>2. PICK c \in Hashes : c = inbox[s].decision.expected
  BY <1>1 DEF Decisions
<1>3. PICK n \in Nat, m \in Nat : n = Len(queue[f]) /\ m = n + 1
  BY Tables
<1> DEFINE e == [inbox[s] EXCEPT !.decision.committed = TRUE, !.decision.op = m]
<1>4. /\ UNCHANGED <<log, heads, cursor, engine>> /\ LocalWrite(f, c)
      /\ hold' = Holding("settle", s, "conflict")
      /\ inbox[s].decision.choice = "local"
      /\ inbox' = [inbox EXCEPT ![s] = e]
  <2>1. /\ UNCHANGED <<log, heads, cursor, engine>> /\ LocalWrite(f, c)
        /\ hold' = Holding("settle", s, "conflict")
        /\ inbox[s].decision.choice = "local"
        /\ inbox' = [inbox EXCEPT ![s].decision.committed = TRUE,
                                  ![s].decision.op = m]
    BY <1>0, <1>2, <1>3 DEF DecideLocal, network
  <2>2. inbox \in Seq(Entries)
    BY DEF SyncInv, TypeOK
  <2> QED
    BY <2>1, <2>2
<1>5. e \in Entries
  BY <1>1, EntryUpdates
<1>6. /\ e.state = inbox[s].state /\ e.done = inbox[s].done
      /\ e.conflict = inbox[s].conflict
      /\ e.decision = [inbox[s].decision EXCEPT !.committed = TRUE, !.op = m]
  BY <1>1 DEF Entries
<1>7. /\ Len(inbox') = Len(inbox)
      /\ \A t \in 1..Len(inbox) : inbox'[t] = IF t = s THEN e ELSE inbox[t]
  BY <1>4, <1>5, EntryChanged
<1> HIDE DEF e
<1>8. /\ disk'[f] = c /\ queue'[f] = Append(queue[f], NewJob(c))
      /\ \A h \in Files \ {f} : disk'[h] = disk[h] /\ queue'[h] = queue[h]
      /\ \A h \in Files : \A i \in 1..Len(queue[h]) :
            i \in 1..Len(queue'[h]) /\ queue'[h][i].stage = queue[h][i].stage
  BY <1>4, WriteAppends
<1>9. LogKept
  BY <1>4 DEF LogKept, SyncInv, TypeOK
<1>10. \A h : Open(h)' = Open(h)
  BY <1>4, <1>6, <1>7 DEF Open
<1>11. FileInv(f)'
  BY <1>4, <1>8, <1>9, <1>10, WriteEdits DEF EditInv
<1>12. ASSUME NEW h \in Files, h # f PROVE FileInv(h)'
  BY <1>1, <1>4, <1>8, <1>9, <1>10, <1>12, FileKept DEF EditInv
<1>13. PickedFirst'
  BY <1>4, <1>8, PickedKept DEF EditInv
<1>14. hold'.step = "settle" /\ hold'.seq = s
  BY <1>4 DEF Holding
<1>15. AppliedNow'
  BY <1>1, <1>6, <1>7, <1>14, NoneApplied DEF EditInv
<1>16. DecidedNow'
  <2>1. /\ inbox'[s].decision.choice = "local" /\ inbox'[s].decision.op = m
        /\ inbox'[s].decision.seen = n
    <3>1. /\ e.decision.choice = inbox[s].decision.choice
          /\ e.decision.seen = inbox[s].decision.seen /\ e.decision.op = m
      BY <1>1, <1>6 DEF Decisions
    <3>2. inbox'[s] = e
      BY <1>7
    <3> QED
      BY <1>1, <1>3, <1>4, <3>1, <3>2
  <2>2. \A t \in Unsettled' : t = s
    BY <1>1, <1>7 DEF Unsettled
  <2>3. s \in Open(f)' /\ CurrentHead(s)' /\ log'[s].file = f
    BY <1>0, <1>1, <1>4, <1>10 DEF CurrentHead
  <2>4. Len(queue'[f]) = m /\ queue'[f][m] = NewJob(c)
    <3>1. queue[f] \in Seq(Jobs)
      BY DEF SyncInv, TypeOK
    <3> QED
      BY <1>3, <1>8, <3>1
  <2>5. queue'[f][m].stage = "pending" /\ queue'[f][m].content = disk'[f]
    BY <1>8, <2>4 DEF NewJob
  <2> QED
    BY <1>3, <1>14, <2>1, <2>2, <2>3, <2>4, <2>5, StillSettling
<1> QED
  BY <1>11, <1>12, <1>13, <1>15, <1>16 DEF EditInv

\* Taking the incoming revision: its content is on the disk.
LEMMA RemoteEdits ==
    ASSUME SyncInv, ReviewInv, EditInv, Calm', NEW s \in 1..Len(inbox), DecideRemote(s)
    PROVE  EditInv'
<1>0. PICK f \in Files : f = log[s].file
  BY EntryRevision DEF SyncInv
<1>1. /\ hold.step = "decide" /\ hold.seq = s /\ s \in Open(f)
      /\ heads[f].revision = s /\ AsReviewed(s)
      /\ \A t \in Unsettled : t = s
      /\ \A g : ~Replacing(g) /\ ~Overruled(g)
      /\ inbox[s].decision.op = 0
      /\ inbox[s].decision.seen = Len(queue[f])
      /\ inbox[s] \in Entries /\ inbox[s].decision \in Decisions
  BY <1>0, DecidingOn DEF DecideRemote
<1>2. /\ UNCHANGED <<log, heads, cursor, engine, queue>>
      /\ hold' = Holding("settle", s, "conflict")
      /\ inbox[s].decision.choice \in {"remote", "copy"}
  BY DEF DecideRemote, RemoteWrite, network
<1>3. disk'[f] = log[s].content /\ \A g \in Files \ {f} : disk'[g] = disk[g]
  <2>1. disk \in [Files -> Hashes]
    BY DEF SyncInv, TypeOK
  <2> QED
    BY <1>0, <2>1 DEF DecideRemote, RemoteWrite
<1>4. /\ Len(inbox') = Len(inbox)
      /\ \A t \in 1..Len(inbox) : t # s => inbox'[t] = inbox[t]
      /\ inbox'[s].state = inbox[s].state /\ inbox'[s].done = inbox[s].done
      /\ inbox'[s].conflict = inbox[s].conflict
      /\ inbox'[s].decision.choice = inbox[s].decision.choice
      /\ inbox'[s].decision.op = inbox[s].decision.op
      /\ inbox'[s].decision.seen = inbox[s].decision.seen
  <2>1. CASE inbox' = inbox
    BY <2>1
  <2>2. CASE inbox' = [inbox EXCEPT ![s].decision.committed = TRUE]
    <3> DEFINE e == [inbox[s] EXCEPT !.decision.committed = TRUE]
    <3>1. e \in Entries /\ inbox' = [inbox EXCEPT ![s] = e]
      BY <1>1, <2>2, EntryUpdates
    <3>2. /\ e.state = inbox[s].state /\ e.done = inbox[s].done
          /\ e.conflict = inbox[s].conflict
          /\ e.decision = [inbox[s].decision EXCEPT !.committed = TRUE]
      BY <1>1 DEF Entries
    <3> HIDE DEF e
    <3>3. /\ e.decision.choice = inbox[s].decision.choice
          /\ e.decision.op = inbox[s].decision.op
          /\ e.decision.seen = inbox[s].decision.seen
      BY <1>1, <3>2 DEF Decisions
    <3>4. /\ Len(inbox') = Len(inbox)
          /\ \A t \in 1..Len(inbox) : inbox'[t] = IF t = s THEN e ELSE inbox[t]
      BY <3>1, EntryChanged
    <3> QED
      BY <3>2, <3>3, <3>4
  <2> QED
    BY <2>1, <2>2 DEF DecideRemote
<1>5. LogKept
  BY <1>2 DEF LogKept, SyncInv, TypeOK
<1>6. \A h : Open(h)' = Open(h)
  BY <1>2, <1>4 DEF Open
<1>7. hold'.step = "settle" /\ hold'.seq = s
  BY <1>2 DEF Holding
<1>8. ASSUME NEW h \in Files, h # f PROVE FileInv(h)'
  BY <1>1, <1>2, <1>3, <1>5, <1>6, <1>8, FileKept DEF EditInv
<1>9. FileInv(f)'
  <2>1. FileInv(f)
    BY DEF EditInv
  <2>2. HeadComplete(f)'
    BY <1>2, <1>5, <2>1, HeadKept DEF FileInv
  <2>3. InOrder(f)' /\ ConflictShown(f)'
    BY <1>2, <1>6, <2>1 DEF FileInv, InOrder, ConflictShown
  <2>4. NewestIsDisk(f)'
    BY <1>0, <1>2, <1>7 DEF NewestIsDisk, Overruled
  <2>5. EditKnown(f)'
    BY <1>1, <1>6 DEF EditKnown
  <2> QED
    BY <2>2, <2>3, <2>4, <2>5 DEF FileInv
<1>10. PickedFirst'
  BY <1>2, PickedKept DEF EditInv
<1>11. AppliedNow'
  BY <1>1, <1>4, <1>7, NoneApplied DEF EditInv
<1>12. DecidedNow'
  <2>1. \A t \in Unsettled' : t = s
    BY <1>1, <1>4 DEF Unsettled
  <2>2. s \in Open(f)' /\ CurrentHead(s)' /\ log'[s].file = f
    BY <1>0, <1>1, <1>2, <1>6 DEF CurrentHead
  <2> QED
    BY <1>1, <1>2, <1>3, <1>4, <1>7, <2>1, <2>2, StillSettling
<1> QED
  BY <1>8, <1>9, <1>10, <1>11, <1>12 DEF EditInv

\* The file's other operations go with the conflict: what stays is the operation
\* that has what is on the disk, or the disk is the revision of the head.
LEMMA SettleEdits ==
    ASSUME SyncInv, SyncInv', ReviewInv, HeadContents, EditInv, Calm',
           NEW s \in 1..Len(inbox), Settle(s)
    PROVE  EditInv'
<1>0. PICK f \in Files : f = log[s].file
  BY EntryRevision DEF SyncInv
<1>1. PICK op : op = inbox[s].decision.op
  OBVIOUS
<1>2. /\ hold.step = "settle" /\ hold.seq = s /\ hold'.step = "none"
      /\ UNCHANGED <<log, disk, heads, cursor, engine>>
      /\ queue' = [queue EXCEPT ![f] = Archived(f, op)]
      /\ inbox' = [inbox EXCEPT ![s].conflict = "resolved"]
  BY <1>0, <1>1 DEF Settle, NoHold, network
<1>3. /\ s \in Open(f) /\ heads[f].revision = s
      /\ \A t \in Unsettled : t = s
      /\ \/ /\ op = Len(queue[f]) /\ queue[f][op].stage = "pending"
            /\ queue[f][op].content = disk[f] /\ op \in 1..Len(queue[f])
         \/ op = 0 /\ disk[f] = log[s].content
  <2>1. s \in Open(f) /\ heads[f].revision = s
    BY <1>0, <1>2 DEF EditInv, DecidedNow, CurrentHead
  <2>2. \A t \in Unsettled : t = s
    BY <1>2 DEF EditInv, DecidedNow
  <2>3. /\ inbox[s].decision.choice = "local" =>
             /\ op = inbox[s].decision.seen + 1 /\ op = Len(queue[f])
             /\ queue[f][op].stage = "pending" /\ queue[f][op].content = disk[f]
        /\ inbox[s].decision.choice # "local" => op = 0 /\ disk[f] = log[s].content
    BY <1>0, <1>1, <1>2 DEF EditInv, DecidedNow
  <2>4. Len(queue[f]) \in Nat /\ inbox[s].decision.seen \in Nat
    <3>1. inbox[s] \in Entries
      BY Tables
    <3> QED
      BY <3>1, Tables DEF Entries, Decisions
  <2> QED
    BY <2>1, <2>2, <2>3, <2>4
<1>4. /\ queue \in [Files -> Seq(Jobs)] /\ queue' \in [Files -> Seq(Jobs)]
      /\ Len(queue[f]) \in Nat /\ s \in Nat /\ s # 0 /\ inbox[s] \in Entries
      /\ \A i \in 1..Len(queue[f]) : queue[f][i] \in Jobs
  BY Tables DEF SyncInv, TypeOK
<1>5. /\ \A g \in Files \ {f} : queue'[g] = queue[g]
      /\ Len(queue'[f]) = Len(queue[f])
      /\ \A i \in 1..Len(queue[f]) :
           /\ queue'[f][i].content = queue[f][i].content
           /\ queue'[f][i].stage = IF i = op \/ queue[f][i].stage = "acked"
                                   THEN queue[f][i].stage ELSE "archived"
  <2>1. /\ queue'[f] = [i \in DOMAIN queue[f] |->
                 IF i = op \/ queue[f][i].stage = "acked" THEN queue[f][i]
                 ELSE [queue[f][i] EXCEPT !.stage = "archived"]]
        /\ \A g \in Files \ {f} : queue'[g] = queue[g]
    BY <1>2, <1>4 DEF Archived
  <2>2. Len(queue'[f]) = Len(queue[f]) /\ DOMAIN queue[f] = 1..Len(queue[f])
    <3>1. queue[f] \in Seq(Jobs) /\ queue'[f] \in Seq(Jobs)
          /\ DOMAIN queue'[f] = DOMAIN queue[f]
      BY <1>4, <2>1
    <3> QED
      BY <3>1
  <2> QED
    BY <1>4, <2>1, <2>2 DEF Jobs
<1>6. /\ Len(inbox') = Len(inbox)
      /\ \A t \in 1..Len(inbox) : t # s => inbox'[t] = inbox[t]
      /\ inbox'[s].state = inbox[s].state /\ inbox'[s].done = inbox[s].done
      /\ inbox'[s].conflict = "resolved"
      /\ inbox'[s].decision = inbox[s].decision
  <2> DEFINE e == [inbox[s] EXCEPT !.conflict = "resolved"]
  <2>1. e \in Entries /\ inbox' = [inbox EXCEPT ![s] = e]
    BY <1>2, <1>4, EntryUpdates
  <2>2. /\ e.state = inbox[s].state /\ e.done = inbox[s].done
        /\ e.conflict = "resolved" /\ e.decision = inbox[s].decision
    BY <1>4 DEF Entries
  <2> HIDE DEF e
  <2>3. /\ Len(inbox') = Len(inbox)
        /\ \A t \in 1..Len(inbox) : inbox'[t] = IF t = s THEN e ELSE inbox[t]
    BY <2>1, EntryChanged
  <2> QED
    BY <2>2, <2>3
<1>7. LogKept /\ FileInv(f)
  BY <1>2 DEF LogKept, SyncInv, TypeOK, EditInv
<1>8. ASSUME NEW g \in Files, g # f PROVE FileInv(g)'
  <2>1. Open(g)' = Open(g)
    BY <1>0, <1>2, <1>6, <1>8 DEF Open
  <2>2. ~Replacing(g) /\ ~Overruled(g)
    BY <1>0, <1>2, <1>8 DEF Replacing, Overruled
  <2> QED
    BY <1>2, <1>5, <1>7, <1>8, <2>1, <2>2, FileKept DEF EditInv
<1>9. FileInv(f)'
  <2>1. HeadComplete(f)'
    <3>1. \A i \in 1..Len(queue[f]) :
             /\ i \in 1..Len(queue'[f])
             /\ queue[f][i].stage = "acked" => queue'[f][i].stage = "acked"
      BY <1>5
    <3> QED
      BY <1>2, <1>7, <3>1, HeadKept DEF FileInv
  <2>2. InOrder(f)'
    <3> SUFFICES ASSUME NEW i \in 1..Len(queue[f]), NEW j \in 1..Len(queue[f]), i < j
                 PROVE  queue'[f][i].stage \in Over
      BY <1>5 DEF InOrder
    <3>1. i # op
      BY <1>3, <1>4
    <3> QED
      BY <1>5, <3>1 DEF Over
  <2>3. ConflictShown(f)'
    BY <1>3, <1>5 DEF ConflictShown
  <2>4. NewestIsDisk(f)'
    BY <1>2, <1>3, <1>5 DEF NewestIsDisk, Over
  <2>5. EditKnown(f)'
    <3>1. CASE op \in 1..Len(queue[f]) /\ queue[f][op].stage = "pending"
      <4>1. op \in Outgoing(f)'
        BY <1>5, <3>1 DEF Outgoing
      <4> QED
        BY <4>1 DEF EditKnown
    <3>2. CASE disk[f] = log[s].content
      <4>1. heads[f].hash = log[s].content
        BY <1>3, <1>4 DEF HeadContents
      <4> QED
        BY <1>2, <3>2, <4>1 DEF EditKnown
    <3> QED
      BY <1>3, <3>1, <3>2
  <2> QED
    BY <2>1, <2>2, <2>3, <2>4, <2>5 DEF FileInv
<1>10. PickedFirst'
  <2> SUFFICES ASSUME engine.at = "picked" PROVE PickedFirst'
    BY <1>2 DEF PickedFirst
  <2>1. Open(engine.file) = {}
    BY DEF ReviewInv, Work, PickedIsClear
  <2>2. engine.file \in Files
    BY DEF SyncInv, TypeOK, Engines
  <2>3. queue'[engine.file] = queue[engine.file]
    BY <1>3, <1>5, <2>1, <2>2
  <2> QED
    BY <1>2, <2>3 DEF EditInv, PickedFirst
<1>11. AppliedNow'
  BY <1>2, <1>6, NoneApplied DEF EditInv
<1>12. DecidedNow'
  <2>1. Unsettled' = {}
    BY <1>3, <1>6 DEF Unsettled
  <2> QED
    BY <1>2, <2>1 DEF DecidedNow
<1> QED
  BY <1>8, <1>9, <1>10, <1>11, <1>12 DEF EditInv

\* A decision is neither resumed nor does it fail: the file is the one that was
\* reviewed.
LEMMA DecisionEdits ==
    ASSUME SyncInv, SyncInv', ReviewInv, HeadContents, EditInv, Calm', Decision
    PROVE  EditInv'
<1>1. ASSUME NEW s \in 1..Len(inbox), DecideResumed(s) \/ DecideFails(s)
      PROVE  FALSE
  <2>1. PICK f \in Files : f = log[s].file
    BY EntryRevision DEF SyncInv
  <2>2. /\ CurrentHead(s) /\ AsReviewed(s) /\ ~inbox[s].decision.committed
        /\ NeedsCopy(s) => disk[inbox[s].decision.copy] = Absent
    BY <1>1, <2>1, DecidingOn DEF DecideResumed, DecideFails
  <2> QED
    BY <1>1, <2>2 DEF DecideResumed, DecideFails
<1> QED
  BY <1>1, CopyEdits, LocalEdits, RemoteEdits, SettleEdits DEF Decision

-----------------------------------------------------------------------------
(* Theorems on edits and decisions *)

\* As long as no other program edits the vault and no process stops, operations
\* are dealt with in order, a decision is carried out on the file that was
\* reviewed, and what the disk has and the head has not is on its way.
THEOREM EditInvariant == Undisturbed => (Spec => []EditInv)
<1> SUFFICES ASSUME Undisturbed PROVE Spec => []EditInv
  OBVIOUS
<1> DEFINE ContentInv == OwnContents /\ HeadContents
<1>1. Init => ContentInv /\ EditInv
  <2> SUFFICES ASSUME Init PROVE ContentInv /\ EditInv
    OBVIOUS
  <2>1. ContentInv
    BY DEF Init, OwnContents, HeadContents
  <2>2. Calm
    BY DEF Init, Calm, Undisturbed
  <2>3. PickedFirst /\ AppliedNow /\ DecidedNow
    BY DEF Init, NoHold, PickedFirst, AppliedNow, DecidedNow, Pending, Unsettled
  <2>4. ASSUME NEW f \in Files PROVE FileInv(f)
    <3>1. RevisionsOf(f) = {} /\ queue[f] = <<>>
      BY DEF Init, RevisionsOf
    <3>2. disk[f] = heads[f].hash
      BY DEF Init
    <3> QED
      BY <3>1, <3>2 DEF FileInv, HeadComplete, InOrder, ConflictShown, NewestIsDisk,
         EditKnown
  <2> QED
    BY <2>1, <2>2, <2>3, <2>4 DEF EditInv
<1>2. SyncInv /\ SyncInv' /\ ContentInv /\ [Next]_vars => ContentInv'
  BY HeadContentsStep
<1>3. SyncInv /\ SyncInv' /\ ReviewInv /\ ContentInv /\ EditInv /\ [Next]_vars => EditInv'
  <2> SUFFICES ASSUME SyncInv, SyncInv', ReviewInv, HeadContents, EditInv, [Next]_vars
               PROVE  EditInv'
    OBVIOUS
  <2>1. Calm'
    BY CalmStep DEF EditInv
  <2>2. CASE Server \/ UNCHANGED vars
         \/ \E f \in Files, c \in Hashes : OtherCommit(f, c)
    <3>1. UNCHANGED <<durable, engine, hold>>
      BY <2>2 DEF Server, Serve, OtherCommit, vars
    <3> QED
      BY <2>1, <3>1, ServerEdits
  <2>3. CASE \/ \E f \in Files, c \in Hashes : ExternalEdit(f, c)
             \/ Crash
    <3>1. budget.externals = 0 /\ budget.crashes = 0
      BY DEF EditInv, Calm
    <3> QED
      BY <2>3, <3>1 DEF ExternalEdit, Crash
  <2>4. CASE GiveUp
    <3>1. engine'.at # "picked"
      BY <2>4 DEF GiveUp, Goto, SyncInv, TypeOK, Engines
    <3>2. UNCHANGED <<log, disk, observed, queue, heads, cursor, hold>> /\ InboxKept
      BY <2>4 DEF GiveUp, durable, InboxKept
    <3> QED
      BY <2>1, <3>1, <3>2, EngineEdits
  <2>5. CASE Apply
    BY <2>1, <2>5, KnownEdits, ReplacedEdits, ConflictEdits, FinishEdits DEF Apply
  <2>6. CASE Person
    BY <2>1, <2>6, EditEdits, DecideEdits DEF Person
  <2> QED
    BY <2>1, <2>2, <2>3, <2>4, <2>5, <2>6, PullEdits, PushEdits, DecisionEdits
       DEF Next, Environment
<1>4. Spec => []ContentInv
  BY <1>1, <1>2, SyncInvariant, PTL DEF Spec
<1> QED
  BY <1>1, <1>3, <1>4, SyncInvariant, ReviewInvariant, PTL DEF Spec

\* What discovery cannot see any more is on its way to the server or to the
\* person, whatever answers are lost and however cycles, edits and decisions
\* interleave.
THEOREM EditsAreAccountedFor == Undisturbed => (Spec => []EditsAccountedFor)
<1>1. EditInv => EditsAccountedFor
  BY DEF EditInv, FileInv, EditKnown, Replacing, Locked, EditsAccountedFor
<1> QED
  BY <1>1, EditInvariant, PTL

-----------------------------------------------------------------------------
(***************************************************************************)
(* Why a conflict is closed only when what the person chose is done,       *)
(* through edits of other programs and process stops: a third inductive    *)
(* invariant on top of SyncInv and ReviewInv.                              *)
(***************************************************************************)

\* What a decision's journalled operation left.
Outcome(s) == IF inbox[s].decision.choice = "local" THEN LocalKept(s) ELSE RevisionTaken(s)

\* What the records of a decision say, whether it is settled or not.
DecisionFacts(s) == LET d == inbox[s].decision IN
    /\ d.choice = "none" => ~d.committed /\ ~d.copied
    /\ d.seen <= Len(queue[log[s].file])
    /\ d.copied => CopyKept(s)
    /\ d.committed /\ d.choice = "copy" => d.copied

\* A decision whose operation is committed and whose conflict is not closed.
Halfway(s) == inbox[s].decision.committed /\ inbox[s].conflict # "resolved"
\* It is under the lock, or the cycle has not got past resuming it.
Held(s) == \/ hold.step \in {"decide", "settle"} /\ hold.seq = s
           \/ engine.at \in {"idle", "resume"}
Carried(s) == Halfway(s) => CurrentHead(s) /\ Outcome(s) /\ Held(s)

Settling ==
    hold.step = "settle" =>
        /\ Outcome(hold.seq)
        /\ inbox[hold.seq].decision.choice = "copy" => CopyKept(hold.seq)

DecisionInv ==
    /\ \A s \in 1..Len(inbox) : DecisionFacts(s) /\ Carried(s)
    /\ Settling

\* Revisions of entries stay.
LEMMA RevisionKept ==
    ASSUME SyncInv, [Next]_vars, NEW s \in 1..Len(inbox)
    PROVE  log'[s] = log[s]
<1>1. s \in 1..Len(log) /\ log \in Seq(Revisions)
  BY Tables DEF SyncInv, TypeOK
<1>2. log' = log \/ \E r \in Revisions : log' = Append(log, r)
  BY LogStep
<1> QED
  BY <1>1, <1>2

\* Entries stay.
LEMMA InboxGrows ==
    ASSUME SyncInv, [Next]_vars
    PROVE  1..Len(inbox) \subseteq 1..Len(inbox')
<1>1. inbox \in Seq(Entries)
  BY DEF SyncInv, TypeOK
<1>2. CASE inbox' = inbox
  BY <1>2
<1>3. CASE Stage
  BY <1>1, <1>3 DEF Stage
<1>4. ASSUME NEW s \in 1..Len(inbox),
             \/ ApplyFile(s) \/ Finish(s) \/ Settle(s)
             \/ DecideCopy(s) \/ DecideLocal(s) \/ DecideRemote(s)
             \/ \E choice \in Choices, g \in Files : Decide(s, choice, g)
      PROVE  Len(inbox') = Len(inbox)
  BY <1>1, <1>4 DEF ApplyFile, Finish, Settle, DecideCopy, DecideLocal, DecideRemote, Decide
<1>5. ASSUME NEW s \in 1..Len(inbox), ApplyConflict(s)
      PROVE  Len(inbox') = Len(inbox)
  BY <1>1, <1>5 DEF ApplyConflict
<1>6. CASE Apply \/ Decision \/ Person
  BY <1>2, <1>4, <1>5, <1>6 DEF Apply, ApplyOwn, ApplyKnown, Decision, DecideResumed,
     DecideFails, Person, Edit, durable
<1>7. CASE Server \/ Push \/ Environment \/ UNCHANGED vars
  BY <1>2, <1>7 DEF Server, Serve, Push, Capture, NothingToPush, PushRejected, Pick, Post,
     PushAcked, Environment, ExternalEdit, OtherCommit, GiveUp, Crash, vars, durable
<1>8. CASE Pull
  BY <1>2, <1>3, <1>8 DEF Pull, StartCycle, ResumeNext, ResumeDone, Drain, Fetch, EndPage,
     durable
<1> QED
  BY <1>6, <1>7, <1>8 DEF Next

\* Who writes decisions, and who closes a conflict.
LEMMA DecisionStep ==
    ASSUME SyncInv, [Next]_vars, NEW s \in 1..Len(inbox')
    PROVE  \/ /\ s \notin 1..Len(inbox)
              /\ inbox'[s] = Received
           \/ /\ s \in 1..Len(inbox)
              /\ inbox'[s].decision = inbox[s].decision
              /\ \/ inbox'[s].conflict = "resolved" <=> inbox[s].conflict = "resolved"
                 \/ Settle(s)
           \/ /\ s \in 1..Len(inbox)
              /\ inbox'[s].conflict = inbox[s].conflict
              /\ \/ \E choice \in Choices, g \in Files : Decide(s, choice, g)
                 \/ DecideCopy(s) \/ DecideLocal(s) \/ DecideRemote(s)
<1>1. inbox \in Seq(Entries) /\ \A t \in 1..Len(inbox) : inbox[t] \in Entries
  BY DEF SyncInv, TypeOK
<1>2. CASE inbox' = inbox
  BY <1>2
<1>3. CASE Stage
  BY <1>1, <1>3 DEF Stage
<1>4. ASSUME NEW t \in 1..Len(inbox),
             \/ ApplyFile(t) \/ Finish(t) \/ Settle(t)
             \/ DecideCopy(t) \/ DecideLocal(t) \/ DecideRemote(t)
             \/ \E choice \in Choices, g \in Files : Decide(t, choice, g)
      PROVE  /\ s \in 1..Len(inbox)
             /\ s # t => inbox'[s] = inbox[s]
  BY <1>1, <1>4 DEF ApplyFile, Finish, Settle, DecideCopy, DecideLocal, DecideRemote, Decide
<1>5. ASSUME NEW t \in 1..Len(inbox), ApplyFile(t) \/ Finish(t)
      PROVE  /\ inbox'[t].decision = inbox[t].decision
             /\ inbox'[t].conflict = inbox[t].conflict
  BY <1>1, <1>5 DEF ApplyFile, Finish, Entries
<1>6. ASSUME NEW t \in 1..Len(inbox), Settle(t)
      PROVE  inbox'[t].decision = inbox[t].decision
  BY <1>1, <1>6 DEF Settle, Entries
<1>7. ASSUME NEW t \in 1..Len(inbox),
             \/ DecideCopy(t) \/ DecideLocal(t) \/ DecideRemote(t)
             \/ \E choice \in Choices, g \in Files : Decide(t, choice, g)
      PROVE  inbox'[t].conflict = inbox[t].conflict
  BY <1>1, <1>7 DEF DecideCopy, DecideLocal, DecideRemote, Decide, Entries
<1>8. ASSUME NEW t \in 1..Len(inbox), ApplyConflict(t)
      PROVE  /\ s \in 1..Len(inbox) /\ inbox'[s].decision = inbox[s].decision
             /\ inbox'[s].conflict = "resolved" <=> inbox[s].conflict = "resolved"
  <2>1. Len(inbox') = Len(inbox) /\ DOMAIN inbox = 1..Len(inbox)
    BY <1>1, <1>8 DEF ApplyConflict
  <2>2. s \in DOMAIN inbox /\ inbox[s] \in Entries
    BY <1>1, <2>1
  <2>3. \/ /\ inbox[s].conflict # "resolved"
           /\ \/ inbox'[s] = [inbox[s] EXCEPT !.conflict = "open"]
              \/ inbox'[s] = [inbox[s] EXCEPT !.conflict = "superseded"]
        \/ inbox'[s] = inbox[s]
    BY <1>8, <2>2 DEF ApplyConflict, Open
  <2> QED
    BY <2>1, <2>2, <2>3 DEF Entries
<1>9. CASE Apply
  BY <1>2, <1>4, <1>5, <1>8, <1>9 DEF Apply, ApplyOwn, ApplyKnown, durable
<1>10. CASE Decision \/ Person
  BY <1>2, <1>4, <1>6, <1>7, <1>10
     DEF Decision, Person, DecideResumed, DecideFails, Edit, durable
<1>11. CASE Server \/ Push \/ Environment \/ UNCHANGED vars
  BY <1>2, <1>11 DEF Server, Serve, Push, Capture, NothingToPush, PushRejected, Pick, Post,
     PushAcked, Environment, ExternalEdit, OtherCommit, GiveUp, Crash, vars, durable
<1>12. CASE Pull
  BY <1>2, <1>3, <1>12 DEF Pull, StartCycle, ResumeNext, ResumeDone, Drain, Fetch, EndPage,
     durable
<1> QED
  BY <1>9, <1>10, <1>11, <1>12 DEF Next

\* What the pieces of a decision write in its entry.
LEMMA DecisionWrites ==
    ASSUME SyncInv, NEW s \in 1..Len(inbox)
    PROVE  /\ inbox[s].decision \in Decisions
           /\ DecideCopy(s) => inbox'[s].decision = [inbox[s].decision EXCEPT !.copied = TRUE]
           /\ DecideLocal(s) => inbox'[s].decision =
                 [inbox[s].decision EXCEPT !.committed = TRUE,
                                           !.op = Len(queue[log[s].file]) + 1]
           /\ DecideRemote(s) => inbox'[s].decision \in
                 {inbox[s].decision, [inbox[s].decision EXCEPT !.committed = TRUE]}
           /\ \A t \in 1..Len(inbox) \ {s} :
                 DecideCopy(s) \/ DecideLocal(s) \/ DecideRemote(s) \/ Settle(s)
                 \/ (\E choice \in Choices, g \in Files : Decide(s, choice, g)) =>
                    inbox'[t] = inbox[t]
           /\ Settle(s) => inbox'[s].conflict = "resolved"
                           /\ inbox'[s].decision = inbox[s].decision
<1>1. inbox[s] \in Entries /\ inbox[s].decision \in Decisions /\ inbox \in Seq(Entries)
  BY Tables DEF Entries, SyncInv, TypeOK
<1>2. PICK m \in Nat : m = Len(queue[log[s].file]) + 1
  BY Tables
<1> DEFINE copied == [inbox[s] EXCEPT !.decision.copied = TRUE]
           committed == [inbox[s] EXCEPT !.decision.committed = TRUE]
           local == [inbox[s] EXCEPT !.decision.committed = TRUE, !.decision.op = m]
<1>3. copied \in Entries /\ committed \in Entries /\ local \in Entries
  BY <1>1, EntryUpdates
<1>4. ASSUME DecideCopy(s)
      PROVE  inbox'[s].decision = [inbox[s].decision EXCEPT !.copied = TRUE]
  <2>1. inbox' = [inbox EXCEPT ![s] = copied]
    BY <1>4 DEF DecideCopy
  <2>2. inbox'[s] = copied
    <3>1. /\ Len(inbox') = Len(inbox)
         /\ \A t \in 1..Len(inbox) : inbox'[t] = IF t = s THEN copied ELSE inbox[t]
      BY <1>3, <2>1, EntryChanged
    <3> QED
      BY <3>1
  <2> QED
    BY <1>1, <2>2 DEF Entries
<1>5. ASSUME DecideLocal(s)
      PROVE  inbox'[s].decision = [inbox[s].decision EXCEPT !.committed = TRUE, !.op = m]
  <2>1. inbox' = [inbox EXCEPT ![s].decision.committed = TRUE, ![s].decision.op = m]
    BY <1>2, <1>5 DEF DecideLocal
  <2>2. inbox' = [inbox EXCEPT ![s] = local]
    BY <1>1, <2>1
  <2>3. inbox'[s] = local
    <3>1. /\ Len(inbox') = Len(inbox)
         /\ \A t \in 1..Len(inbox) : inbox'[t] = IF t = s THEN local ELSE inbox[t]
      BY <1>3, <2>2, EntryChanged
    <3> QED
      BY <3>1
  <2> QED
    BY <1>1, <2>3 DEF Entries
<1>6. ASSUME DecideRemote(s)
      PROVE  inbox'[s].decision \in
               {inbox[s].decision, [inbox[s].decision EXCEPT !.committed = TRUE]}
  <2>1. CASE inbox' = inbox
    BY <2>1
  <2>2. CASE inbox' = [inbox EXCEPT ![s] = committed]
    <3>1. inbox'[s] = committed
      <4>1. /\ Len(inbox') = Len(inbox)
           /\ \A t \in 1..Len(inbox) : inbox'[t] = IF t = s THEN committed ELSE inbox[t]
        BY <1>3, <2>2, EntryChanged
      <4> QED
        BY <4>1
    <3> QED
      BY <1>1, <3>1 DEF Entries
  <2> QED
    BY <1>6, <2>1, <2>2 DEF DecideRemote
<1>7. ASSUME Settle(s)
      PROVE  inbox'[s].conflict = "resolved" /\ inbox'[s].decision = inbox[s].decision
  BY <1>1, <1>7 DEF Settle, Entries
<1>8. ASSUME NEW t \in 1..Len(inbox) \ {s},
             \/ DecideCopy(s) \/ DecideLocal(s) \/ DecideRemote(s) \/ Settle(s)
             \/ \E choice \in Choices, g \in Files : Decide(s, choice, g)
      PROVE  inbox'[t] = inbox[t]
  BY <1>1, <1>8 DEF DecideCopy, DecideLocal, DecideRemote, Settle, Decide
<1> HIDE DEF copied, committed, local
<1> QED
  BY <1>1, <1>2, <1>4, <1>5, <1>6, <1>7, <1>8

\* Decisions keep their word: operations are never removed nor changed.
LEMMA FactsStep ==
    ASSUME SyncInv, SyncInv', [Next]_vars, \A s \in 1..Len(inbox) : DecisionFacts(s),
           NEW s \in 1..Len(inbox')
    PROVE  DecisionFacts(s)'
<1>1. ContentsKept
  BY ContentsStep
<1>2. \A f \in Files : Len(queue[f]) \in Nat /\ Len(queue'[f]) \in Nat
  BY DEF SyncInv, TypeOK
<1>3. \A f \in Files : Len(queue[f]) <= Len(queue'[f])
  BY <1>1, <1>2 DEF ContentsKept
<1>4. CASE s \notin 1..Len(inbox) /\ inbox'[s] = Received
  <2>1. s \in 1..Len(log') /\ log' \in Seq(Revisions)
    BY DEF SyncInv, TypeOK, Positions
  <2>2. log'[s] \in Revisions
    BY <2>1
  <2>3. log'[s].file \in Files
    BY <2>2 DEF Revisions
  <2> QED
    BY <1>2, <1>4, <2>3 DEF DecisionFacts, Received, NoDecision
<1>5. CASE s \in 1..Len(inbox)
  <2> DEFINE d == inbox[s].decision  e == inbox'[s].decision
  <2>1. PICK f \in Files : f = log[s].file /\ log'[s] = log[s]
    BY <1>5, EntryRevision, RevisionKept DEF SyncInv
  <2>2. inbox[s] \in Entries /\ d \in Decisions
    BY <1>5, Tables DEF Entries
  <2>3. d.copy \in Files /\ d.seen \in Nat /\ DecisionFacts(s)
    BY <1>5, <2>2 DEF Decisions
  <2>4. inbox \in Seq(Entries)
    BY DEF SyncInv, TypeOK
  \* A copy stays an operation.
  <2>5. CopyKept(s) /\ e.copy = d.copy /\ e.expected = d.expected => CopyKept(s)'
    BY <1>1, <2>3 DEF CopyKept, ContentsKept
  <2>6. d.seen <= Len(queue'[f])
    BY <1>2, <1>3, <2>1, <2>3 DEF DecisionFacts
  <2>7. CASE e = d
    BY <2>1, <2>3, <2>5, <2>6, <2>7 DEF DecisionFacts
  <2>8. ASSUME NEW choice \in Choices, NEW g \in Files, Decide(s, choice, g)
        PROVE  DecisionFacts(s)'
    <3>1. /\ e = [choice |-> choice, expected |-> disk[f], live |-> observed[f] # Absent,
                  copy |-> g, copied |-> FALSE, committed |-> FALSE, op |-> 0,
                  seen |-> Len(queue[f])]
          /\ queue' = queue
      BY <1>5, <2>1, <2>2, <2>4, <2>8 DEF Decide, Entries
    <3> QED
      BY <1>2, <2>1, <3>1 DEF DecisionFacts
  <2>9. CASE DecideCopy(s)
    <3>1. e = [d EXCEPT !.copied = TRUE] /\ LocalWrite(d.copy, d.expected) /\ d.choice = "copy"
      <4>1. e = [d EXCEPT !.copied = TRUE]
        BY <1>5, <2>9, DecisionWrites
      <4> QED
        BY <2>9, <4>1 DEF DecideCopy, NeedsCopy
    <3>2. /\ e.copied /\ e.choice = "copy" /\ e.seen = d.seen
          /\ e.copy = d.copy /\ e.expected = d.expected
      BY <2>2, <3>1 DEF Decisions
    <3>3. CopyKept(s)'
      <4>1. PICK g \in Files : g = d.copy
        BY <2>3
      <4>2. queue'[g] = Append(queue[g], NewJob(d.expected)) /\ queue[g] \in Seq(Jobs)
        BY <3>1, <4>1, WriteAppends DEF SyncInv, TypeOK
      <4>3. /\ Len(queue[g]) + 1 \in 1..Len(queue'[g])
            /\ queue'[g][Len(queue[g]) + 1] = NewJob(d.expected)
        <5> DEFINE job == NewJob(d.expected)
        <5>1. queue'[g] = Append(queue[g], job)
          BY <4>2
        <5>2. PICK q \in Seq(Jobs) : q = queue[g]
          BY <4>2
        <5> HIDE DEF job
        <5>3. /\ Len(q) + 1 \in 1..Len(Append(q, job))
              /\ Append(q, job)[Len(q) + 1] = job
          OBVIOUS
        <5> QED
          BY <5>1, <5>2, <5>3 DEF job
      <4>4. queue'[e.copy][Len(queue[g]) + 1].content = e.expected
        BY <3>2, <4>1, <4>3 DEF NewJob
      <4> QED
        BY <3>2, <4>1, <4>3, <4>4 DEF CopyKept
    <3> QED
      BY <2>1, <2>6, <3>2, <3>3 DEF DecisionFacts
  <2>10. CASE DecideLocal(s) \/ DecideRemote(s)
    <3>1. /\ e.copied = d.copied /\ e.choice = d.choice /\ e.seen = d.seen
          /\ e.copy = d.copy /\ e.expected = d.expected
      <4>1. CASE DecideLocal(s)
        BY <1>5, <2>2, <2>4, <4>1 DEF DecideLocal, Entries, Decisions
      <4>2. CASE DecideRemote(s)
        BY <1>5, <2>2, <2>4, <4>2 DEF DecideRemote, Entries, Decisions
      <4> QED
        BY <2>10, <4>1, <4>2
    <3>2. d.choice = "copy" => d.copied
      BY <2>10 DEF DecideLocal, DecideRemote, NeedsCopy
    <3>3. d.choice # "none"
      BY <2>10 DEF DecideLocal, DecideRemote
    <3> QED
      BY <2>1, <2>3, <2>5, <2>6, <3>1, <3>2, <3>3 DEF DecisionFacts
  <2> QED
    BY <1>5, <2>7, <2>8, <2>9, <2>10, DecisionStep
<1> QED
  BY <1>4, <1>5, DecisionStep

\* What a step leaves of the traces of a decision on a file.
TracesKept(f) ==
    /\ \A i \in 1..Len(queue[f]) :
          queue[f][i].stage = "pending" => queue'[f][i].stage = "pending"
    /\ observed'[f] = observed[f] \/ Len(queue[f]) < Len(queue'[f])

LEMMA OutcomeKept ==
    ASSUME SyncInv, SyncInv', [Next]_vars, NEW s \in 1..Len(inbox), DecisionFacts(s),
           Outcome(s), TracesKept(log[s].file), inbox'[s].decision = inbox[s].decision
    PROVE  Outcome(s)'
<1>1. PICK f \in Files : f = log[s].file /\ log'[s] = log[s]
  BY EntryRevision, RevisionKept DEF SyncInv
<1>2. ContentsKept
  BY ContentsStep
<1>3. Len(queue[f]) \in Nat /\ Len(queue'[f]) \in Nat
  BY DEF SyncInv, TypeOK
<1>4. inbox[s].decision.seen \in Nat
  BY Tables DEF Entries, Decisions
<1>5. Len(queue[f]) <= Len(queue'[f])
  BY <1>2, <1>3 DEF ContentsKept
<1>6. LocalKept(s) => LocalKept(s)'
  BY <1>1, <1>2 DEF LocalKept, TracesKept, ContentsKept
<1>7. RevisionTaken(s) => RevisionTaken(s)'
  BY <1>1, <1>3, <1>4, <1>5 DEF RevisionTaken, TracesKept, DecisionFacts
<1> QED
  BY <1>6, <1>7 DEF Outcome

\* A decision that a step leaves alone.
LEMMA CarriedKept ==
    ASSUME SyncInv, SyncInv', [Next]_vars, NEW s \in 1..Len(inbox), DecisionFacts(s),
           Carried(s), inbox'[s].decision = inbox[s].decision,
           inbox[s].conflict = "resolved" => inbox'[s].conflict = "resolved",
           Halfway(s) => /\ heads'[log[s].file] = heads[log[s].file]
                         /\ TracesKept(log[s].file) /\ Held(s)'
    PROVE  Carried(s)'
<1> SUFFICES ASSUME Halfway(s)'
             PROVE  CurrentHead(s)' /\ Outcome(s)' /\ Held(s)'
  BY DEF Carried
<1>1. Halfway(s)
  BY DEF Halfway
<1>2. Outcome(s)'
  BY <1>1, OutcomeKept DEF Carried
<1> QED
  BY <1>1, <1>2, RevisionKept DEF Carried, CurrentHead

\* A decision that is half-way is unsettled, and the engine waits for it.
LEMMA HalfwayWaits ==
    ASSUME NEW s \in 1..Len(inbox), DecisionFacts(s), Carried(s), Halfway(s)
    PROVE  /\ s \in Unsettled
           /\ hold.step \notin {"decide", "settle"} => engine.at \in {"idle", "resume"}
           /\ hold.step \notin {"decide", "settle"} \/ hold.seq # s =>
                 engine.at \in {"idle", "resume"}
  BY DEF DecisionFacts, Carried, Halfway, Held, Unsettled

\* The server and other programs change nothing that a decision left behind.
LEMMA TracesStay ==
    ASSUME NEW f, UNCHANGED <<observed, queue>>
    PROVE  TracesKept(f)
  BY DEF TracesKept

\* A write in the application, or its discovery, is an operation behind the others.
LEMMA TracesGrow ==
    ASSUME SyncInv, NEW f \in Files,
           \/ queue'[f] = queue[f] /\ observed'[f] = observed[f]
           \/ \E c : queue'[f] = Append(queue[f], NewJob(c))
    PROVE  TracesKept(f)
<1>1. PICK q \in Seq(Jobs) : q = queue[f]
  BY DEF SyncInv, TypeOK
<1>2. CASE queue'[f] = queue[f] /\ observed'[f] = observed[f]
  BY <1>2 DEF TracesKept
<1>3. ASSUME NEW c, queue'[f] = Append(queue[f], NewJob(c))
      PROVE  TracesKept(f)
  <2> DEFINE job == NewJob(c)
  <2>1. queue'[f] = Append(q, job)
    BY <1>1, <1>3
  <2> HIDE DEF job
  <2>2. Len(q) < Len(Append(q, job)) /\ \A i \in 1..Len(q) : Append(q, job)[i] = q[i]
    OBVIOUS
  <2> QED
    BY <1>1, <2>1, <2>2 DEF TracesKept
<1> QED
  BY <1>2, <1>3

LEMMA WriteTraces ==
    ASSUME SyncInv, NEW f \in Files, NEW c, LocalWrite(f, c), NEW g \in Files
    PROVE  TracesKept(g)
<1>1. /\ queue'[f] = Append(queue[f], NewJob(c))
      /\ g # f => queue'[g] = queue[g]
  BY WriteAppends
<1>2. g # f => observed'[g] = observed[g]
  BY DEF LocalWrite, SyncInv, TypeOK
<1> QED
  BY <1>1, <1>2, TracesGrow

\* A decision that was half-way is carried through every step.
LEMMA ServerCarries ==
    ASSUME SyncInv, SyncInv', [Next]_vars, NEW s \in 1..Len(inbox), DecisionFacts(s),
           Carried(s), Server \/ Environment \/ UNCHANGED vars
    PROVE  Carried(s)'
<1>1. UNCHANGED <<observed, queue, heads, inbox>>
  BY DEF Server, Serve, Environment, ExternalEdit, OtherCommit, GiveUp, Crash, vars, durable
<1>2. \/ hold' = hold /\ engine' = engine
      \/ engine'.at = "idle"
  <2>1. engine \in Engines
    BY DEF SyncInv, TypeOK
  <2> QED
    BY <2>1 DEF Server, Serve, Environment, ExternalEdit, OtherCommit, GiveUp, Crash, Goto,
       Engines, vars
<1>3. Held(s) => Held(s)'
  BY <1>2 DEF Held
<1> QED
  BY <1>1, <1>3, CarriedKept, TracesStay DEF Carried

LEMMA PullCarries ==
    ASSUME SyncInv, SyncInv', ReviewInv, [Next]_vars, NEW s \in 1..Len(inbox),
           DecisionFacts(s), Carried(s), Pull, inbox'[s].decision = inbox[s].decision,
           inbox[s].conflict = "resolved" => inbox'[s].conflict = "resolved"
    PROVE  Carried(s)'
<1> SUFFICES ASSUME Halfway(s)
             PROVE  /\ heads'[log[s].file] = heads[log[s].file]
                    /\ TracesKept(log[s].file) /\ Held(s)'
  BY CarriedKept
<1>1. s \in Unsettled
  BY HalfwayWaits
<1>2. hold.step = "none" => engine.at \in {"idle", "resume"}
  BY HalfwayWaits
<1>3. PICK f \in Files : f = log[s].file
  BY EntryRevision DEF SyncInv
<1>4. engine \in Engines /\ disk \in [Files -> Hashes] /\ queue \in [Files -> Seq(Jobs)]
  BY DEF SyncInv, TypeOK
<1>5. CASE StartCycle
  <2>1. heads' = heads /\ Held(s)'
    BY <1>4, <1>5 DEF StartCycle, GotoPhase, Engines, Held
  <2>2. \/ queue'[f] = queue[f] /\ observed'[f] = observed[f]
        \/ queue'[f] = Append(queue[f], NewJob(disk[f]))
    BY <1>4, <1>5 DEF StartCycle, Discovered
  <2> QED
    BY <1>3, <2>1, <2>2, TracesGrow
<1>6. CASE ResumeNext
  <2>1. UNCHANGED <<heads, queue, observed, engine>> /\ engine.at = "resume"
    BY <1>6 DEF ResumeNext, durable
  <2> QED
    BY <2>1, TracesStay DEF Held
<1>7. CASE ResumeDone
  BY <1>1, <1>7 DEF ResumeDone
<1>8. CASE Drain \/ Fetch \/ Stage \/ EndPage
  BY <1>2, <1>8 DEF Drain, Fetch, Stage, EndPage, Locked
<1> QED
  BY <1>5, <1>6, <1>7, <1>8 DEF Pull

LEMMA PushCarries ==
    ASSUME SyncInv, SyncInv', ReviewInv, [Next]_vars, NEW s \in 1..Len(inbox),
           DecisionFacts(s), Carried(s), Push \/ Apply,
           inbox'[s].decision = inbox[s].decision,
           inbox[s].conflict = "resolved" => inbox'[s].conflict = "resolved"
    PROVE  Carried(s)'
<1> SUFFICES ASSUME Halfway(s)
             PROVE  FALSE
  BY CarriedKept
<1>1. s \in Unsettled
  BY HalfwayWaits
<1>2. hold.step \notin {"decide", "settle"} => engine.at \in {"idle", "resume"}
  BY HalfwayWaits
<1>3. CASE Push
  BY <1>1, <1>2, <1>3
     DEF Push, Capture, NothingToPush, PushRejected, Pick, Post, PushAcked, Locked
<1>4. CASE Apply
  <2>1. hold.step \in {"apply", "finish"}
    BY <1>4 DEF Apply, ApplyOwn, ApplyKnown, ApplyConflict, ApplyFile, Finish, Applying
  <2> QED
    BY <1>2, <2>1 DEF ReviewInv, Work, ApplyWork
<1> QED
  BY <1>3, <1>4

LEMMA PersonCarries ==
    ASSUME SyncInv, SyncInv', [Next]_vars, NEW s \in 1..Len(inbox), DecisionFacts(s),
           Carried(s), Person
    PROVE  Carried(s)'
<1>1. PICK f \in Files : f = log[s].file
  BY EntryRevision DEF SyncInv
<1>2. CASE \E g \in Files, c \in Hashes : Edit(g, c)
  <2>1. PICK g \in Files, c \in Hashes : Edit(g, c)
    BY <1>2
  <2>2. UNCHANGED <<heads, inbox, engine, hold>> /\ TracesKept(f)
    BY <2>1, WriteTraces DEF Edit
  <2> QED
    BY <1>1, <2>2, CarriedKept DEF Carried, Held
<1>3. ASSUME NEW t \in 1..Len(inbox), NEW choice \in Choices, NEW g \in Files,
             Decide(t, choice, g)
      PROVE  Carried(s)'
  <2>1. /\ UNCHANGED <<queue, observed, heads, engine>> /\ hold.step = "none"
        /\ hold' = Holding("decide", t, "conflict")
    BY <1>3 DEF Decide, Locked
  <2>2. CASE s = t
    <3>1. inbox[s] \in Entries /\ inbox \in Seq(Entries)
      BY Tables DEF SyncInv, TypeOK
    <3>2. ~inbox'[s].decision.committed
      BY <1>3, <2>2, <3>1 DEF Decide, Entries
    <3> QED
      BY <3>2 DEF Carried, Halfway
  <2>3. CASE s # t
    <3>1. inbox'[s] = inbox[s]
      BY <1>3, <2>3, DecisionWrites
    <3>2. Held(s) => Held(s)'
      BY <2>1 DEF Held
    <3> QED
      BY <2>1, <3>1, <3>2, CarriedKept, TracesStay DEF Carried
  <2> QED
    BY <2>2, <2>3
<1> QED
  BY <1>2, <1>3 DEF Person

\* A piece of work on a conflict, seen from a decision on another one: two that
\* are half-way or under the lock on the current head are not about one file.
LEMMA OthersCarry ==
    ASSUME SyncInv, SyncInv', [Next]_vars, NEW t \in 1..Len(inbox), CurrentHead(t),
           DecideLocal(t) \/ DecideRemote(t) \/ Settle(t),
           NEW s \in 1..Len(inbox) \ {t}, DecisionFacts(s), Carried(s)
    PROVE  Carried(s)'
<1>1. PICK f \in Files, g \in Files : f = log[s].file /\ g = log[t].file
  BY EntryRevision DEF SyncInv
<1>2. inbox'[s] = inbox[s]
  BY DecisionWrites
<1> SUFFICES ASSUME Halfway(s)
             PROVE  /\ heads'[f] = heads[f] /\ TracesKept(f) /\ Held(s)'
  BY <1>1, <1>2, CarriedKept
<1>3. f # g
  BY <1>1 DEF Carried, CurrentHead
<1>4. hold.seq = t
  BY DEF DecideLocal, DecideRemote, Settle, Deciding
<1>5. engine.at \in {"idle", "resume"} /\ engine' = engine
  BY <1>4, HalfwayWaits DEF DecideLocal, DecideRemote, Settle
<1>6. heads' = heads
  BY DEF DecideLocal, DecideRemote, Settle
<1>7. queue \in [Files -> Seq(Jobs)] /\ observed \in [Files -> Hashes]
  BY DEF SyncInv, TypeOK
<1>8. queue'[f] = queue[f] /\ observed'[f] = observed[f]
  <2>1. CASE DecideLocal(t)
    BY <1>1, <1>3, <1>7, <2>1 DEF DecideLocal, LocalWrite
  <2>2. CASE DecideRemote(t)
    BY <1>1, <1>3, <1>7, <2>2 DEF DecideRemote, RemoteWrite
  <2>3. CASE Settle(t)
    BY <1>1, <1>3, <1>7, <2>3 DEF Settle
  <2> QED
    BY <2>1, <2>2, <2>3
<1> QED
  BY <1>5, <1>6, <1>8, TracesGrow DEF Held

\* Keeping the local file makes it an operation of its own.
LEMMA LocalOutcome ==
    ASSUME SyncInv, SyncInv', [Next]_vars, NEW s \in 1..Len(inbox), DecideLocal(s)
    PROVE  inbox'[s].decision.choice = "local" /\ LocalKept(s)'
<1>1. PICK f \in Files : f = log[s].file /\ log'[s] = log[s]
  BY EntryRevision, RevisionKept DEF SyncInv
<1> DEFINE d == inbox[s].decision
<1>2. d \in Decisions
  BY DecisionWrites
<1>3. PICK c \in Hashes : c = d.expected
  BY <1>2 DEF Decisions
<1>4. PICK q \in Seq(Jobs) : q = queue[f]
  BY DEF SyncInv, TypeOK
<1>5. inbox'[s].decision = [d EXCEPT !.committed = TRUE, !.op = Len(q) + 1]
  BY <1>1, <1>4, DecisionWrites
<1>6. d.choice = "local" /\ LocalWrite(f, c)
  BY <1>1, <1>3 DEF DecideLocal
<1>7. /\ inbox'[s].decision.choice = "local" /\ inbox'[s].decision.expected = c
      /\ inbox'[s].decision.op = Len(q) + 1
  BY <1>2, <1>3, <1>5, <1>6 DEF Decisions
<1> DEFINE job == NewJob(c)
<1>8. queue'[f] = Append(q, job)
  BY <1>4, <1>6, WriteAppends
<1>9. job.content = c /\ job.stage = "pending"
  BY DEF NewJob
<1> HIDE DEF job
<1>10. Len(q) + 1 \in 1..Len(Append(q, job)) /\ Append(q, job)[Len(q) + 1] = job
  OBVIOUS
<1> QED
  BY <1>1, <1>7, <1>8, <1>9, <1>10 DEF LocalKept

\* Taking the incoming revision writes it, or finds its deletion done.
LEMMA RemoteOutcome ==
    ASSUME SyncInv, SyncInv', [Next]_vars, NEW s \in 1..Len(inbox), DecideRemote(s)
    PROVE  inbox'[s].decision.choice # "local" /\ RevisionTaken(s)'
<1>1. PICK f \in Files : f = log[s].file /\ log'[s] = log[s]
  BY EntryRevision, RevisionKept DEF SyncInv
<1>2. /\ inbox[s].decision \in Decisions
      /\ inbox'[s].decision \in
           {inbox[s].decision, [inbox[s].decision EXCEPT !.committed = TRUE]}
  BY DecisionWrites
<1>3. /\ inbox'[s].decision.choice = inbox[s].decision.choice
      /\ inbox'[s].decision.expected = inbox[s].decision.expected
  BY <1>2 DEF Decisions
<1>4. inbox[s].decision.choice \in {"remote", "copy"}
  BY DEF DecideRemote
<1>5. CASE log[s].content = Absent /\ disk[f] = Absent
  BY <1>1, <1>3, <1>5 DEF DecideRemote, AsReviewed, RevisionTaken
<1>6. CASE RemoteWrite(f, log[s].content)
  <2>1. observed'[f] = log[s].content
    BY <1>6 DEF RemoteWrite, SyncInv, TypeOK
  <2>2. observed'[log'[s].file] = log'[s].content
    BY <1>1, <2>1
  <2> QED
    BY <1>3, <1>4, <2>2 DEF RevisionTaken
<1> QED
  BY <1>1, <1>3, <1>4, <1>5, <1>6 DEF DecideRemote

LEMMA DecisionCarries ==
    ASSUME SyncInv, SyncInv', ReviewInv, [Next]_vars, NEW s \in 1..Len(inbox),
           DecisionFacts(s), Carried(s), Decision
    PROVE  Carried(s)'
<1>1. PICK t \in 1..Len(inbox) :
         \/ DecideCopy(t) \/ DecideLocal(t) \/ DecideRemote(t)
         \/ DecideResumed(t) \/ DecideFails(t) \/ Settle(t)
  BY DEF Decision
<1>2. PICK f \in Files : f = log[s].file
  BY EntryRevision DEF SyncInv
<1>4. CASE DecideCopy(t)
  <2> DEFINE d == inbox[t].decision
  <2>1. d \in Decisions /\ inbox'[t].decision = [d EXCEPT !.copied = TRUE]
    BY <1>4, DecisionWrites
  <2>2. PICK g \in Files, c \in Hashes : g = d.copy /\ c = d.expected
    BY <2>1 DEF Decisions
  <2>3. UNCHANGED <<heads, engine, hold>> /\ ~d.committed /\ LocalWrite(g, c)
    BY <1>4, <2>2 DEF DecideCopy
  <2>4. CASE s = t
    <3>1. ~inbox'[s].decision.committed
      BY <2>1, <2>3, <2>4 DEF Decisions
    <3> QED
      BY <3>1 DEF Carried, Halfway
  <2>5. CASE s # t
    <3>1. inbox'[s] = inbox[s]
      BY <1>4, <2>5, DecisionWrites
    <3>2. TracesKept(f)
      BY <2>3, WriteTraces
    <3> QED
      BY <1>2, <2>3, <3>1, <3>2, CarriedKept DEF Carried, Held
  <2> QED
    BY <2>4, <2>5
<1>5. CASE DecideLocal(t)
  <2>1. CASE s = t
    <3>1. heads' = heads /\ CurrentHead(s) /\ hold'.step = "settle" /\ hold'.seq = s
      BY <1>5, <2>1 DEF DecideLocal, Holding
    <3> QED
      BY <1>5, <2>1, <3>1, LocalOutcome, RevisionKept DEF Carried, Outcome, CurrentHead, Held
  <2>2. CASE s # t
    BY <1>5, <2>2, OthersCarry DEF DecideLocal
  <2> QED
    BY <2>1, <2>2
<1>6. CASE DecideRemote(t)
  <2>1. CASE s = t
    <3>1. heads' = heads /\ CurrentHead(s) /\ hold'.step = "settle" /\ hold'.seq = s
      BY <1>6, <2>1 DEF DecideRemote, Holding
    <3> QED
      BY <1>6, <2>1, <3>1, RemoteOutcome, RevisionKept DEF Carried, Outcome, CurrentHead, Held
  <2>2. CASE s # t
    BY <1>6, <2>2, OthersCarry DEF DecideRemote
  <2> QED
    BY <2>1, <2>2
<1>7. CASE DecideResumed(t)
  <2>1. /\ UNCHANGED <<queue, observed, heads, inbox, engine>>
        /\ hold.seq = t /\ hold'.step = "settle" /\ hold'.seq = t
    BY <1>7 DEF DecideResumed, Deciding, Holding, durable
  <2> QED
    BY <2>1, CarriedKept, TracesStay DEF Carried, Held
<1>8. CASE DecideFails(t)
  <2>1. /\ UNCHANGED <<queue, observed, heads, inbox>> /\ hold.seq = t
        /\ engine' = engine \/ engine'.at = "idle"
    <3>1. engine \in Engines
      BY DEF SyncInv, TypeOK
    <3> QED
      BY <1>8, <3>1 DEF DecideFails, Deciding, Goto, durable, Engines
  <2>2. Halfway(s) => s # t
    BY <1>8 DEF DecideFails, Carried, Halfway
  <2>3. Halfway(s) => engine.at \in {"idle", "resume"}
    BY <2>1, <2>2, HalfwayWaits
  <2> QED
    BY <2>1, <2>3, CarriedKept, TracesStay DEF Held
<1>9. CASE Settle(t)
  <2>1. CASE s = t
    BY <1>9, <2>1, DecisionWrites DEF Carried, Halfway
  <2>2. CASE s # t
    <3>1. CurrentHead(t)
      BY <1>9 DEF Settle, ReviewInv, Work, DecideWork, CurrentHead
    <3> QED
      BY <1>9, <2>2, <3>1, OthersCarry
  <2> QED
    BY <2>1, <2>2
<1> QED
  BY <1>1, <1>4, <1>5, <1>6, <1>7, <1>8, <1>9

LEMMA CarriedStep ==
    ASSUME SyncInv, SyncInv', ReviewInv, [Next]_vars,
           \A t \in 1..Len(inbox) : DecisionFacts(t) /\ Carried(t),
           NEW s \in 1..Len(inbox')
    PROVE  Carried(s)'
<1>1. CASE s \notin 1..Len(inbox) /\ inbox'[s] = Received
  BY <1>1 DEF Carried, Halfway, Received, NoDecision
<1>2. CASE s \in 1..Len(inbox)
  <2>1. CASE Server \/ Environment \/ UNCHANGED vars
    BY <1>2, <2>1, ServerCarries
  <2>2. CASE Person
    BY <1>2, <2>2, PersonCarries
  <2>3. CASE Decision
    BY <1>2, <2>3, DecisionCarries
  <2>4. ASSUME Pull \/ Push \/ Apply, ~Decision, ~Person
        PROVE  Carried(s)'
    <3>1. /\ inbox'[s].decision = inbox[s].decision
          /\ inbox[s].conflict = "resolved" => inbox'[s].conflict = "resolved"
      BY <1>2, <2>4, DecisionStep DEF Decision, Person
    <3> QED
      BY <1>2, <2>4, <3>1, PullCarries, PushCarries
  <2> QED
    BY <2>1, <2>2, <2>3, <2>4 DEF Next
<1> QED
  BY <1>1, <1>2, DecisionStep

\* The decision that is about to be recorded as carried out has been.
LEMMA SettlingStep ==
    ASSUME SyncInv, SyncInv', ReviewInv, [Next]_vars, DecisionInv,
           \A s \in 1..Len(inbox') : DecisionFacts(s)'
    PROVE  Settling'
<1> SUFFICES ASSUME hold'.step = "settle"
             PROVE  /\ Outcome(hold.seq)'
                    /\ inbox'[hold'.seq].decision.choice = "copy" => CopyKept(hold.seq)'
  BY DEF Settling
<1>1. ASSUME NEW s \in 1..Len(inbox), DecideLocal(s)
      PROVE  /\ hold'.seq = s /\ Outcome(s)' /\ inbox'[s].decision.choice # "copy"
  BY <1>1, LocalOutcome DEF DecideLocal, Holding, Outcome
<1>2. ASSUME NEW s \in 1..Len(inbox), DecideRemote(s)
      PROVE  /\ hold'.seq = s /\ Outcome(s)'
             /\ inbox'[s].decision.choice = "copy" => CopyKept(s)'
  <2> DEFINE d == inbox[s].decision
  <2>1. d \in Decisions /\ inbox'[s].decision \in {d, [d EXCEPT !.committed = TRUE]}
    BY <1>2, DecisionWrites
  <2>2. inbox'[s].decision.choice = d.choice /\ inbox'[s].decision.copied = d.copied
    BY <2>1 DEF Decisions
  <2>3. d.choice = "copy" => d.copied
    BY <1>2 DEF DecideRemote, NeedsCopy
  <2>4. Len(inbox') = Len(inbox)
    BY <1>2 DEF DecideRemote, SyncInv, TypeOK
  <2>5. hold'.seq = s
    BY <1>2 DEF DecideRemote, Holding
  <2> QED
    BY <1>2, <2>2, <2>3, <2>4, <2>5, RemoteOutcome DEF DecisionFacts, Outcome
<1>3. ASSUME NEW s \in 1..Len(inbox), DecideResumed(s)
      PROVE  /\ hold'.seq = s /\ Outcome(s)'
             /\ inbox'[s].decision.choice = "copy" => CopyKept(s)'
  <2>1. /\ UNCHANGED <<log, queue, observed, inbox>> /\ hold'.seq = s
        /\ inbox[s].decision.committed /\ hold.step = "decide" /\ hold.seq = s
    BY <1>3 DEF DecideResumed, Deciding, Holding, durable, network
  <2>2. Halfway(s)
    BY <2>1 DEF Halfway, ReviewInv, Work, DecideWork
  <2>3. Outcome(s) /\ DecisionFacts(s)
    BY <2>2 DEF DecisionInv, Carried
  <2>4. inbox'[s].decision.choice = "copy" => inbox'[s].decision.copied
    BY <2>1, <2>3 DEF DecisionFacts
  <2>5. Outcome(s)'
    BY <2>1, <2>3 DEF Outcome, LocalKept, RevisionTaken
  <2> QED
    BY <2>1, <2>4, <2>5 DEF DecisionFacts
<1>4. CASE UNCHANGED <<queue, observed, inbox, hold>>
  <2>1. hold.step = "settle" /\ hold'.seq = hold.seq /\ hold.seq \in 1..Len(inbox)
    BY <1>4 DEF ReviewInv, Work, DecideWork
  <2>2. PICK s \in 1..Len(inbox) : s = hold.seq
    BY <2>1
  <2>3. Outcome(s) /\ (inbox[s].decision.choice = "copy" => CopyKept(s))
    BY <2>1, <2>2 DEF DecisionInv, Settling
  <2>4. Outcome(s)'
    BY <1>4, <2>3, OutcomeKept, TracesStay DEF DecisionInv
  <2>5. inbox'[s].decision.choice = "copy" => CopyKept(s)'
    BY <1>4, <2>3 DEF CopyKept
  <2> QED
    BY <2>1, <2>2, <2>4, <2>5
<1>5. CASE Apply \/ Pull \/ Push
  <2>1. CASE Apply
    <3>1. hold'.step \in {"finish", "none"}
      BY <2>1 DEF Apply, ApplyOwn, ApplyKnown, ApplyConflict, ApplyFile, Finish, ToFinish,
         Holding, NoHold
    <3> QED
      BY <3>1
  <2>2. CASE Pull
    <3>1. hold.step = "none"
      BY <2>2 DEF Pull, StartCycle, ResumeNext, ResumeDone, Drain, Fetch, Stage, EndPage, Locked
    <3>2. hold' = hold \/ hold'.step \in {"decide", "apply"}
      BY <2>2 DEF Pull, StartCycle, ResumeNext, ResumeDone, Drain, Fetch, Stage, EndPage,
         Holding
    <3> QED
      BY <3>1, <3>2
  <2>3. CASE Push
    BY <2>3 DEF Push, Capture, NothingToPush, PushRejected, Pick, Post, PushAcked, Locked
  <2> QED
    BY <1>5, <2>1, <2>2, <2>3
<1>6. CASE Person
  BY <1>6 DEF Person, Edit, Decide, Locked, Holding
<1>7. CASE Server \/ Environment \/ UNCHANGED vars
  <2>1. UNCHANGED <<queue, observed, inbox>>
    BY <1>7 DEF Server, Serve, Environment, ExternalEdit, OtherCommit, GiveUp, Crash, vars,
       durable
  <2>2. hold' = hold \/ hold'.step = "none"
    <3>1. CASE Server \/ UNCHANGED vars
      BY <3>1 DEF Server, Serve, vars
    <3>2. CASE GiveUp \/ Crash
      BY <3>2 DEF GiveUp, Crash, NoHold
    <3>3. CASE \E f \in Files, c \in Hashes : ExternalEdit(f, c) \/ OtherCommit(f, c)
      BY <3>3 DEF ExternalEdit, OtherCommit
    <3> QED
      BY <1>7, <3>1, <3>2, <3>3 DEF Environment
  <2> QED
    BY <1>4, <2>1, <2>2
<1>8. CASE Decision
  BY <1>1, <1>2, <1>3, <1>8 DEF Decision, DecideCopy, DecideFails, Settle, NoHold, Deciding
<1> QED
  BY <1>5, <1>6, <1>7, <1>8 DEF Next

\* The tables, the log, the work in progress and the decisions stay as they are
\* said to be (SyncInv, ReviewInv, DecisionInv) in every reachable state.
THEOREM DecisionInvariant == Spec => []DecisionInv
<1>1. Init => DecisionInv
  BY DEF Init, DecisionInv, Settling, NoHold
<1>2. SyncInv /\ SyncInv' /\ ReviewInv /\ DecisionInv /\ [Next]_vars => DecisionInv'
  <2> SUFFICES ASSUME SyncInv, SyncInv', ReviewInv, DecisionInv, [Next]_vars
               PROVE  DecisionInv'
    OBVIOUS
  <2>1. \A s \in 1..Len(inbox) : DecisionFacts(s) /\ Carried(s)
    BY DEF DecisionInv
  <2>2. \A s \in 1..Len(inbox') : DecisionFacts(s)'
    BY <2>1, FactsStep
  <2>3. \A s \in 1..Len(inbox') : Carried(s)'
    BY <2>1, CarriedStep
  <2>4. Settling'
    BY <2>2, SettlingStep
  <2> QED
    BY <2>2, <2>3, <2>4 DEF DecisionInv
<1> QED
  BY <1>1, <1>2, SyncInvariant, ReviewInvariant, PTL DEF Spec

\* sync_apply_resolution, sync_resume_resolutions: a conflict is closed only
\* when what the person chose is done, on the revision that is still the head,
\* also by a decision that a stop cut short, that edits, other programs and
\* revisions of other devices met, and that a later cycle resumed.
THEOREM DecisionsDoneHolds == Spec => DecisionsDone
<1> DEFINE done(s) ==
        /\ CurrentHead(s)
        /\ IF inbox[s].decision.choice = "local"
           THEN LocalKept(s) /\ LocalKept(s)' ELSE RevisionTaken(s)
        /\ inbox[s].decision.choice = "copy" => CopyKept(s)
<1>1. SyncInv /\ SyncInv' /\ ReviewInv /\ DecisionInv /\ [Next]_vars =>
        \A s \in 1..Len(inbox) :
          inbox[s].conflict # "resolved" /\ inbox'[s].conflict = "resolved" => done(s)
  <2> SUFFICES ASSUME SyncInv, SyncInv', ReviewInv, DecisionInv, [Next]_vars,
                      NEW s \in 1..Len(inbox), inbox[s].conflict # "resolved",
                      inbox'[s].conflict = "resolved"
               PROVE  done(s)
    OBVIOUS
  <2>1. s \in 1..Len(inbox')
    BY InboxGrows
  <2>2. Settle(s)
    BY <2>1, DecisionStep
  <2>3. hold.step = "settle" /\ hold.seq = s
    BY <2>2 DEF Settle
  <2>4. CurrentHead(s)
    BY <2>3 DEF ReviewInv, Work, DecideWork, CurrentHead
  <2>5. Outcome(s) /\ (inbox[s].decision.choice = "copy" => CopyKept(s))
    BY <2>3 DEF DecisionInv, Settling
  <2>6. LocalKept(s) => LocalKept(s)'
    <3>1. PICK f \in Files : f = log[s].file /\ log'[s] = log[s]
      BY EntryRevision, RevisionKept DEF SyncInv
    <3>2. inbox'[s].decision = inbox[s].decision
      BY <2>2, DecisionWrites
    <3>3. queue \in [Files -> Seq(Jobs)]
      BY DEF SyncInv, TypeOK
    <3>4. queue'[f] = Archived(f, inbox[s].decision.op)
      BY <2>2, <3>1, <3>3 DEF Settle
    <3>5. DOMAIN queue[f] = 1..Len(queue[f]) /\ Len(queue[f]) \in Nat
      BY <3>3
    <3>6. /\ Len(queue'[f]) = Len(queue[f])
          /\ \A i \in 1..Len(queue[f]) : i = inbox[s].decision.op =>
                queue'[f][i] = queue[f][i]
      BY <3>4, <3>5 DEF Archived
    <3> QED
      BY <3>1, <3>2, <3>6 DEF LocalKept
  <2> QED
    BY <2>4, <2>5, <2>6 DEF Outcome
<1>2. SyncInv /\ SyncInv' /\ ReviewInv /\ DecisionInv /\ [Next]_vars =>
        [\A s \in 1..Len(inbox) :
          inbox[s].conflict # "resolved" /\ inbox'[s].conflict = "resolved" => done(s)]_vars
  BY <1>1
<1> QED
  BY <1>2, SyncInvariant, ReviewInvariant, DecisionInvariant, PTL DEF Spec, DecisionsDone

=============================================================================

-------------------------- MODULE ExperimentProofs --------------------------
(***************************************************************************)
(* Proofs about ExperimentRun, for any operation ids and bounds, and about *)
(* ExperimentImport, for any imports and paths.                            *)
(***************************************************************************)
EXTENDS ExperimentRun, ExperimentImport, TLAPS

States == {"none", "awaiting_confirmation", "approved", "forgotten"} \cup Active \cup Terminal
Runs == [state : States, print : Nat, approval : Nat \cup {None}, outputs : BOOLEAN]
Ending == {"stopped", "collected", "revoked", "unlinked", "cleaned"}
Points == {"none", "done", "broken", "issued", "running", "ending", "finishing"} \cup Preparing \cup Ending
Results == {"none"} \cup Terminal
Workers == [pc : Points, op : Ops \cup {None}, result : Results, outputs : BOOLEAN]
Executions == [approval : Nat \cup {None}, print : Nat]

Types ==
    /\ runs \in [Ops -> Runs] /\ source \in Nat
    /\ open \in BOOLEAN /\ lease \in BOOLEAN
    /\ runner \in [pc : {"free", "reserved", "claimed", "joining"}, op : Ops \cup {None}]
    /\ owner \in Owners \cup {None}
    /\ worker \in Workers
    /\ native \subseteq Processes \cup Things
    /\ obligation \in Obligations \cup {None}
    /\ approvals \in Nat /\ executed \in Seq(Executions)

Claiming == runner.pc \in {"reserved", "claimed"}

\* One run at a time is claimed or worked on, in an open vault; whoever does so
\* owns the execution and, until the clean-up is complete, the cleanup journal.
Owned ==
    /\ Claiming => open /\ ~Alive /\ runner.op \in Ops
    /\ Alive => open /\ worker.op \in Ops
    /\ owner # None <=> runner.pc = "claimed" \/ Alive
    /\ runner.pc = "claimed" => owner.op = runner.op
    /\ Alive => owner.op = worker.op
    /\ Claiming \/ (Alive /\ worker.pc \notin {"ending", "finishing"}) =>
          lease /\ obligation # None
    /\ runner.pc = "claimed" => runs[runner.op].state \in {"starting", "cancel_requested"}

\* A process exists from its creation to its end, and runs only under the
\* approval that its record has.
Executing ==
    /\ "suspended" \in native => worker.pc \in {"suspended", "issued"}
    /\ "running" \in native => worker.pc = "running"
    /\ worker.pc \in {"issued", "running"} =>
          /\ runs[worker.op].state \in {"running", "cancel_requested"}
          /\ runs[worker.op].approval = owner.approval

\* Every approval was given to one run, and one that may still be used has not
\* let a process run.
Given == 1..approvals
Spent == {executed[i].approval : i \in 1..Len(executed)}
Unused == Given \ Spent
Approvals ==
    /\ \A op \in Ops : runs[op].approval \in Given \cup {None}
    /\ \A op, other \in Ops :
          runs[op].approval = runs[other].approval /\ runs[op].approval # None => op = other
    /\ Spent \subseteq Given
    /\ \A i, j \in 1..Len(executed) : executed[i].approval = executed[j].approval => i = j
    /\ \A op \in Ops : runs[op].state \in {"approved", "starting"} => runs[op].approval \in Unused
    /\ runner.pc = "claimed" \/ worker.pc \in Preparing \cup {"issued"} =>
          owner.approval \in Unused

\* What the worker makes next is in the journal already.
NotedBefore ==
    /\ worker.pc = "noted_runtime" => "runtime_grants" \in obligation.noted
    /\ worker.pc = "noted_grants" => "source_grants" \in obligation.noted
    /\ worker.pc \in {"job", "suspended", "issued"} => "job" \in obligation.noted
    /\ worker.pc \in (Preparing \cup {"issued"}) \ {"preflight"} => obligation.phase # "reserved"

\* A directory without a name in the journal is being recorded now, or was left
\* by one of the bounded events.
Strays ==
    /\ nameless \in Nat /\ events \in Nat /\ NamelessAreFew
    /\ worker.pc = "folder" => nameless >= 1

RunInv == Types /\ Owned /\ Executing /\ Approvals /\ Owed /\ NotedBefore /\ Strays

-----------------------------------------------------------------------------
(* The records of the runs. *)

LEMMA StatesAre ==
    {"none", "awaiting_confirmation", "approved", "forgotten", "starting", "running",
     "cancel_requested", "completed", "failed", "cancelled", "limited", "interrupted",
     "rejected"} \subseteq States
  BY DEF States, Active, Terminal

\* How a record may change, other than by being approved.
Moves(r, s) ==
    /\ s \in Runs
    /\ s.approval \in {r.approval, None}
    /\ s.state \in {"approved", "starting"} =>
          s.approval = r.approval /\ r.state \in {"approved", "starting"}
    /\ s.state # r.state =>
          /\ r.state \in Terminal => s.state = "forgotten"
          /\ r.state # "forgotten"
          /\ r.state = "cancel_requested" => s.state \in {"cancelled", "interrupted"}

\* A record that is approved gets the next number.
Newly(op) ==
    /\ runs[op].state = "awaiting_confirmation"
    /\ runs'[op] = [runs[op] EXCEPT !.state = "approved", !.approval = approvals + 1]
    /\ approvals' = approvals + 1

\* One record changes.
Changes(op, s) == runs' = [runs EXCEPT ![op] = s]
LEMMA OneChanges ==
    ASSUME Types, NEW op \in Ops, NEW s, Changes(op, s)
    PROVE  /\ DOMAIN runs' = Ops /\ runs[op] \in Runs
           /\ runs'[op] = s
           /\ \A o \in Ops \ {op} : runs'[o] = runs[o] /\ runs[o] \in Runs
           /\ runs' = [o \in Ops |-> runs'[o]]
  BY DEF Types, Changes

Moved == /\ runs' = [op \in Ops |-> runs'[op]]
         /\ \A op \in Ops : Moves(runs[op], runs'[op])

LEMMA StaysMoved ==
    ASSUME Types, UNCHANGED runs
    PROVE  Moved
  BY DEF Types, Moved, Moves, Runs

LEMMA OneMoves ==
    ASSUME Types, NEW op \in Ops, NEW s, Changes(op, s), Moves(runs[op], s)
    PROVE  Moved
<1>1. \A o \in Ops \ {op} : Moves(runs[o], runs'[o])
  BY OneChanges DEF Moves, Runs
<1> QED
  BY <1>1, OneChanges DEF Moved

\* A record takes one of these states without a new approval.
LEMMA StateMoves ==
    ASSUME NEW r \in Runs, NEW s \in States \ {"approved"},
           s = "starting" => r.state = "approved",
           r.state \notin Terminal \cup {"forgotten"},
           r.state = "cancel_requested" => s \in {"cancelled", "interrupted"}
    PROVE  /\ Moves(r, [r EXCEPT !.state = s])
           /\ s # "starting" => Moves(r, [r EXCEPT !.state = s, !.approval = None])
           /\ \A b \in BOOLEAN : Moves(r, [r EXCEPT !.state = s, !.outputs = b])
<1>1. ASSUME NEW x \in Runs, x.state = s, x.approval \in {r.approval, None},
             s # "starting" \/ x.approval = r.approval
      PROVE  Moves(r, x)
  BY <1>1 DEF Moves
<1>2. Moves(r, [r EXCEPT !.state = s])
  <2> DEFINE x == [r EXCEPT !.state = s]
  <2>1. x \in Runs /\ x.state = s /\ x.approval = r.approval
    BY DEF Runs
  <2>2. Moves(r, x)
    <3> HIDE DEF x
    <3> QED
      BY <1>1, <2>1
  <2> QED
    BY <2>2
<1>3. ASSUME s # "starting" PROVE Moves(r, [r EXCEPT !.state = s, !.approval = None])
  <2> DEFINE x == [r EXCEPT !.state = s, !.approval = None]
  <2>1. x \in Runs /\ x.state = s /\ x.approval = None
    BY DEF Runs
  <2>2. Moves(r, x)
    <3> HIDE DEF x
    <3> QED
      BY <1>1, <1>3, <2>1
  <2> QED
    BY <2>2
<1>4. ASSUME NEW b \in BOOLEAN PROVE Moves(r, [r EXCEPT !.state = s, !.outputs = b])
  <2> DEFINE x == [r EXCEPT !.state = s, !.outputs = b]
  <2>1. x \in Runs /\ x.state = s /\ x.approval = r.approval
    BY DEF Runs
  <2>2. Moves(r, x)
    <3> HIDE DEF x
    <3> QED
      BY <1>1, <2>1
  <2> QED
    BY <2>2
<1> QED
  BY <1>2, <1>3, <1>4

\* The transitions of the code.
LEMMA CodeMoves ==
    ASSUME NEW r \in Runs
    PROVE  /\ Moves(r, Cancelled(r)) /\ Moves(r, Recovered(r))
           /\ r.state \in {"approved", "awaiting_confirmation", "starting"} =>
                 Moves(r, Invalid(r))
           /\ r.state \in {"approved", "starting"} => Moves(r, Awaiting(r))
<1>0. Moves(r, r)
  BY DEF Moves, Runs
<1>1. Moves(r, Cancelled(r))
  <2>1. CASE r.state \in {"awaiting_confirmation", "approved"}
    BY <2>1, StateMoves, StatesAre DEF Cancelled, Terminal
  <2>2. CASE r.state \in {"starting", "running"}
    BY <2>2, StateMoves, StatesAre DEF Cancelled, Terminal
  <2>3. CASE r.state \notin {"awaiting_confirmation", "approved", "starting", "running"}
    BY <1>0, <2>3 DEF Cancelled
  <2> QED
    BY <2>1, <2>2, <2>3
<1>2. r.state \in {"approved", "starting"} => Moves(r, Awaiting(r))
  BY StateMoves, StatesAre DEF Awaiting, Terminal
<1>3. r.state \in {"approved", "awaiting_confirmation", "starting"} => Moves(r, Invalid(r))
  BY StateMoves, StatesAre DEF Invalid, Terminal
<1>4. Moves(r, Recovered(r))
  <2>1. CASE r.state \in Active
    BY <2>1, StateMoves, StatesAre DEF Recovered, Active, Terminal
  <2>2. CASE r.state = "approved"
    BY <1>2, <2>2 DEF Recovered, Active
  <2>3. CASE r.state \notin Active \cup {"approved"}
    BY <1>0, <2>3 DEF Recovered
  <2> QED
    BY <2>1, <2>2, <2>3
<1> QED
  BY <1>1, <1>2, <1>3, <1>4

\* Every step moves records as above, or approves one of them.
LEMMA RecordsMove ==
    ASSUME Types, Owned, Next
    PROVE  /\ runs' = [op \in Ops |-> runs'[op]]
           /\ \A op \in Ops : runs'[op] \in Runs
           /\ \A op \in Ops : Moves(runs[op], runs'[op]) \/ Newly(op)
           /\ \/ (\A op \in Ops : Moves(runs[op], runs'[op])) /\ UNCHANGED approvals
              \/ \E op \in Ops : Newly(op) /\ \A o \in Ops \ {op} : runs'[o] = runs[o]
<1>a. \A op \in Ops : runs[op] \in Runs
  BY DEF Types
<1>s. ASSUME Moved, UNCHANGED approvals
      PROVE  /\ runs' = [op \in Ops |-> runs'[op]]
             /\ \A op \in Ops : runs'[op] \in Runs
             /\ \A op \in Ops : Moves(runs[op], runs'[op]) \/ Newly(op)
             /\ \/ (\A op \in Ops : Moves(runs[op], runs'[op])) /\ UNCHANGED approvals
                \/ \E op \in Ops : Newly(op) /\ \A o \in Ops \ {op} : runs'[o] = runs[o]
  BY <1>s DEF Moved, Moves
<1>n. ASSUME NEW op \in Ops, UNCHANGED approvals,
             runs[op].state \notin Terminal \cup {"forgotten", "cancel_requested"},
             NEW s \in States \ {"approved", "starting"},
             Changes(op, [runs[op] EXCEPT !.state = s])
      PROVE  Moved
  BY <1>a, <1>n, StateMoves, OneMoves
<1>1. ASSUME NEW op \in Ops, Prepare(op) \/ AgentPrepare(op)
      PROVE  Moved /\ UNCHANGED approvals
  <2>1. Proposal \in Runs /\ Proposal.approval = None /\ Proposal.state = "awaiting_confirmation"
    BY StatesAre DEF Proposal, NoRun, Runs, Fingerprint, Types
  <2>2. runs[op] = NoRun /\ UNCHANGED approvals
    BY <1>1 DEF Prepare, AgentPrepare
  <2>3. Moves(runs[op], Proposal)
    BY <2>1, <2>2 DEF Moves, NoRun, Terminal
  <2>4. CASE runs' \in {runs, [runs EXCEPT ![op] = Proposal]}
    BY <2>2, <2>3, <2>4, StaysMoved, OneMoves DEF Changes
  <2>5. CASE runs' = Retired(op)
    <3>1. ASSUME NEW o \in Ops PROVE Moves(runs[o], runs'[o])
      <4>1. CASE o = op
        BY <2>3, <2>5, <4>1 DEF Retired
      <4>2. CASE o # op /\ o \in Current /\ runs[o].state = "awaiting_confirmation"
        BY <1>a, <2>5, <4>2, StateMoves, StatesAre DEF Retired, Terminal
      <4>3. CASE o # op /\ ~(o \in Current /\ runs[o].state = "awaiting_confirmation")
        BY <1>a, <2>5, <4>3 DEF Retired, Moves, Runs
      <4> QED
        BY <4>1, <4>2, <4>3
    <3> QED
      BY <2>2, <2>5, <3>1 DEF Moved, Retired
  <2> QED
    BY <1>1, <2>4, <2>5 DEF Prepare, AgentPrepare
<1>2. ASSUME NEW op \in Ops, Approve(op)
      PROVE  /\ runs' = [o \in Ops |-> runs'[o]]
             /\ \A o \in Ops : runs'[o] \in Runs
             /\ \A o \in Ops : Moves(runs[o], runs'[o]) \/ Newly(o)
             /\ \/ (\A o \in Ops : Moves(runs[o], runs'[o])) /\ UNCHANGED approvals
                \/ \E n \in Ops : Newly(n) /\ \A o \in Ops \ {n} : runs'[o] = runs[o]
  <2>1. CASE ~Unchanged(op)
    <3>1. Changes(op, Invalid(runs[op])) /\ UNCHANGED approvals
          /\ runs[op].state = "awaiting_confirmation"
      BY <1>2, <2>1 DEF Approve, Changes
    <3> QED
      BY <1>a, <1>s, <3>1, CodeMoves, OneMoves
  <2>2. CASE Unchanged(op)
    <3>1. /\ Changes(op, [runs[op] EXCEPT !.state = "approved", !.approval = approvals + 1])
          /\ approvals' = approvals + 1 /\ runs[op].state = "awaiting_confirmation"
      BY <1>2, <2>2 DEF Approve, Changes
    <3>2. Newly(op) /\ \A o \in Ops \ {op} : runs'[o] = runs[o]
      BY <3>1, OneChanges DEF Newly
    <3>3. approvals + 1 \in Nat /\ "approved" \in States
      BY StatesAre DEF Types
    <3>4. runs'[op] \in Runs
      <4>1. [runs[op] EXCEPT !.state = "approved", !.approval = approvals + 1] \in Runs
        BY <1>a, <3>3 DEF Runs
      <4> QED
        BY <3>2, <4>1 DEF Newly
    <3>5. \A o \in Ops \ {op} : Moves(runs[o], runs'[o])
      BY <1>a, <3>2 DEF Moves, Runs
    <3> QED
      BY <1>a, <3>1, <3>2, <3>4, <3>5, OneChanges
  <2> QED
    BY <2>1, <2>2
<1>3. ASSUME NEW op \in Ops, Reject(op) PROVE Moved /\ UNCHANGED approvals
  <2>1. Changes(op, [runs[op] EXCEPT !.state = "rejected"]) /\ UNCHANGED approvals
        /\ runs[op].state = "awaiting_confirmation"
    BY <1>3 DEF Reject, Changes
  <2> QED
    BY <1>n, <2>1, StatesAre DEF Terminal
<1>4. ASSUME NEW op \in Ops, Cancel(op) PROVE Moved /\ UNCHANGED approvals
  <2>1. Changes(op, Cancelled(runs[op])) /\ UNCHANGED approvals
    BY <1>4 DEF Cancel, Changes
  <2> QED
    BY <1>a, <2>1, CodeMoves, OneMoves
<1>5. ASSUME NEW op \in Ops, Forget(op) PROVE Moved /\ UNCHANGED approvals
  <2>1. /\ Changes(op, [NoRun EXCEPT !.state = "forgotten"]) /\ UNCHANGED approvals
        /\ runs[op].state \in Terminal
    BY <1>5 DEF Forget, Changes
  <2>2. Moves(runs[op], [NoRun EXCEPT !.state = "forgotten"])
    BY <2>1, StatesAre DEF Moves, NoRun, Runs, Terminal
  <2> QED
    BY <2>1, <2>2, OneMoves
<1>6. ASSUME Claim PROVE Moved /\ UNCHANGED approvals
  <2> DEFINE op == runner.op
  <2>1. op \in Ops /\ UNCHANGED approvals
    BY <1>6 DEF Claim, Starting, Owned, Claiming
  <2>2. runs[op].state = "approved" \/ UNCHANGED runs
    BY <1>6 DEF Claim, Claimable
  <2>3. \/ UNCHANGED runs \/ Changes(op, [runs[op] EXCEPT !.state = "starting"])
        \/ Changes(op, Invalid(runs[op])) \/ Changes(op, Awaiting(runs[op]))
    BY <1>6 DEF Claim, Changes
  <2>4. runs[op].state = "approved" => Moves(runs[op], [runs[op] EXCEPT !.state = "starting"])
    BY <1>a, <2>1, StateMoves, StatesAre DEF Terminal
  <2> HIDE DEF op
  <2> QED
    BY <1>a, <2>1, <2>2, <2>3, <2>4, CodeMoves, OneMoves, StaysMoved
<1>7. ASSUME Spawn PROVE Moved /\ UNCHANGED approvals
  <2> DEFINE op == runner.op
  <2>1. op \in Ops /\ UNCHANGED approvals /\ runs[op].state \in {"starting", "cancel_requested"}
    BY <1>7 DEF Spawn, Owned, Claiming
  <2>2. \/ UNCHANGED runs
        \/ Changes(op, [runs[op] EXCEPT !.state = Outcome(op, "failed")])
    BY <1>7 DEF Spawn, Changes
  <2>3. /\ Outcome(op, "failed") \in States \ {"approved", "starting"}
        /\ runs[op].state = "cancel_requested" => Outcome(op, "failed") = "cancelled"
    BY StatesAre DEF Outcome
  <2> HIDE DEF op
  <2>4. Moves(runs[op], [runs[op] EXCEPT !.state = Outcome(op, "failed")])
    BY <1>a, <2>1, <2>3, StateMoves DEF Terminal
  <2> QED
    BY <2>1, <2>2, <2>4, OneMoves, StaysMoved
<1>8. ASSUME Issue PROVE Moved /\ UNCHANGED approvals
  <2> DEFINE op == worker.op
  <2>1. op \in Ops /\ UNCHANGED approvals
    BY <1>8 DEF Issue, Working, Apart, Owned, Alive, At
  <2>2. \/ UNCHANGED runs
        \/ /\ runs[op].state = "starting"
           /\ \/ Changes(op, Awaiting(runs[op])) \/ Changes(op, Invalid(runs[op]))
              \/ Changes(op, [runs[op] EXCEPT !.state = "running"])
    BY <1>8 DEF Issue, Changes
  <2> HIDE DEF op
  <2>3. runs[op].state = "starting" => Moves(runs[op], [runs[op] EXCEPT !.state = "running"])
    BY <1>a, <2>1, StateMoves, StatesAre DEF Terminal
  <2> QED
    BY <1>a, <2>1, <2>2, <2>3, CodeMoves, OneMoves, StaysMoved
<1>9. ASSUME Finish PROVE Moved /\ UNCHANGED approvals
  <2> DEFINE op == worker.op
  <2>1. op \in Ops /\ UNCHANGED approvals /\ worker.outputs \in BOOLEAN
        /\ worker.result \in {"none"} \cup Terminal
    BY <1>9 DEF Finish, Apart, Owned, Alive, At, Types, Workers, Results
  <2>2. \/ UNCHANGED runs
        \/ /\ runs[op].state \in Active
           /\ \/ Changes(op, [runs[op] EXCEPT !.state = Outcome(op, worker.result),
                                              !.outputs = worker.outputs])
              \/ Changes(op, [runs[op] EXCEPT !.state = Outcome(op, "failed")])
    BY <1>9 DEF Finish, Changes, Mine
  <2>3. ASSUME NEW r \in {"none"} \cup Terminal
        PROVE  /\ Outcome(op, r) \in States \ {"approved", "starting"}
               /\ runs[op].state = "cancel_requested" => Outcome(op, r) = "cancelled"
    BY StatesAre DEF Outcome, Terminal
  <2> HIDE DEF op
  <2>4. "failed" \in Terminal
    BY DEF Terminal
  <2>5. runs[op].state \in Active =>
          /\ Moves(runs[op], [runs[op] EXCEPT !.state = Outcome(op, worker.result),
                                              !.outputs = worker.outputs])
          /\ Moves(runs[op], [runs[op] EXCEPT !.state = Outcome(op, "failed")])
    BY <1>a, <2>1, <2>3, <2>4, StateMoves DEF Active, Terminal
  <2> QED
    BY <2>1, <2>2, <2>5, OneMoves, StaysMoved
<1>10. ASSUME BeginClose PROVE Moved /\ UNCHANGED approvals
  <2>1. \/ UNCHANGED runs
        \/ worker.op \in Ops /\ Changes(worker.op, Cancelled(runs[worker.op]))
    BY <1>10 DEF BeginClose, Changes, Types, Workers
  <2> QED
    BY <1>a, <1>10, <2>1, CodeMoves, OneMoves, StaysMoved DEF BeginClose
<1>11. ASSUME Open PROVE Moved /\ UNCHANGED approvals
  BY <1>a, <1>11, CodeMoves DEF Open, Moved
<1>12. ASSUME UNCHANGED <<runs, approvals>> PROVE Moved /\ UNCHANGED approvals
  BY <1>12, StaysMoved
<1>13. ASSUME \/ Edit \/ \E op \in Ops : AgentAsk(op) \/ BeginStart(op)
              \/ Crash \/ Close \/ CleanupReview \/ RecoverCleanup
       PROVE  UNCHANGED <<runs, approvals>>
  BY <1>13 DEF Edit, AgentAsk, BeginStart, Starting, Crash, Close, CleanupReview, RecoverCleanup,
               Cleaned, store
<1>14. ASSUME \/ BeforeCreate \/ CreateProfile \/ RecordProfile \/ MakeFolder \/ RecordSources
              \/ CopySources \/ BindRuntime \/ NoteRuntimeGrants \/ GrantRuntime \/ NoteSourceGrants
              \/ GrantSources \/ ConfigureJob \/ CreateSuspended \/ PreparationFails \/ Resume
       PROVE  UNCHANGED <<runs, approvals>>
  BY <1>14 DEF BeforeCreate, CreateProfile, RecordProfile, MakeFolder, RecordSources, CopySources,
       BindRuntime, NoteRuntimeGrants, GrantRuntime, NoteSourceGrants, GrantSources,
       ConfigureJob, CreateSuspended, PreparationFails, Resume, Note, Make, Working, Apart
<1>15. ASSUME \/ EndProcess \/ Collect \/ RevokeGrants \/ RemoveSources \/ RemoveProfile
              \/ Complete \/ ReleaseUnstarted
       PROVE  UNCHANGED <<runs, approvals>>
  BY <1>15 DEF EndProcess, ProcessExits, LimitStops, CaptureStops, StopsWith, Collect,
       RevokeGrants, RemoveSources, RemoveProfile, Clean, Complete, ReleaseUnstarted, Working, Apart
<1> QED
  BY <1>s, <1>1, <1>2, <1>3, <1>4, <1>5, <1>6, <1>7, <1>8, <1>9, <1>10, <1>11, <1>12, <1>13,
     <1>14, <1>15
     DEF Next, StoreActions, StartActions, WorkerActions, PrepareActions, RunActions, HostActions

-----------------------------------------------------------------------------
(* The other variables. *)

LEMMA PointsAre ==
    /\ Preparing \cup Ending \cup
       {"none", "done", "broken", "issued", "running", "ending", "finishing"} \subseteq Points
    /\ {"none", "completed", "failed", "cancelled", "limited"} \subseteq Results
  BY DEF Points, Results, Terminal

\* The worker may go on, with a result or outputs.
LEMMA WorkerUpdates ==
    ASSUME Types, NEW pc \in Points
    PROVE  /\ [worker EXCEPT !.pc = pc] \in Workers
           /\ \A result \in Results : [worker EXCEPT !.pc = pc, !.result = result] \in Workers
           /\ \A outputs \in BOOLEAN : [worker EXCEPT !.pc = pc, !.outputs = outputs] \in Workers
           /\ \A op \in Ops \cup {None} : [NoWorker EXCEPT !.pc = pc, !.op = op] \in Workers
           /\ NoWorker \in Workers
  BY PointsAre DEF Types, Workers, NoWorker

LEMMA ReleasedTypes ==
    ASSUME Types
    PROVE  /\ Released \in Obligations \cup {None}
           /\ Released # None => Released = obligation
  BY DEF Types, Released

\* The host-side objects keep their types in a piece of work of the thread.
WorkTypes ==
    /\ source' \in Nat /\ open' \in BOOLEAN /\ lease' \in BOOLEAN
    /\ runner' \in [pc : {"free", "reserved", "claimed", "joining"}, op : Ops \cup {None}]
    /\ owner' \in Owners \cup {None}
    /\ worker' \in Workers
    /\ native' \subseteq Processes \cup Things
    /\ obligation' \in Obligations \cup {None}
    /\ executed' \in Seq(Executions)

LEMMA NoteTypes ==
    ASSUME Types, Owned, NEW from \in Preparing, NEW to \in Preparing,
           NEW phase \in {"creating", "created"}, NEW note \in SUBSET Things,
           Note(from, to, phase, note)
    PROVE  WorkTypes
<1>1. obligation \in Obligations
  <2>1. Alive /\ worker.pc \notin {"ending", "finishing"}
    BY DEF Note, At, Alive, Preparing
  <2> QED
    BY <2>1 DEF Types, Owned
<1>2. [obligation EXCEPT !.phase = phase, !.noted = @ \cup note] \in Obligations
  BY <1>1 DEF Obligations
<1>3. worker' \in Workers
  BY WorkerUpdates, PointsAre DEF Note, Go
<1> QED
  BY <1>2, <1>3 DEF Note, Working, Apart, WorkTypes, Types

LEMMA MakeTypes ==
    ASSUME Types, NEW from, NEW to \in Preparing,
           NEW things \in SUBSET (Processes \cup Things), Make(from, to, things)
    PROVE  WorkTypes
<1>1. worker' \in Workers
  BY WorkerUpdates, PointsAre DEF Make, Go
<1> QED
  BY <1>1 DEF Make, Working, Apart, WorkTypes, Types, cleanup

LEMMA RefusedTypes ==
    ASSUME Types, NEW result \in Results, Refused(result) \/ Unwound(result)
    PROVE  /\ worker' \in Workers /\ native' \subseteq native
           /\ native' \cap Processes = {}
           /\ worker'.pc = "ending" /\ worker'.op = worker.op
           /\ UNCHANGED <<owner, obligation, lease, executed>>
<1>1. worker' = [worker EXCEPT !.pc = "ending", !.result = result]
  BY DEF Refused, Unwound, UnwoundBadly
<1>2. worker' \in Workers
  BY <1>1, WorkerUpdates, PointsAre
<1> QED
  BY <1>1, <1>2 DEF Refused, Unwound, UnwoundBadly, cleanup, Types, Workers

LEMMA CleanTypes ==
    ASSUME Types, NEW from, NEW to \in Ending, NEW things, Clean(from, to, things)
    PROVE  /\ WorkTypes /\ worker'.pc = to /\ worker.pc = from /\ worker'.op = worker.op
           /\ native' \subseteq native
           /\ UNCHANGED <<runs, open, runner, owner, obligation, lease, approvals, executed>>
<1>1. \/ worker' = [worker EXCEPT !.pc = to]
      \/ worker' = [worker EXCEPT !.pc = to, !.result = "failed"]
  BY DEF Clean, Go
<1>2. worker' \in Workers
  <2>1. to \in Points /\ "failed" \in Results
    BY PointsAre
  <2>2. /\ [worker EXCEPT !.pc = to] \in Workers
        /\ [worker EXCEPT !.pc = to, !.result = "failed"] \in Workers
    BY <2>1 DEF Types, Workers
  <2> QED
    BY <1>1, <2>2
<1>3. worker'.pc = to /\ worker'.op = worker.op
  BY <1>1 DEF Types, Workers
<1> QED
  BY <1>2, <1>3 DEF Clean, At, Working, Apart, WorkTypes, Types, cleanup

\* The steps of the thread until its process runs.
LEMMA PrepareTypes ==
    ASSUME Types, Owned, PrepareActions
    PROVE  WorkTypes
<1>p. /\ {"copies"} \in SUBSET Things /\ {"runtime"} \in SUBSET Things /\ {} \in SUBSET Things
      /\ {"runtime_grants"} \in SUBSET Things /\ {"source_grants"} \in SUBSET Things
      /\ {"job"} \in SUBSET Things /\ {"profile"} \in SUBSET Things
      /\ {"suspended"} \in SUBSET Processes
  BY DEF Things, Processes
<1>q. {"preflight", "creating", "profile", "created", "folder", "noted_sources", "sources",
       "runtime", "noted_runtime", "granted_runtime", "noted_grants", "granted", "job", "suspended"}
      = Preparing
  BY DEF Preparing
<1>1. CASE BeforeCreate \/ RecordProfile
  BY <1>1, <1>p, <1>q, NoteTypes DEF BeforeCreate, RecordProfile
<1>2. CASE MakeFolder \/ RecordSources
  <2>1. worker' \in Workers
    BY <1>2, WorkerUpdates, PointsAre DEF MakeFolder, RecordSources, Go, Preparing
  <2>2. obligation' \in Obligations \cup {None} /\ native' \subseteq Processes \cup Things
    <3>1. CASE MakeFolder
      BY <3>1 DEF MakeFolder, cleanup, Types
    <3>2. CASE RecordSources
      <4>1. obligation \in Obligations
        BY <3>2 DEF RecordSources, At, Alive, Types, Owned
      <4> QED
        BY <3>2, <4>1, <1>p DEF RecordSources, Types, Obligations
    <3> QED
      BY <1>2, <3>1, <3>2
  <2> QED
    BY <1>2, <2>1, <2>2 DEF MakeFolder, RecordSources, Apart, WorkTypes, Types, cleanup
<1>9. CASE BindRuntime
  <2>1. Note("sources", "runtime", "created", {"runtime"})
    BY <1>9 DEF BindRuntime
  <2>2. "sources" \in Preparing /\ "runtime" \in Preparing /\ {"runtime"} \in SUBSET Things
    BY DEF Preparing, Things
  <2> QED
    BY <2>1, <2>2, NoteTypes
<1>7. CASE NoteRuntimeGrants
  BY <1>7, <1>p, <1>q, NoteTypes DEF NoteRuntimeGrants
<1>10. CASE NoteSourceGrants
  BY <1>10, <1>p, <1>q, NoteTypes DEF NoteSourceGrants
<1>8. CASE ConfigureJob
  BY <1>8, <1>p, <1>q, NoteTypes DEF ConfigureJob
<1>3. CASE CreateProfile \/ CopySources \/ GrantRuntime \/ GrantSources \/ CreateSuspended
  BY <1>3, <1>p, <1>q, MakeTypes DEF CreateProfile, CopySources, GrantRuntime, GrantSources,
                                     CreateSuspended
<1>4. CASE PreparationFails
  <2>1. worker' \in Workers
    BY <1>4, WorkerUpdates, PointsAre DEF PreparationFails
  <2> QED
    BY <1>4, <2>1 DEF PreparationFails, Working, Apart, WorkTypes, Types, cleanup
<1>5. CASE Issue
  <2>1. \/ Refused("cancelled") \/ Refused("failed") \/ Unwound("failed")
        \/ Go("issued") /\ UNCHANGED <<owner, native, cleanup, executed>>
    BY <1>5 DEF Issue
  <2>2. CASE Refused("cancelled") \/ Refused("failed") \/ Unwound("failed")
    BY <1>5, <2>2, RefusedTypes, PointsAre DEF Issue, Working, Apart, WorkTypes, Types
  <2>3. CASE Go("issued") /\ UNCHANGED <<owner, native, cleanup, executed>>
    <3>1. worker' \in Workers
      BY <2>3, WorkerUpdates, PointsAre DEF Go
    <3> QED
      BY <1>5, <2>3, <3>1 DEF Issue, Working, Apart, WorkTypes, Types, cleanup
  <2> QED
    BY <2>1, <2>2, <2>3
<1>6. CASE Resume
  <2>1. CASE Stopped
    BY <1>6, <2>1, RefusedTypes, PointsAre DEF Resume, Working, Apart, WorkTypes, Types
  <2>2. CASE ~Stopped
    <3>1. worker' \in Workers
      BY <1>6, <2>2, WorkerUpdates, PointsAre DEF Resume, Go
    <3>2. owner \in Owners /\ worker.op \in Ops
      BY <1>6 DEF Resume, At, Owned, Alive, Types
    <3>3. [approval |-> owner.approval, print |-> runs[worker.op].print] \in Executions
      BY <3>2 DEF Types, Owners, Runs, Executions
    <3>4. executed' \in Seq(Executions)
      BY <1>6, <2>2, <3>3 DEF Resume, Types
    <3>5. native' \subseteq Processes \cup Things
      BY <1>6, <2>2 DEF Resume, Types, Processes
    <3> QED
      BY <1>6, <2>2, <3>1, <3>4, <3>5 DEF Resume, Working, Apart, WorkTypes, Types, cleanup
  <2> QED
    BY <2>1, <2>2
<1> QED
  BY <1>1, <1>2, <1>3, <1>4, <1>5, <1>6, <1>7, <1>8, <1>9, <1>10 DEF PrepareActions

\* The steps of the thread from the end of its process on.
LEMMA RunTypes ==
    ASSUME Types, Owned, RunActions
    PROVE  WorkTypes
<1>1. CASE EndProcess
  <2>1. PICK result \in Results :
           worker' = [worker EXCEPT !.pc = "stopped", !.result = Reported(result)]
    BY <1>1, PointsAre DEF EndProcess, ProcessExits, LimitStops, CaptureStops, StopsWith
  <2>2. Reported(result) \in Results /\ "stopped" \in Points
    BY PointsAre DEF Reported, Ending
  <2>3. worker' \in Workers
    BY <2>1, <2>2 DEF Types, Workers
  <2> QED
    BY <1>1, <2>3 DEF EndProcess, ProcessExits, LimitStops, CaptureStops, StopsWith, Working, Apart,
                      WorkTypes, Types, cleanup
<1>2. CASE Collect
  <2>1. worker' \in Workers
    BY <1>2, PointsAre DEF Collect, Types, Workers, Ending
  <2> QED
    BY <1>2, <2>1 DEF Collect, Working, Apart, WorkTypes, Types, cleanup
<1>3. CASE RevokeGrants \/ RemoveSources \/ RemoveProfile
  BY <1>3, CleanTypes DEF RevokeGrants, RemoveSources, RemoveProfile, Ending
<1>4. CASE Complete
  <2>1. worker' \in Workers
    BY <1>4, WorkerUpdates, PointsAre DEF Complete, Go
  <2> QED
    BY <1>4, <2>1 DEF Complete, Working, Apart, WorkTypes, Types, cleanup
<1>5. CASE ReleaseUnstarted
  <2>1. worker' \in Workers
    BY <1>5, PointsAre DEF ReleaseUnstarted, Go, Types, Workers
  <2> QED
    BY <1>5, <2>1, ReleasedTypes DEF ReleaseUnstarted, Releases, cleanup, Working, Apart, WorkTypes, Types
<1>6. CASE Finish
  <2>1. worker' \in Workers
    BY <1>6, PointsAre DEF Finish, Ended, NoWorker, Types, Workers
  <2> QED
    BY <1>6, <2>1 DEF Finish, Apart, WorkTypes, Types
<1> QED
  BY <1>1, <1>2, <1>3, <1>4, <1>5, <1>6 DEF RunActions

\* The commands of the user, the start and the host.
LEMMA CommandTypes ==
    ASSUME Types, Owned, StoreActions \/ StartActions \/ HostActions
    PROVE  WorkTypes
<1>1. CASE StoreActions
  <2>1. CASE Edit
    BY <2>1 DEF Edit, WorkTypes, Types, cleanup
  <2>2. ASSUME NEW op \in Ops, Prepare(op) \/ AgentPrepare(op) \/ Approve(op) \/ Reject(op)
                                 \/ Forget(op) \/ Cancel(op)
        PROVE  WorkTypes
    <3>1. owner' \in {owner, [owner EXCEPT !.cancelled = TRUE]}
          /\ (owner' # owner => owner # None)
      BY <2>2 DEF Prepare, AgentPrepare, Approve, Reject, Forget, Cancel, Signalled, Holds
    <3>2. owner' \in Owners \cup {None}
      BY <3>1 DEF Types, Owners
    <3>3. Recorded
      BY <2>2 DEF Prepare, AgentPrepare, Approve, Reject, Forget, Cancel
    <3> QED
      BY <3>2, <3>3 DEF Recorded, WorkTypes, Types, cleanup
  <2> QED
    BY <1>1, <2>1, <2>2 DEF StoreActions
<1>2. ASSUME NEW op \in Ops, AgentAsk(op) PROVE WorkTypes
  BY <1>2 DEF AgentAsk, Starting, WorkTypes, Types, cleanup
<1>3. ASSUME NEW op \in Ops, BeginStart(op) PROVE WorkTypes
  <2>1. NewObligation(op) \in Obligations
    BY DEF NewObligation, Obligations
  <2>2. obligation' \in {obligation, NewObligation(op)} /\ lease' \in {lease, TRUE}
        /\ runner' \in {runner, [pc |-> "reserved", op |-> op]}
    BY <1>3 DEF BeginStart, cleanup
  <2>3. runner' \in [pc : {"free", "reserved", "claimed", "joining"}, op : Ops \cup {None}]
    BY <2>2 DEF Types
  <2>4. worker' \in Workers
    BY <1>3, PointsAre DEF BeginStart, NoWorker, Workers
  <2> QED
    BY <1>3, <2>1, <2>2, <2>3, <2>4 DEF BeginStart, Starting, WorkTypes, Types
<1>4. CASE Claim
  <2>1. runner.op \in Ops
    BY <1>4 DEF Claim, Owned, Claiming
  <2>2. NewOwner(runner.op) \in Owners
    BY <2>1 DEF NewOwner, Owners, Types, Runs
  <2>3. owner' \in {owner, NewOwner(runner.op)} /\ obligation' \in {obligation, Released}
    BY <1>4 DEF Claim, MayRelease, cleanup
  <2>4. runner' \in {Idle, [runner EXCEPT !.pc = "claimed"]} /\ lease' \in {lease, FALSE}
    BY <1>4 DEF Claim, MayRelease, cleanup
  <2>5. runner' \in [pc : {"free", "reserved", "claimed", "joining"}, op : Ops \cup {None}]
    BY <2>4 DEF Types, Idle
  <2>6. lease' \in BOOLEAN /\ obligation' \in Obligations \cup {None}
        /\ owner' \in Owners \cup {None}
    BY <2>2, <2>3, <2>4, ReleasedTypes DEF Types
  <2> QED
    BY <1>4, <2>5, <2>6 DEF Claim, Starting, WorkTypes, Types
<1>5. CASE Spawn
  <2>1. worker' \in {[NoWorker EXCEPT !.pc = "preflight", !.op = runner.op], NoWorker}
        /\ obligation' \in {obligation, Released} /\ lease' \in {lease, FALSE}
        /\ owner' \in {owner, None}
    BY <1>5 DEF Spawn, MayRelease, cleanup
  <2>2. runner.op \in Ops \cup {None} /\ {"none", "preflight"} \subseteq Points
    BY PointsAre DEF Preparing, Types
  <2>a. NoWorker \in Workers
    BY PointsAre DEF NoWorker, Workers
  <2>b. [NoWorker EXCEPT !.pc = "preflight", !.op = runner.op] \in Workers
    BY <2>2, <2>a DEF Workers
  <2>3. worker' \in Workers
    BY <2>1, <2>a, <2>b
  <2>4. lease' \in BOOLEAN /\ obligation' \in Obligations \cup {None}
        /\ owner' \in Owners \cup {None}
    BY <2>1, ReleasedTypes DEF Types
  <2> QED
    BY <1>5, <2>3, <2>4 DEF Spawn, WorkTypes, Types, Idle
<1>6. CASE BeginClose
  <2>1. owner' \in Owners \cup {None}
    <3>1. Alive => owner \in Owners
      BY DEF Owned, Types
    <3> QED
      BY <1>6, <3>1 DEF BeginClose, Types, Owners
  <2> QED
    BY <1>6, <2>1 DEF BeginClose, WorkTypes, Types, cleanup, Workers
<1>w. NoWorker \in Workers
  BY PointsAre DEF NoWorker, Workers
<1>i. Idle \in [pc : {"free", "reserved", "claimed", "joining"}, op : Ops \cup {None}]
  BY DEF Idle
<1>7. CASE Close \/ Open
  <2>1. CASE Close
    BY <2>1, <1>w, <1>i DEF Close, WorkTypes, Types, cleanup
  <2>2. CASE Open
    BY <2>2 DEF Open, WorkTypes, Types, cleanup
  <2> QED
    BY <1>7, <2>1, <2>2
<1>8. CASE Crash
  BY <1>8, <1>w DEF Crash, WorkTypes, Types, Idle
<1>9. CASE CleanupReview \/ RecoverCleanup
  BY <1>9 DEF CleanupReview, RecoverCleanup, Cleaned, WorkTypes, Types
<1> QED
  BY <1>1, <1>2, <1>3, <1>4, <1>5, <1>6, <1>7, <1>8, <1>9 DEF StartActions, HostActions

LEMMA TypesStep ==
    ASSUME Types, Owned, [Next]_vars
    PROVE  Types'
<1>1. CASE Next
  <2>1. WorkTypes
    BY <1>1, PrepareTypes, RunTypes, CommandTypes DEF Next, WorkerActions
  <2>2. runs' \in [Ops -> Runs]
    BY <1>1, RecordsMove
  <2>3. approvals' \in Nat
    <3>1. UNCHANGED approvals \/ \E op \in Ops : Newly(op)
      BY <1>1, RecordsMove
    <3>2. ASSUME NEW op \in Ops, Newly(op) PROVE approvals' = approvals + 1
      BY <3>2 DEF Newly
    <3> QED
      BY <3>1, <3>2 DEF Types
  <2> QED
    BY <2>1, <2>2, <2>3 DEF WorkTypes, Types
<1>2. CASE UNCHANGED vars
  BY <1>2 DEF vars, Types, store, cleanup
<1> QED
  BY <1>1, <1>2

-----------------------------------------------------------------------------
(* The kinds of steps, as far as the invariant tells them apart. *)

\* A record in use is at most told to stop; the owner is at most signalled.
Kept(op) == /\ runs'[op].approval = runs[op].approval
            /\ runs'[op].state \in {runs[op].state, "cancel_requested"}
OwnerKept == /\ owner' # None <=> owner # None
             /\ owner # None => owner'.op = owner.op /\ owner'.approval = owner.approval

\* The user, the agent, the review of what is left, and the start of a close.
KeepStep ==
    /\ UNCHANGED <<open, worker, native, obligation, lease, executed>> /\ OwnerKept
    /\ \A op \in Ops : runs[op].state \in Active => Kept(op)
    /\ runner' = runner \/ (~Claiming /\ ~Claiming')

\* A row of the journal goes when nothing is left that it could name.
OwedStays == obligation' = obligation \/ (obligation' = None /\ native' = {})

BeginStep ==
    /\ ~Alive /\ open /\ runner.pc = "free" /\ obligation = None
    /\ runner'.pc = "reserved" /\ runner'.op \in Ops /\ lease'
    /\ obligation' # None /\ obligation'.phase = "reserved"
    /\ ~Alive' /\ UNCHANGED <<runs, open, owner, native, executed>>
ClaimStep ==
    /\ runner.pc = "reserved" /\ runner' = [runner EXCEPT !.pc = "claimed"]
    /\ runs[runner.op].state = "approved" /\ runs'[runner.op].state = "starting"
    /\ owner' = NewOwner(runner.op)
    /\ UNCHANGED <<open, worker, native, obligation, lease, executed>>
SpawnStep ==
    /\ runner.pc = "claimed" /\ runner'.pc = "free"
    /\ worker'.pc = "preflight" /\ worker'.op = runner.op
    /\ UNCHANGED <<runs, open, owner, native, obligation, lease, executed>>

\* The worker prepares: it notes what comes, it makes what is noted.
Prepares == /\ worker.pc \in Preparing /\ worker'.op = worker.op
            /\ UNCHANGED <<open, runner, owner, lease, executed>>
NoteStep ==
    /\ Prepares /\ worker.pc # "suspended" /\ worker'.pc \in Preparing \ {"suspended"}
    /\ UNCHANGED runs /\ native' \subseteq native \cup ({"copies"} \cap obligation'.noted)
    /\ obligation # None /\ obligation' # None
    /\ obligation.noted \subseteq obligation'.noted /\ NotedBefore'
    /\ obligation'.phase # "reserved"
MakeStep ==
    /\ Prepares /\ worker.pc # "preflight"
    /\ worker'.pc \in Preparing \ {"noted_runtime", "noted_grants", "job"}
    /\ UNCHANGED <<runs, obligation>>
    /\ native' \ native \subseteq obligation.noted \cup {"profile", "suspended"}
    /\ "running" \in native' => "running" \in native
    /\ "suspended" \in native' => worker'.pc = "suspended"
    /\ worker'.pc = "suspended" => worker.pc = "job"
IssueStep ==
    /\ Prepares /\ worker.pc = "suspended" /\ worker'.pc = "issued"
    /\ runs[worker.op].approval = owner.approval
    /\ runs'[worker.op] = [runs[worker.op] EXCEPT !.state = "running"]
    /\ UNCHANGED <<native, obligation>>
ResumeStep ==
    /\ worker.pc = "issued" /\ worker'.pc = "running" /\ worker'.op = worker.op
    /\ native' = (native \ {"suspended"}) \cup {"running"}
    /\ executed' = Append(executed, [approval |-> owner.approval,
                                    print |-> runs[worker.op].print])
    /\ UNCHANGED <<runs, open, runner, owner, obligation, lease>>

\* The worker ends: no process is left, and the record is no longer relied on.
WindStep ==
    /\ Alive /\ worker'.pc \in Ending \cup {"ending", "finishing"} /\ worker'.op = worker.op
    /\ UNCHANGED <<open, runner, owner, executed>>
    /\ native' \subseteq native \ Processes /\ OwedStays
    /\ worker'.pc \in Ending =>
          worker.pc \notin {"ending", "finishing"} /\ UNCHANGED <<obligation, lease>>

\* Nobody claims or works any more.
DownStep ==
    /\ ~Claiming' /\ ~Alive' /\ owner' = None
    /\ native' \subseteq native \ Processes /\ OwedStays /\ UNCHANGED executed

RecoverStep ==
    /\ ~lease /\ UNCHANGED <<runs, open, runner, owner, worker, lease, executed>>
    /\ native' \subseteq native /\ OwedStays

Steps == \/ KeepStep \/ BeginStep \/ ClaimStep \/ SpawnStep \/ NoteStep \/ MakeStep \/ IssueStep
         \/ ResumeStep \/ WindStep \/ DownStep \/ RecoverStep

LEMMA StoreSteps ==
    ASSUME Types, Owned, StoreActions
    PROVE  KeepStep
<1>a. \A op \in Ops : runs[op] \in Runs
  BY DEF Types
<1>1. CASE Edit
  BY <1>1 DEF Edit, KeepStep, OwnerKept, Kept, store, cleanup
<1>2. ASSUME NEW op \in Ops, Prepare(op) \/ AgentPrepare(op) \/ Approve(op) \/ Reject(op)
                               \/ Forget(op)
      PROVE  KeepStep
  <2>1. Recorded /\ UNCHANGED owner
    BY <1>2 DEF Prepare, AgentPrepare, Approve, Reject, Forget
  <2>2. ASSUME NEW o \in Ops, runs[o].state \in Active PROVE runs'[o] = runs[o]
    <3>1. CASE Prepare(op) \/ AgentPrepare(op)
      <4>1. runs[op] = NoRun
            /\ (runs' = runs \/ runs' = [runs EXCEPT ![op] = Proposal] \/ runs' = Retired(op))
        BY <3>1 DEF Prepare, AgentPrepare
      <4>2. o # op
        BY <2>2, <4>1 DEF NoRun, Active
      <4> QED
        BY <2>2, <4>1, <4>2 DEF Retired, Types, Active
    <3>2. CASE Approve(op) \/ Reject(op) \/ Forget(op)
      <4>1. runs[op].state \notin Active
        BY <3>2 DEF Approve, Reject, Forget, Active, Terminal
      <4>2. \E s : runs' = [runs EXCEPT ![op] = s]
        BY <3>2 DEF Approve, Reject, Forget
      <4> QED
        BY <2>2, <4>1, <4>2 DEF Types
    <3> QED
      BY <1>2, <3>1, <3>2
  <2> QED
    BY <2>1, <2>2 DEF Recorded, KeepStep, OwnerKept, Kept, cleanup
<1>3. ASSUME NEW op \in Ops, Cancel(op) PROVE KeepStep
  <2>1. Recorded /\ Changes(op, Cancelled(runs[op])) /\ owner' = Signalled(op)
    BY <1>3 DEF Cancel, Changes
  <2>2. OwnerKept
    <3>1. CASE owner = None
      BY <2>1, <3>1 DEF OwnerKept, Signalled, Holds
    <3>2. CASE owner # None
      <4>1. owner \in Owners /\ [owner EXCEPT !.cancelled = TRUE] \in Owners
        BY <3>2 DEF Types, Owners
      <4>2. [owner EXCEPT !.cancelled = TRUE].op = owner.op
            /\ [owner EXCEPT !.cancelled = TRUE].approval = owner.approval
        BY <4>1 DEF Owners
      <4> QED
        BY <2>1, <3>2, <4>1, <4>2, NoneIsAbsent DEF OwnerKept, Signalled
    <3> QED
      BY <3>1, <3>2
  <2>3. ASSUME NEW o \in Ops, runs[o].state \in Active PROVE Kept(o)
    <3>1. CASE o # op
      BY <2>1, <3>1, OneChanges DEF Kept
    <3>2. CASE o = op
      <4>1. runs'[o] = Cancelled(runs[o])
        BY <2>1, <3>2, OneChanges
      <4> QED
        BY <1>a, <2>3, <4>1 DEF Kept, Cancelled, Active, Runs
    <3> QED
      BY <3>1, <3>2
  <2> QED
    BY <2>1, <2>2, <2>3 DEF Recorded, KeepStep, cleanup
<1> QED
  BY <1>1, <1>2, <1>3 DEF StoreActions

LEMMA NothingElse ==
    ASSUME UNCHANGED <<runs, open, owner, worker, native, obligation, lease, executed>>,
           runner' = runner \/ (~Claiming /\ ~Claiming')
    PROVE  KeepStep
  BY DEF KeepStep, OwnerKept, Kept

LEMMA ReleasedOwes ==
    ASSUME Owed, obligation' \in {obligation, Released}, native' \subseteq native
    PROVE  OwedStays
  BY DEF Owed, Released, OwedStays

LEMMA StartSteps ==
    ASSUME Types, Owned, Executing, Owed, StartActions
    PROVE  KeepStep \/ BeginStep \/ ClaimStep \/ SpawnStep \/ DownStep
<1>n. ~Alive => native \cap Processes = {}
  BY DEF Executing, Alive, Processes
<1>1. ASSUME NEW op \in Ops, AgentAsk(op) PROVE KeepStep
  BY <1>1, NothingElse DEF AgentAsk, Starting, cleanup
<1>2. ASSUME NEW op \in Ops, BeginStart(op) PROVE BeginStep \/ DownStep
  <2>0. ~Alive /\ ~Alive' /\ ~Claiming /\ owner = None
    BY <1>2 DEF BeginStart, NoWorker, Alive, Owned, Claiming, RunnerFree
  <2>1. CASE GateOpen
    <3>1. NewObligation(op) \in Obligations /\ NewObligation(op).phase = "reserved"
      BY DEF NewObligation, Obligations
    <3>2. NewObligation(op) # None
      BY <3>1, NoneIsAbsent
    <3> QED
      BY <1>2, <2>0, <2>1, <3>1, <3>2 DEF BeginStart, BeginStep, GateOpen, Starting, RunnerFree,
                                    WorkspaceFree
  <2>2. CASE ~GateOpen
    BY <1>2, <1>n, <2>0, <2>2 DEF BeginStart, Starting, cleanup, DownStep, OwedStays, Claiming
  <2> QED
    BY <2>1, <2>2
<1>3. ASSUME Claim PROVE ClaimStep \/ DownStep
  <2>1. runner.pc = "reserved" /\ runner.op \in Ops /\ ~Alive /\ owner = None
    BY <1>3 DEF Claim, Owned, Claiming
  <2>2. CASE /\ Claimable(runner.op) /\ owner' = NewOwner(runner.op)
             /\ runs' = [runs EXCEPT ![runner.op].state = "starting"]
             /\ runner' = [runner EXCEPT !.pc = "claimed"] /\ UNCHANGED cleanup
    <3>1. runs'[runner.op].state = "starting"
      BY <2>1, <2>2 DEF Types, Runs
    <3> QED
      BY <1>3, <2>1, <2>2, <3>1 DEF Claim, ClaimStep, Claimable, Starting, cleanup
  <2>3. CASE MayRelease /\ runner' = Idle /\ UNCHANGED owner
    <3>1. OwedStays
      BY <1>3, <2>3, ReleasedOwes DEF Claim, MayRelease, Starting
    <3> QED
      BY <1>3, <1>n, <2>1, <2>3, <3>1 DEF Claim, Starting, DownStep, Alive, Claiming, Idle
  <2> QED
    BY <1>3, <2>2, <2>3 DEF Claim
<1>4. ASSUME Spawn PROVE SpawnStep \/ DownStep
  <2>1. runner.pc = "claimed" /\ ~Alive /\ runner' = Idle
    BY <1>4 DEF Spawn, Owned, Claiming
  <2>2. CASE worker' = [NoWorker EXCEPT !.pc = "preflight", !.op = runner.op]
             /\ UNCHANGED <<runs, owner, cleanup>>
    <3>1. worker'.pc = "preflight" /\ worker'.op = runner.op
      BY <2>2 DEF NoWorker
    <3> QED
      BY <1>4, <2>1, <2>2, <3>1 DEF Spawn, SpawnStep, Idle, cleanup
  <2>3. CASE MayRelease /\ owner' = None /\ worker' = NoWorker
    <3>1. OwedStays
      BY <1>4, <2>3, ReleasedOwes DEF Spawn, MayRelease
    <3> QED
      BY <1>4, <1>n, <2>1, <2>3, <3>1 DEF Spawn, DownStep, Alive, Claiming, Idle, NoWorker
  <2> QED
    BY <1>4, <2>2, <2>3 DEF Spawn
<1> QED
  BY <1>1, <1>2, <1>3, <1>4 DEF StartActions

LEMMA HostSteps ==
    ASSUME Types, Owned, Executing, Owed, HostActions
    PROVE  KeepStep \/ DownStep \/ RecoverStep
<1>n. ~Alive => native \cap Processes = {}
  BY DEF Executing, Alive, Processes
<1>d. ASSUME ~Claiming', ~Alive', owner' = None, native' \subseteq native \ Processes,
             UNCHANGED <<obligation, executed>>
      PROVE  DownStep
  BY <1>d DEF DownStep, OwedStays
<1>1. ASSUME BeginClose PROVE KeepStep
  <2>1. runner' = [pc |-> "joining", op |-> worker.op] /\ runner.pc = "free"
    BY <1>1 DEF BeginClose, RunnerFree
  <2>2. ASSUME NEW op \in Ops, runs[op].state \in Active PROVE Kept(op)
    <3>1. CASE worker.op = op
      <4>1. runs'[op] \in {runs[op], Cancelled(runs[op])}
        BY <1>1, <3>1 DEF BeginClose, Types
      <4> QED
        BY <2>2, <4>1 DEF Types, Kept, Cancelled, Active, Runs
    <3>2. CASE worker.op # op
      BY <1>1, <3>2 DEF BeginClose, Types, Workers, Kept
    <3> QED
      BY <3>1, <3>2
  <2>3. OwnerKept
    <3>1. CASE Alive
      <4>1. owner \in Owners /\ [owner EXCEPT !.cancelled = TRUE] \in Owners
            /\ owner' = [owner EXCEPT !.cancelled = TRUE]
        BY <1>1, <3>1 DEF BeginClose, Types, Owned, Owners
      <4>2. [owner EXCEPT !.cancelled = TRUE].op = owner.op
            /\ [owner EXCEPT !.cancelled = TRUE].approval = owner.approval
        BY <4>1 DEF Owners
      <4> QED
        BY <4>1, <4>2, NoneIsAbsent DEF OwnerKept
    <3>2. CASE ~Alive
      BY <1>1, <3>2 DEF BeginClose, OwnerKept
    <3> QED
      BY <3>1, <3>2
  <2> QED
    BY <1>1, <2>1, <2>2, <2>3 DEF BeginClose, KeepStep, Claiming, cleanup
<1>2. ASSUME Close PROVE DownStep
  <2>1. ~Alive /\ owner = None
    BY <1>2 DEF Close, Owned
  <2> QED
    BY <1>2, <1>n, <1>d, <2>1 DEF Close, Claiming, Alive, Idle, NoWorker, cleanup
<1>3. ASSUME Open PROVE DownStep
  <2>1. ~Alive /\ owner = None /\ ~Claiming
    BY <1>3 DEF Open, Owned, Claiming, RunnerFree
  <2> QED
    BY <1>3, <1>n, <1>d, <2>1 DEF Open, Claiming, Alive, cleanup
<1>4. ASSUME Crash PROVE DownStep
  BY <1>4, <1>d DEF Crash, Claiming, Alive, Idle, NoWorker
<1>5. ASSUME CleanupReview PROVE KeepStep
  BY <1>5, NothingElse DEF CleanupReview, Cleaned, store
<1>6. ASSUME RecoverCleanup PROVE RecoverStep
  <2>1. ~lease /\ obligation # None /\ obligation.phase # "creating"
        /\ UNCHANGED <<runs, open, runner, owner, worker, lease, executed>>
    BY <1>6 DEF RecoverCleanup, Verifiable, Cleaned, store
  <2>2. CASE obligation' = None /\ native' = native \ Named
    <3>1. native \cap Processes = {}
      BY <2>1 DEF Owned, Executing, Alive, Processes
    <3>2. native \subseteq Named
      BY <2>1, <3>1 DEF Owed, Types, Obligations, Named
    <3> QED
      BY <2>1, <2>2, <3>2 DEF RecoverStep, OwedStays
  <2>3. CASE UNCHANGED obligation /\ native' \subseteq native
    BY <2>1, <2>3 DEF RecoverStep, OwedStays
  <2> QED
    BY <1>6, <2>2, <2>3 DEF RecoverCleanup, Cleaned
<1> QED
  BY <1>1, <1>2, <1>3, <1>4, <1>5, <1>6 DEF HostActions

\* An entry of the journal by a worker that prepares
LEMMA Noted ==
    ASSUME Types, Owned, NEW from \in Preparing \ {"suspended"},
           NEW to \in Preparing \ {"suspended"},
           NEW phase \in {"creating", "created"}, NEW note \in SUBSET Things,
           Note(from, to, phase, note),
           to = "noted_runtime" => "runtime_grants" \in note,
           to = "noted_grants" => "source_grants" \in note,
           to = "job" => "job" \in note
    PROVE  NoteStep
<1>1. worker.pc = from /\ worker' = [worker EXCEPT !.pc = to] /\ worker.pc \in Preparing
  BY DEF Note, At, Go
<1>2. worker'.pc = to /\ worker'.op = worker.op
  BY <1>1 DEF Types, Workers
<1>3. Alive /\ worker.pc \notin {"ending", "finishing"}
  BY <1>1 DEF Alive, Preparing
<1>4. obligation \in Obligations
  BY <1>3 DEF Types, Owned
<1>5. obligation' = [obligation EXCEPT !.phase = phase, !.noted = @ \cup note]
  BY DEF Note
<1>6. obligation'.phase = phase /\ obligation'.noted = obligation.noted \cup note
  BY <1>4, <1>5 DEF Obligations
<1>7. obligation' \in Obligations
  BY <1>4, <1>5 DEF Obligations
<1>8. obligation # None /\ obligation' # None
  BY <1>4, <1>7, NoneIsAbsent
<1>9. NotedBefore'
  BY <1>2, <1>6 DEF NotedBefore, Preparing
<1>10. UNCHANGED <<runs, native, open, runner, owner, lease, executed>>
  BY DEF Note, Working, Apart
<1> QED
  BY <1>1, <1>2, <1>6, <1>8, <1>9, <1>10 DEF NoteStep, Prepares

LEMMA Made ==
    ASSUME Types, Executing, NEW from \in Preparing \ {"preflight"},
           NEW to \in Preparing \ {"noted_runtime", "noted_grants", "job"},
           NEW things, Make(from, to, things),
           things \subseteq obligation.noted \cup {"profile", "suspended"},
           "running" \notin things, to = "suspended" => from = "job",
           "suspended" \in things => to = "suspended"
    PROVE  MakeStep
<1>1. worker.pc = from /\ worker' = [worker EXCEPT !.pc = to]
  BY DEF Make, At, Go
<1>2. worker'.pc = to /\ worker'.op = worker.op
  BY <1>1 DEF Types, Workers
<1>3. native' = (native \ {"suspended"}) \cup things
      /\ UNCHANGED <<runs, open, runner, owner, obligation, lease, executed>>
  BY DEF Make, Working, Apart, cleanup
<1> QED
  BY <1>1, <1>2, <1>3 DEF MakeStep, Prepares

\* The worker stops with what is left of its objects.
LEMMA Winds ==
    ASSUME Types, Owned, Apart, Alive,
           NEW pc \in Ending \cup {"ending"}, worker'.pc = pc, worker'.op = worker.op,
           worker.pc \notin {"ending", "finishing"},
           UNCHANGED <<owner, obligation, lease, executed>>,
           native' \subseteq native \ Processes
    PROVE  WindStep
  BY DEF WindStep, Apart, OwedStays

LEMMA PrepareSteps ==
    ASSUME Types, Owned, Executing, NotedBefore, PrepareActions
    PROVE  NoteStep \/ MakeStep \/ IssueStep \/ ResumeStep \/ WindStep
<1>p. /\ {"copies"} \in SUBSET Things /\ {"runtime"} \in SUBSET Things /\ {} \in SUBSET Things
      /\ {"runtime_grants"} \in SUBSET Things /\ {"source_grants"} \in SUBSET Things
      /\ {"job"} \in SUBSET Things
  BY DEF Things
<1>q. {"preflight", "creating", "profile", "created", "folder", "noted_sources", "sources",
       "runtime", "noted_runtime", "granted_runtime", "noted_grants", "granted", "job", "suspended"}
      = Preparing
  BY DEF Preparing
<1>1. CASE BeforeCreate \/ RecordProfile
  BY <1>1, <1>p, <1>q, Noted DEF BeforeCreate, RecordProfile
<1>8. CASE MakeFolder
  <2>1. worker.pc = "created" /\ worker' = [worker EXCEPT !.pc = "folder"]
        /\ UNCHANGED <<runs, open, runner, owner, native, obligation, lease, executed>>
    BY <1>8 DEF MakeFolder, At, Go, Apart, cleanup
  <2>2. worker'.pc = "folder" /\ worker'.op = worker.op
    BY <2>1 DEF Types, Workers
  <2> QED
    BY <2>1, <2>2, <1>q DEF MakeStep, Prepares, Executing
<1>9. CASE RecordSources
  <2>1. worker.pc = "folder" /\ worker' = [worker EXCEPT !.pc = "noted_sources"]
        /\ UNCHANGED <<runs, open, runner, owner, lease, executed>>
        /\ native' = native \cup {"copies"}
        /\ obligation' = [obligation EXCEPT !.noted = @ \cup {"copies"}]
    BY <1>9 DEF RecordSources, At, Go, Apart
  <2>2. worker'.pc = "noted_sources" /\ worker'.op = worker.op
    BY <2>1 DEF Types, Workers
  <2>3. obligation \in Obligations /\ obligation.phase # "reserved"
    BY <2>1, <1>q DEF Types, Owned, Alive, NotedBefore
  <2>4. /\ obligation' \in Obligations /\ obligation'.phase = obligation.phase
        /\ obligation'.noted = obligation.noted \cup {"copies"}
    BY <2>1, <2>3, <1>p DEF Obligations
  <2>5. obligation # None /\ obligation' # None
    BY <2>3, <2>4, NoneIsAbsent
  <2>6. NotedBefore'
    BY <2>2, <2>3, <2>4 DEF NotedBefore
  <2> QED
    BY <2>1, <2>2, <2>3, <2>4, <2>5, <2>6, <1>q DEF NoteStep, Prepares
<1>2. CASE BindRuntime \/ NoteRuntimeGrants \/ NoteSourceGrants \/ ConfigureJob
  BY <1>2, <1>p, <1>q, Noted DEF BindRuntime, NoteRuntimeGrants, NoteSourceGrants, ConfigureJob
<1>3. CASE CreateProfile \/ CreateSuspended
  BY <1>3, <1>q, Made DEF CreateProfile, CreateSuspended
<1>4. CASE CopySources \/ GrantRuntime \/ GrantSources
  <2>1. CASE CopySources
    BY <2>1, <1>q, Made DEF CopySources
  <2>2. CASE GrantRuntime
    <3>1. {"runtime_grants"} \subseteq obligation.noted
      BY <2>2 DEF GrantRuntime, NotedBefore, Make, At
    <3> QED
      BY <2>2, <3>1, <1>q, Made DEF GrantRuntime
  <2>3. CASE GrantSources
    <3>1. {"source_grants"} \subseteq obligation.noted
      BY <2>3 DEF GrantSources, NotedBefore, Make, At
    <3> QED
      BY <2>3, <3>1, <1>q, Made DEF GrantSources
  <2> QED
    BY <1>4, <2>1, <2>2, <2>3
<1>5. CASE PreparationFails
  <2>1. worker.pc \in Preparing /\ worker' = [worker EXCEPT !.pc = "ending", !.result = "failed"]
        /\ Apart /\ UNCHANGED <<owner, obligation, lease, executed>>
        /\ native' \subseteq native \ Processes
    BY <1>5 DEF PreparationFails, cleanup
  <2>2. worker'.pc = "ending" /\ worker'.op = worker.op
    BY <2>1 DEF Types, Workers
  <2>3. Alive /\ worker.pc \notin {"ending", "finishing"}
    BY <2>1 DEF Alive, Preparing
  <2> QED
    BY <2>1, <2>2, <2>3, Winds
<1>r. ASSUME NEW result \in Results, Refused(result) \/ Unwound(result), Apart,
             worker.pc \in {"suspended", "issued"}
      PROVE  WindStep
  <2>1. /\ native' \subseteq native \ Processes
        /\ worker'.pc = "ending" /\ worker'.op = worker.op
        /\ UNCHANGED <<owner, obligation, lease, executed>>
    BY <1>r, RefusedTypes
  <2>2. Alive /\ worker.pc \notin {"ending", "finishing"}
    BY <1>r DEF Alive
  <2> QED
    BY <1>r, <2>1, <2>2, Winds
<1>6. CASE Issue
  <2>1. worker.pc = "suspended" /\ Apart /\ worker.op \in Ops
    BY <1>6 DEF Issue, At, Owned, Alive, Working
  <2>2. CASE Refused("cancelled") \/ Refused("failed") \/ Unwound("failed")
    BY <2>1, <2>2, <1>r, PointsAre
  <2>3. CASE /\ runs[worker.op].approval = owner.approval
             /\ runs' = [runs EXCEPT ![worker.op].state = "running"]
             /\ Go("issued") /\ UNCHANGED <<owner, native, cleanup, executed>>
    <3>1. worker'.pc = "issued" /\ worker'.op = worker.op
      BY <2>3 DEF Go, Types, Workers
    <3>2. runs'[worker.op] = [runs[worker.op] EXCEPT !.state = "running"]
      BY <2>1, <2>3 DEF Types
    <3> QED
      BY <2>1, <2>3, <3>1, <3>2, <1>q DEF IssueStep, Prepares, Apart, cleanup
  <2> QED
    BY <1>6, <2>2, <2>3 DEF Issue
<1>7. CASE Resume
  <2>1. CASE Stopped
    BY <1>7, <2>1, <1>r, PointsAre DEF Resume, At, Working
  <2>2. CASE ~Stopped
    <3>1. worker.pc = "issued" /\ worker'.pc = "running" /\ worker'.op = worker.op
      BY <1>7, <2>2 DEF Resume, At, Go, Types, Workers
    <3> QED
      BY <1>7, <2>2, <3>1 DEF Resume, ResumeStep, Working, Apart, cleanup
  <2> QED
    BY <2>1, <2>2
<1> QED
  BY <1>1, <1>2, <1>3, <1>4, <1>5, <1>6, <1>7, <1>8, <1>9 DEF PrepareActions

LEMMA RunSteps ==
    ASSUME Types, Owned, Executing, Owed, RunActions
    PROVE  WindStep \/ DownStep
<1>n. ASSUME worker.pc \in Ending \cup {"ending", "finishing"}
      PROVE  native \cap Processes = {} /\ Alive
  BY <1>n DEF Executing, Ending, Processes, Alive
<1>1. CASE EndProcess
  <2>1. PICK result : worker' = [worker EXCEPT !.pc = "stopped", !.result = Reported(result)]
    BY <1>1 DEF EndProcess, ProcessExits, LimitStops, CaptureStops, StopsWith
  <2>2. worker.pc = "running" /\ native' = native \ {"running"} /\ Apart
        /\ UNCHANGED <<owner, obligation, lease, executed>>
    BY <1>1 DEF EndProcess, ProcessExits, LimitStops, CaptureStops, StopsWith, At, Working,
                      cleanup
  <2>3. native' \subseteq native \ Processes
    BY <2>2 DEF Executing, Processes
  <2>4. worker'.pc = "stopped" /\ worker'.op = worker.op /\ "stopped" \in Ending
    BY <2>1 DEF Types, Workers, Ending
  <2>5. Alive
    BY <2>2 DEF Alive
  <2> QED
    BY <2>2, <2>3, <2>4, <2>5, Winds
<1>2. CASE Collect
  <2>1. worker.pc = "stopped" /\ native' \subseteq native /\ Apart
        /\ UNCHANGED <<owner, obligation, lease, executed>>
    BY <1>2 DEF Collect, At, Working, cleanup
  <2>2. worker'.pc \in {"collected", "ending"} /\ worker'.op = worker.op
    BY <1>2 DEF Collect, Types, Workers
  <2>3. native' \subseteq native \ Processes /\ Alive
    BY <1>n, <2>1 DEF Ending
  <2>4. worker'.pc \in Ending \cup {"ending"}
    BY <2>2 DEF Ending
  <2> QED
    BY <2>1, <2>2, <2>3, <2>4, Winds
<1>3. CASE RevokeGrants \/ RemoveSources \/ RemoveProfile
  <2>1. PICK from \in Ending, to \in Ending, things \in SUBSET Things : Clean(from, to, things)
    BY <1>3 DEF RevokeGrants, RemoveSources, RemoveProfile, Ending, Things
  <2>2. /\ worker'.pc = to /\ worker.pc = from /\ worker'.op = worker.op
        /\ native' \subseteq native
        /\ UNCHANGED <<owner, obligation, lease, executed>>
    BY <2>1, CleanTypes
  <2>3. native' \subseteq native \ Processes /\ Alive
    BY <1>n, <2>2
  <2>4. from \notin {"ending", "finishing"} /\ Apart
    BY <2>1 DEF Ending, Clean, Working
  <2> QED
    BY <2>2, <2>3, <2>4, Winds
<1>4. CASE Complete
  <2>1. worker.pc = "cleaned" /\ worker'.pc = "ending" /\ worker'.op = worker.op
    BY <1>4 DEF Complete, At, Go, Types, Workers
  <2>2. OwedStays /\ native' = native
    BY <1>4 DEF Complete, OwedStays, cleanup
  <2> QED
    BY <1>4, <1>n, <2>1, <2>2 DEF Complete, WindStep, Ending, Working, Apart
<1>5. CASE ReleaseUnstarted
  <2>1. worker.pc = "ending" /\ worker'.pc = "finishing" /\ worker'.op = worker.op
    BY <1>5 DEF ReleaseUnstarted, At, Go, Types, Workers
  <2>2. OwedStays /\ native' = native
    BY <1>5, ReleasedOwes DEF ReleaseUnstarted, Releases, cleanup
  <2> QED
    BY <1>5, <1>n, <2>1, <2>2 DEF ReleaseUnstarted, WindStep, Ending, Working, Apart
<1>6. CASE Finish
  <2>1. worker.pc = "finishing" /\ worker'.pc \in {"done", "broken"} /\ owner' = None
        /\ UNCHANGED <<runner, native, obligation, executed>>
    BY <1>6 DEF Finish, Ended, At, NoWorker, Apart
  <2>2. native \cap Processes = {} /\ Alive
    BY <1>n, <2>1
  <2>3. ~Claiming
    BY <2>2 DEF Owned
  <2> QED
    BY <2>1, <2>2, <2>3 DEF DownStep, OwedStays, Alive, Claiming
<1> QED
  BY <1>1, <1>2, <1>3, <1>4, <1>5, <1>6 DEF RunActions

\* Every step is of one of these kinds.
LEMMA StepsAre ==
    ASSUME RunInv, [Next]_vars
    PROVE  Steps
<1>1. CASE Next
  BY <1>1, StoreSteps, StartSteps, PrepareSteps, RunSteps, HostSteps
     DEF RunInv, Next, WorkerActions, Steps
<1>2. CASE UNCHANGED vars
  BY <1>2, NothingElse DEF vars, store, cleanup, Steps
<1> QED
  BY <1>1, <1>2

-----------------------------------------------------------------------------
(* What every kind of step keeps. *)

LEMMA ActiveKept ==
    ASSUME KeepStep, NEW op \in Ops
    PROVE  /\ runs[op].state \in {"starting", "cancel_requested"} =>
                 runs'[op].state \in {"starting", "cancel_requested"}
           /\ runs[op].state \in {"running", "cancel_requested"} =>
                 runs'[op].state \in {"running", "cancel_requested"}
           /\ runs[op].state \in Active => runs'[op].approval = runs[op].approval
  BY DEF KeepStep, Kept, Active

LEMMA OwnedStep ==
    ASSUME RunInv, Steps
    PROVE  Owned'
<1> USE DEF RunInv
<1>1. CASE KeepStep
  <2>1. Claiming' => runner' = runner
    BY <1>1 DEF KeepStep
  <2>2. runner.pc = "claimed" /\ runner' = runner =>
           runs'[runner'.op].state \in {"starting", "cancel_requested"}
    <3>1. runner.pc = "claimed" => runner.op \in Ops
      BY DEF Owned, Claiming
    <3> QED
      BY <1>1, <3>1, ActiveKept DEF Owned
  <2>3. runner'.pc = "claimed" <=> runner.pc = "claimed"
    BY <1>1 DEF KeepStep, Claiming
  <2>4. OwnerKept /\ UNCHANGED <<open, worker, obligation, lease>> /\ (Alive' <=> Alive)
    BY <1>1 DEF KeepStep, Alive
  <2> QED
    BY <2>1, <2>2, <2>3, <2>4 DEF Owned, OwnerKept, Claiming, Alive
<1>2. CASE BeginStep
  BY <1>2 DEF BeginStep, Owned, Claiming, Alive
<1>3. CASE ClaimStep
  <2>1. runner.op \in Ops /\ open /\ ~Alive /\ lease /\ obligation # None
    BY <1>3 DEF ClaimStep, Owned, Claiming
  <2>2. runner'.pc = "claimed" /\ runner'.op = runner.op
    BY <1>3 DEF ClaimStep, Types
  <2>3. owner' # None /\ owner'.op = runner.op
    <3>1. NewOwner(runner.op) \in Owners /\ NewOwner(runner.op).op = runner.op
      BY <2>1 DEF NewOwner, Owners, Types, Runs
    <3> QED
      BY <1>3, <3>1, NoneIsAbsent DEF ClaimStep
  <2> QED
    BY <1>3, <2>1, <2>2, <2>3 DEF ClaimStep, Owned, Claiming, Alive
<1>4. CASE SpawnStep
  BY <1>4 DEF SpawnStep, Owned, Claiming, Alive
<1>5. CASE NoteStep \/ MakeStep \/ IssueStep
  <2>1. Prepares /\ worker'.pc \in Preparing \cup {"issued"}
    BY <1>5 DEF NoteStep, MakeStep, IssueStep
  <2>2. obligation # None => obligation' # None
    BY <1>5 DEF NoteStep, MakeStep, IssueStep
  <2>3. Alive /\ worker.pc \notin {"ending", "finishing"} /\ Alive'
    BY <2>1 DEF Prepares, Alive, Preparing
  <2>4. ~Claiming /\ ~Claiming'
    BY <2>1, <2>3 DEF Owned, Prepares, Claiming
  <2> QED
    BY <2>1, <2>2, <2>3, <2>4 DEF Prepares, Owned, Claiming
<1>6. CASE ResumeStep
  <2>1. Alive /\ Alive' /\ worker.pc \notin {"ending", "finishing"}
    BY <1>6 DEF ResumeStep, Alive
  <2> QED
    BY <1>6, <2>1 DEF ResumeStep, Owned, Claiming
<1>7. CASE WindStep
  <2>1. Alive /\ Alive'
    BY <1>7 DEF WindStep, Alive, Ending
  <2>2. ~Claiming /\ ~Claiming'
    BY <1>7, <2>1 DEF WindStep, Owned, Claiming
  <2> QED
    BY <1>7, <2>1, <2>2 DEF WindStep, Owned, Claiming
<1>8. CASE DownStep
  BY <1>8 DEF DownStep, Owned, Claiming
<1>9. CASE RecoverStep
  <2>1. ~Claiming /\ ~Claiming' /\ (Alive => worker.pc \in {"ending", "finishing"})
    BY <1>9 DEF RecoverStep, Owned, Claiming
  <2>2. UNCHANGED <<runs, open, runner, owner, worker, lease>>
    BY <1>9 DEF RecoverStep
  <2> QED
    BY <2>1, <2>2 DEF Owned, Claiming, Alive
<1> QED
  BY <1>1, <1>2, <1>3, <1>4, <1>5, <1>6, <1>7, <1>8, <1>9 DEF Steps

LEMMA ExecutingStep ==
    ASSUME RunInv, Steps
    PROVE  Executing'
<1> USE DEF RunInv
<1>n. ~Alive => native \cap Processes = {}
  BY DEF Executing, Alive, Processes
<1>1. CASE KeepStep
  <2>1. worker.pc \in {"issued", "running"} => worker.op \in Ops /\ owner # None
    BY DEF Owned, Alive
  <2>2. worker.pc \in {"issued", "running"} =>
          /\ runs'[worker.op].state \in {"running", "cancel_requested"}
          /\ runs'[worker.op].approval = runs[worker.op].approval
    BY <1>1, <2>1, ActiveKept DEF Executing, Active
  <2>3. worker.pc \in {"issued", "running"} => owner'.approval = owner.approval
    BY <1>1, <2>1 DEF KeepStep, OwnerKept
  <2> QED
    BY <1>1, <2>2, <2>3 DEF KeepStep, Executing
<1>2. CASE BeginStep
  BY <1>2, <1>n DEF BeginStep, Executing, Processes, Alive
<1>3. CASE ClaimStep
  <2>1. ~Alive
    BY <1>3 DEF ClaimStep, Owned, Claiming
  <2> QED
    BY <1>3, <2>1, <1>n DEF ClaimStep, Executing, Alive, Processes
<1>4. CASE SpawnStep
  <2>1. ~Alive
    BY <1>4 DEF SpawnStep, Owned, Claiming
  <2> QED
    BY <1>4, <2>1, <1>n DEF SpawnStep, Executing, Processes
<1>5. CASE NoteStep \/ MakeStep
  <2>1. worker.pc \in Preparing /\ worker'.pc \in Preparing
    BY <1>5 DEF NoteStep, MakeStep, Prepares
  <2>2. "running" \notin native
    BY <2>1 DEF Executing, Preparing
  <2>3. "running" \notin native' /\ ("suspended" \in native' => worker'.pc = "suspended")
    BY <1>5, <2>1, <2>2 DEF NoteStep, MakeStep, Executing, Preparing
  <2> QED
    BY <2>1, <2>3 DEF Executing, Preparing
<1>6. CASE IssueStep
  <2>1. worker.op \in Ops
    BY <1>6 DEF IssueStep, Owned, Alive
  <2>2. runs'[worker.op].state = "running" /\ runs'[worker.op].approval = owner.approval
    BY <1>6, <2>1 DEF IssueStep, Types, Runs
  <2> QED
    BY <1>6, <2>2 DEF IssueStep, Prepares, Executing
<1>7. CASE ResumeStep
  BY <1>7 DEF ResumeStep, Executing
<1>8. CASE WindStep
  BY <1>8 DEF WindStep, Executing, Processes, Ending
<1>9. CASE DownStep
  BY <1>9 DEF DownStep, Executing, Processes, Alive
<1>10. CASE RecoverStep
  BY <1>10 DEF RecoverStep, Executing
<1> QED
  BY <1>1, <1>2, <1>3, <1>4, <1>5, <1>6, <1>7, <1>8, <1>9, <1>10 DEF Steps

LEMMA OwedStep ==
    ASSUME RunInv, Steps
    PROVE  Owed'
<1> USE DEF RunInv
<1>1. CASE native' \subseteq native /\ OwedStays
  BY <1>1 DEF OwedStays, Owed
<1>2. CASE KeepStep \/ ClaimStep \/ SpawnStep \/ IssueStep \/ WindStep \/ DownStep \/ RecoverStep
  <2>1. native' \subseteq native /\ OwedStays
    BY <1>2 DEF KeepStep, ClaimStep, SpawnStep, IssueStep, WindStep, DownStep, RecoverStep,
                OwedStays
  <2> QED
    BY <1>1, <2>1
<1>3. CASE BeginStep
  BY <1>3 DEF BeginStep, Owed
<1>4. CASE NoteStep
  BY <1>4 DEF NoteStep, Owed, Processes
<1>5. CASE MakeStep
  <2>1. obligation # None /\ obligation.phase # "reserved"
    <3>1. Alive /\ worker.pc \notin {"ending", "finishing"}
      BY <1>5 DEF MakeStep, Prepares, Alive, Preparing
    <3> QED
      BY <1>5, <3>1 DEF MakeStep, Prepares, Owned, NotedBefore
  <2>2. native' \ (Processes \cup {"profile"}) \subseteq obligation.noted
    BY <1>5 DEF MakeStep, Owed, Processes
  <2>3. native' \cap Processes # {} => "job" \in obligation.noted
    <3>1. "running" \in native' => native \cap Processes # {}
      BY <1>5 DEF MakeStep, Processes
    <3>2. "suspended" \in native' => worker.pc = "job"
      BY <1>5 DEF MakeStep
    <3> QED
      BY <3>1, <3>2 DEF Owed, NotedBefore, Processes
  <2> QED
    BY <1>5, <2>1, <2>2, <2>3 DEF MakeStep, Owed
<1>6. CASE ResumeStep
  <2>1. obligation # None /\ obligation.phase # "reserved" /\ "job" \in obligation.noted
    <3>1. Alive /\ worker.pc \notin {"ending", "finishing"}
      BY <1>6 DEF ResumeStep, Alive
    <3> QED
      BY <1>6, <3>1 DEF ResumeStep, Owned, NotedBefore
  <2>2. native' \ (Processes \cup {"profile"}) \subseteq obligation.noted
    BY <1>6 DEF ResumeStep, Owed, Processes
  <2> QED
    BY <1>6, <2>1, <2>2 DEF ResumeStep, Owed
<1> QED
  BY <1>2, <1>3, <1>4, <1>5, <1>6 DEF Steps

LEMMA NotedStep ==
    ASSUME RunInv, Steps
    PROVE  NotedBefore'
<1> USE DEF RunInv
<1>0. CASE worker'.pc \notin Preparing \cup {"issued"}
  BY <1>0 DEF NotedBefore, Preparing
<1>1. CASE KeepStep
  BY <1>1 DEF KeepStep, NotedBefore
<1>2. CASE BeginStep \/ ClaimStep
  <2>1. ~Alive'
    BY <1>2 DEF BeginStep, ClaimStep, Owned, Claiming, Alive
  <2> QED
    BY <2>1, <1>0 DEF Alive, Preparing
<1>3. CASE SpawnStep
  BY <1>3 DEF SpawnStep, NotedBefore
<1>4. CASE NoteStep
  BY <1>4 DEF NoteStep
<1>5. CASE MakeStep
  BY <1>5 DEF MakeStep, Prepares, NotedBefore, Preparing
<1>6. CASE IssueStep
  BY <1>6 DEF IssueStep, Prepares, NotedBefore
<1>7. CASE ResumeStep \/ WindStep
  BY <1>7, <1>0 DEF ResumeStep, WindStep, Ending, Preparing
<1>8. CASE DownStep
  BY <1>8, <1>0 DEF DownStep, Alive, Preparing
<1>9. CASE RecoverStep
  <2>1. worker.pc \notin Preparing \cup {"issued"}
    BY <1>9 DEF RecoverStep, Owned, Alive, Preparing
  <2> QED
    BY <1>9, <2>1, <1>0 DEF RecoverStep
<1> QED
  BY <1>1, <1>2, <1>3, <1>4, <1>5, <1>6, <1>7, <1>8, <1>9 DEF Steps

\* Only three steps touch a directory without a name; a stop of the host, the only
\* other end of the work on it, is one of the bounded events.
LEMMA OthersLeaveStrays ==
    ASSUME Types, Owned, Strays, Next, ~MakeFolder, ~RecordSources, ~PreparationFails
    PROVE  /\ UNCHANGED nameless /\ events' \in {events, events + 1}
           /\ worker'.pc = "folder" => worker.pc = "folder"
           /\ worker.pc = "folder" /\ worker'.pc # "folder" => events' = events + 1
<1> DEFINE Goal == /\ UNCHANGED nameless /\ events' \in {events, events + 1}
                   /\ worker'.pc = "folder" => worker.pc = "folder"
                   /\ worker.pc = "folder" /\ worker'.pc # "folder" => events' = events + 1
<1>e. Event \/ Calm => events' \in {events, events + 1}
  BY DEF Event, Calm
<1>w. NoWorker.pc = "none" /\ \A op : [NoWorker EXCEPT !.pc = "preflight", !.op = op].pc = "preflight"
  BY DEF NoWorker
<1>k. ASSUME UNCHANGED <<worker, nameless>>, Event \/ Calm PROVE Goal
  BY <1>e, <1>k
<1>m. ASSUME NEW pc \in Points \ {"folder"}, worker'.pc = pc, worker.pc # "folder",
             UNCHANGED nameless, Event \/ Calm
      PROVE  Goal
  BY <1>e, <1>m
<1>1. CASE StoreActions
  BY <1>1, <1>k DEF StoreActions, Prepare, AgentPrepare, Approve, Reject, Cancel, Forget, Edit, Recorded
<1>2. ASSUME NEW op \in Ops, AgentAsk(op) PROVE Goal
  BY <1>2, <1>k DEF AgentAsk, Starting
<1>3. ASSUME NEW op \in Ops, BeginStart(op) PROVE Goal
  BY <1>3, <1>e, <1>w DEF BeginStart, Starting, Alive
<1>4. CASE Claim
  BY <1>4, <1>k DEF Claim, Starting
<1>5. CASE Spawn
  <2>1. worker.pc # "folder" /\ worker'.pc # "folder" /\ UNCHANGED nameless /\ (Event \/ Calm)
    BY <1>5, <1>w DEF Spawn, Owned, Claiming, Alive
  <2> QED
    BY <2>1, <1>e
<1>6. ASSUME NEW from \in Points \ {"folder"}, NEW to \in Points \ {"folder"}, At(from), Go(to),
             UNCHANGED nameless, Event \/ Calm
      PROVE  Goal
  <2>1. worker'.pc = to
    BY <1>6 DEF Go, Types, Workers
  <2> QED
    BY <1>6, <1>m, <2>1 DEF At
<1>p. /\ Preparing \cup Ending \cup {"issued", "running", "ending", "finishing"} \subseteq Points
      /\ "folder" \notin Ending
  BY PointsAre DEF Ending
<1>7. CASE BeforeCreate \/ RecordProfile \/ BindRuntime \/ NoteRuntimeGrants
  BY <1>7, <1>6, <1>p DEF BeforeCreate, RecordProfile, BindRuntime, NoteRuntimeGrants, Note, Working,
                          Preparing
<1>8. CASE NoteSourceGrants \/ ConfigureJob
  BY <1>8, <1>6, <1>p DEF NoteSourceGrants, ConfigureJob, Note, Working, Preparing
<1>9. CASE CreateProfile \/ CopySources \/ GrantRuntime \/ GrantSources \/ CreateSuspended
  BY <1>9, <1>6, <1>p DEF CreateProfile, CopySources, GrantRuntime, GrantSources, CreateSuspended,
                          Make, Working, Preparing
<1>r. ASSUME NEW result, Refused(result) \/ Unwound(result) PROVE worker'.pc = "ending"
  BY <1>r DEF Refused, Unwound, UnwoundBadly, Types, Workers
<1>10. CASE Issue \/ Resume
  <2>1. worker.pc \in {"suspended", "issued"} /\ UNCHANGED nameless /\ (Event \/ Calm)
    BY <1>10 DEF Issue, Resume, At, Working, Refused, UnwoundBadly
  <2>2. worker'.pc \in {"ending", "issued", "running"}
    BY <1>10, <1>r DEF Issue, Resume, Go, Types, Workers
  <2> QED
    BY <1>e, <2>1, <2>2
<1>11. CASE EndProcess \/ Collect
  <2>1. worker.pc \in {"running", "stopped"} /\ UNCHANGED nameless /\ (Event \/ Calm)
    BY <1>11 DEF EndProcess, ProcessExits, LimitStops, CaptureStops, StopsWith, Collect, At, Working
  <2>2. worker'.pc \in {"stopped", "collected", "ending"}
    BY <1>11 DEF EndProcess, ProcessExits, LimitStops, CaptureStops, StopsWith, Collect, Types, Workers
  <2> QED
    BY <1>e, <2>1, <2>2
<1>12. CASE RevokeGrants \/ RemoveSources \/ RemoveProfile
  <2>1. PICK from \in Ending, to \in Ending, things \in SUBSET Things : Clean(from, to, things)
    BY <1>12 DEF RevokeGrants, RemoveSources, RemoveProfile, Ending, Things
  <2>2. worker.pc = from /\ worker'.pc = to /\ UNCHANGED nameless /\ (Event \/ Calm)
    BY <2>1 DEF Clean, At, Go, Working, Types, Workers
  <2> QED
    BY <1>e, <1>p, <2>2
<1>13. CASE Complete \/ ReleaseUnstarted \/ Finish
  <2>1. worker.pc \in {"cleaned", "ending", "finishing"} /\ UNCHANGED nameless /\ (Event \/ Calm)
    BY <1>13 DEF Complete, ReleaseUnstarted, Finish, At, Working
  <2>2. worker'.pc \in {"ending", "finishing", "done", "broken"}
    BY <1>13 DEF Complete, ReleaseUnstarted, Finish, Ended, NoWorker, Go, Types, Workers
  <2> QED
    BY <1>e, <2>1, <2>2
<1>14. CASE BeginClose \/ Open \/ CleanupReview \/ RecoverCleanup
  BY <1>14, <1>k DEF BeginClose, Open, CleanupReview, RecoverCleanup, Cleaned
<1>15. CASE Close
  BY <1>15, <1>e, <1>w DEF Close, Alive
<1>16. CASE Crash
  BY <1>16, <1>w DEF Crash, Event
<1> QED
  BY <1>1, <1>2, <1>3, <1>4, <1>5, <1>7, <1>8, <1>9, <1>10, <1>11, <1>12, <1>13, <1>14, <1>15, <1>16
     DEF Next, StartActions, WorkerActions, PrepareActions, RunActions, HostActions

LEMMA StraysStep ==
    ASSUME Types, Owned, Strays, [Next]_vars
    PROVE  Strays'
<1>1. CASE MakeFolder
  <2>1. /\ worker.pc = "created" /\ worker'.pc = "folder"
        /\ nameless' = nameless + 1 /\ events' = events
    BY <1>1 DEF MakeFolder, At, Go, Calm, Types, Workers
  <2> QED
    BY <2>1 DEF Strays, NamelessAreFew, At
<1>2. CASE RecordSources
  <2>1. /\ worker.pc = "folder" /\ worker'.pc = "noted_sources"
        /\ nameless' = nameless - 1 /\ events' = events
    BY <1>2 DEF RecordSources, At, Go, Calm, Types, Workers
  <2> QED
    BY <2>1 DEF Strays, NamelessAreFew, At
<1>3. CASE PreparationFails
  <2>1. worker'.pc = "ending" /\ events' = events + 1
    BY <1>3 DEF PreparationFails, Event, Types, Workers
  <2>2. IF worker.pc = "folder" THEN nameless' \in {nameless - 1, nameless} ELSE nameless' = nameless
    BY <1>3 DEF PreparationFails, At
  <2> QED
    BY <2>1, <2>2 DEF Strays, NamelessAreFew, At
<1>4. CASE Next /\ ~MakeFolder /\ ~RecordSources /\ ~PreparationFails
  BY <1>4, OthersLeaveStrays DEF Strays, NamelessAreFew, At
<1>5. CASE UNCHANGED vars
  BY <1>5 DEF vars, Strays, NamelessAreFew, At
<1> QED
  BY <1>1, <1>2, <1>3, <1>4, <1>5

\* Only the start of a process spends an approval, the one it is owned under.
LEMMA SpentGrows ==
    ASSUME Types, Owned, Steps
    PROVE  \/ UNCHANGED executed /\ Spent' = Spent
           \/ /\ ResumeStep /\ owner \in Owners /\ Spent' = Spent \cup {owner.approval}
              /\ Len(executed) \in Nat /\ Len(executed') = Len(executed) + 1
              /\ \A i \in 1..Len(executed) : executed'[i] = executed[i]
              /\ executed'[Len(executed) + 1].approval = owner.approval
<1>1. CASE UNCHANGED executed
  BY <1>1 DEF Spent
<1>2. CASE ResumeStep
  <2>1. Alive
    BY <1>2 DEF ResumeStep, Alive
  <2>2. owner \in Owners /\ worker.op \in Ops
    BY <2>1 DEF Owned, Types
  <2> DEFINE e == [approval |-> owner.approval, print |-> runs[worker.op].print]
  <2>3. e \in Executions /\ e.approval = owner.approval /\ executed' = Append(executed, e)
    BY <1>2, <2>2 DEF ResumeStep, Executions, Owners, Types, Runs
  <2>4. /\ Len(executed) \in Nat /\ Len(executed') = Len(executed) + 1
        /\ \A i \in 1..Len(executed) : executed'[i] = executed[i]
        /\ executed'[Len(executed) + 1] = e
    <3> HIDE DEF e
    <3> QED
      BY <2>3 DEF Types
  <2>5. executed'[Len(executed) + 1].approval = owner.approval
    BY <2>3, <2>4
  <2>6. Spent' = Spent \cup {owner.approval}
    <3>1. 1..Len(executed') = 1..Len(executed) \cup {Len(executed) + 1}
      BY <2>4
    <3> HIDE DEF e
    <3> QED
      BY <2>4, <2>5, <3>1 DEF Spent
  <2> QED
    BY <1>2, <2>2, <2>4, <2>5, <2>6
<1>3. UNCHANGED executed \/ ResumeStep
  BY DEF Steps, KeepStep, BeginStep, ClaimStep, SpawnStep, NoteStep, MakeStep, IssueStep, WindStep,
         DownStep, RecoverStep, Prepares
<1> QED
  BY <1>1, <1>2, <1>3

LEMMA ApprovalsStep ==
    ASSUME RunInv, Next, Steps
    PROVE  Approvals'
<1> USE DEF RunInv
<1>a. approvals \in Nat /\ None \notin Given
  BY NoneIsAbsent DEF Types, Given
<1>m. /\ \A op \in Ops : Moves(runs[op], runs'[op]) \/ Newly(op)
      /\ \/ (\A op \in Ops : Moves(runs[op], runs'[op])) /\ UNCHANGED approvals
         \/ \E op \in Ops : Newly(op) /\ \A o \in Ops \ {op} : runs'[o] = runs[o]
  BY RecordsMove
<1>r. \A op \in Ops : runs[op] \in Runs
  BY DEF Types
<1>g. Given \subseteq Given' /\ approvals' \in Nat
  <2>1. CASE UNCHANGED approvals
    BY <1>a, <2>1 DEF Given
  <2>2. ASSUME NEW op \in Ops, Newly(op) PROVE Given \subseteq Given' /\ approvals' \in Nat
    BY <1>a, <2>2 DEF Given, Newly
  <2> QED
    BY <1>m, <2>1, <2>2
<1>n. ASSUME NEW op \in Ops, Newly(op)
      PROVE  /\ runs'[op].approval = approvals + 1 /\ approvals + 1 \in Given'
             /\ approvals + 1 \notin Given /\ approvals + 1 # None
             /\ runs[op].state = "awaiting_confirmation"
  <2>1. approvals + 1 \in Given' /\ approvals + 1 \notin Given /\ approvals + 1 # None
    BY <1>a, <1>n, NoneIsAbsent DEF Newly, Given
  <2>2. runs'[op].approval = approvals + 1 /\ runs[op].state = "awaiting_confirmation"
    BY <1>r, <1>n DEF Newly, Runs
  <2> QED
    BY <2>1, <2>2
\* Approvals stay given, and each to one run.
<1>1. \A op \in Ops : runs'[op].approval \in Given' \cup {None}
  <2>1. ASSUME NEW op \in Ops, Moves(runs[op], runs'[op])
        PROVE  runs'[op].approval \in Given' \cup {None}
    BY <1>g, <2>1 DEF Moves, Approvals
  <2> QED
    BY <1>m, <1>n, <2>1
<1>2. ASSUME NEW op \in Ops, NEW other \in Ops,
             runs'[op].approval = runs'[other].approval, runs'[op].approval # None
      PROVE  op = other
  <2>1. CASE \A o \in Ops : Moves(runs[o], runs'[o])
    <3>1. runs[op].approval = runs'[op].approval /\ runs[other].approval = runs'[other].approval
      BY <1>2, <2>1 DEF Moves
    <3> QED
      BY <1>2, <3>1 DEF Approvals
  <2>2. ASSUME NEW n \in Ops, Newly(n), \A o \in Ops \ {n} : runs'[o] = runs[o]
        PROVE  op = other
    <3>1. ASSUME NEW o \in Ops \ {n} PROVE runs'[o].approval # approvals + 1
      BY <1>n, <2>2, <3>1 DEF Approvals
    <3>2. CASE op = n \/ other = n
      BY <1>2, <1>n, <2>2, <3>1, <3>2
    <3>3. CASE op # n /\ other # n
      BY <1>2, <2>2, <3>3 DEF Approvals
    <3> QED
      BY <3>2, <3>3
  <2> QED
    BY <1>m, <2>1, <2>2
\* What is spent was given, once.
<1>o. ResumeStep => /\ owner.approval \in Unused /\ worker.op \in Ops
                    /\ runs[worker.op].approval = owner.approval
                    /\ runs[worker.op].state \in {"running", "cancel_requested"}
  BY DEF ResumeStep, Approvals, Executing, Owned, Alive
<1>3. Spent' \subseteq Given'
  BY <1>g, <1>o, SpentGrows DEF Approvals, Unused
<1>4. ASSUME NEW i \in 1..Len(executed'), NEW j \in 1..Len(executed'),
             executed'[i].approval = executed'[j].approval
      PROVE  i = j
  <2>1. CASE UNCHANGED executed
    BY <1>4, <2>1 DEF Approvals
  <2>2. CASE ~UNCHANGED executed
    <3>1. /\ owner.approval \in Unused /\ Len(executed) \in Nat
          /\ Len(executed') = Len(executed) + 1
          /\ \A k \in 1..Len(executed) : executed'[k] = executed[k]
          /\ executed'[Len(executed) + 1].approval = owner.approval
      BY <1>o, <2>2, SpentGrows
    <3>2. ASSUME NEW k \in 1..Len(executed) PROVE executed'[k].approval # owner.approval
      BY <3>1, <3>2 DEF Unused, Spent
    <3>3. ASSUME NEW k \in 1..Len(executed') PROVE k \in 1..Len(executed) \/ k = Len(executed) + 1
      BY <3>1, <3>3
    <3>4. CASE i \in 1..Len(executed) /\ j \in 1..Len(executed)
      BY <1>4, <3>1, <3>4 DEF Approvals
    <3> QED
      BY <1>4, <3>1, <3>2, <3>3, <3>4
  <2> QED
    BY <2>1, <2>2
\* What may still be used has not been.
<1>u. ASSUME NEW a \in Unused, ResumeStep => a # owner.approval
      PROVE  a \in Unused'
  BY <1>g, <1>u, SpentGrows DEF Unused
<1>5. ASSUME NEW op \in Ops, runs'[op].state \in {"approved", "starting"}
      PROVE  runs'[op].approval \in Unused'
  <2>1. CASE Moves(runs[op], runs'[op])
    <3>1. runs'[op].approval = runs[op].approval /\ runs[op].state \in {"approved", "starting"}
      BY <1>5, <2>1 DEF Moves
    <3>2. runs[op].approval \in Unused
      BY <3>1 DEF Approvals
    <3>3. ResumeStep => runs[op].approval # owner.approval
      <4>1. runs[op].approval # None
        BY <1>a, <3>2 DEF Unused
      <4> QED
        BY <1>o, <3>1, <4>1 DEF Approvals
    <3> QED
      BY <1>u, <3>1, <3>2, <3>3
  <2>2. CASE Newly(op)
    <3>1. ~ResumeStep \/ owner.approval # approvals + 1
      BY <1>n, <1>o, <2>2 DEF Unused
    <3>2. approvals + 1 \notin Spent'
      BY <1>n, <2>2, <3>1, SpentGrows DEF Approvals
    <3> QED
      BY <1>n, <2>2, <3>2 DEF Unused
  <2> QED
    BY <1>m, <2>1, <2>2
<1>6. ASSUME runner'.pc = "claimed" \/ worker'.pc \in Preparing \cup {"issued"}
      PROVE  owner'.approval \in Unused'
  <2>1. CASE KeepStep
    <3>1. runner.pc = "claimed" \/ worker.pc \in Preparing \cup {"issued"}
      BY <1>6, <2>1 DEF KeepStep, Claiming
    <3>2. owner # None
      BY <3>1 DEF Owned, Alive, Preparing
    <3>3. owner'.approval = owner.approval /\ UNCHANGED executed
      BY <2>1, <3>2 DEF KeepStep, OwnerKept
    <3>4. ~ResumeStep
      BY <2>1 DEF KeepStep, ResumeStep
    <3> QED
      BY <1>u, <3>1, <3>3, <3>4 DEF Approvals
  <2>2. CASE ClaimStep
    <3>1. runner.op \in Ops /\ runs[runner.op].state = "approved"
      BY <2>2 DEF ClaimStep, Owned, Claiming
    <3>2. owner'.approval = runs[runner.op].approval
      BY <2>2 DEF ClaimStep, NewOwner
    <3>3. ~ResumeStep
      BY <2>2 DEF ClaimStep, ResumeStep
    <3> QED
      BY <1>u, <3>1, <3>2, <3>3 DEF Approvals
  <2>3. CASE SpawnStep \/ NoteStep \/ MakeStep \/ IssueStep \/ RecoverStep
    <3>1. UNCHANGED owner /\ ~ResumeStep
      BY <2>3 DEF SpawnStep, NoteStep, MakeStep, IssueStep, RecoverStep, Prepares, ResumeStep,
                  Preparing
    <3>2. runner.pc = "claimed" \/ worker.pc \in Preparing \cup {"issued"}
      BY <1>6, <2>3 DEF SpawnStep, NoteStep, MakeStep, IssueStep, RecoverStep, Prepares
    <3> QED
      BY <1>u, <3>1, <3>2 DEF Approvals
  <2>4. CASE BeginStep
    BY <1>6, <2>4 DEF BeginStep, Alive, Preparing
  <2>5. CASE ResumeStep \/ WindStep
    <3>1. worker'.pc \notin Preparing \cup {"issued"} /\ UNCHANGED runner /\ Alive
      BY <2>5 DEF ResumeStep, WindStep, Ending, Preparing, Alive
    <3> QED
      BY <1>6, <3>1 DEF Owned, Claiming
  <2>6. CASE DownStep
    BY <1>6, <2>6 DEF DownStep, Claiming, Alive, Preparing
  <2> QED
    BY <2>1, <2>2, <2>3, <2>4, <2>5, <2>6 DEF Steps
<1> QED
  BY <1>1, <1>2, <1>3, <1>4, <1>5, <1>6 DEF Approvals

-----------------------------------------------------------------------------
(* The results. *)

LEMMA RunInit == Init => RunInv
<1> SUFFICES ASSUME Init PROVE RunInv
  OBVIOUS
<1>1. NoRun \in Runs /\ NoRun.state = "none" /\ NoRun.approval = None
  BY StatesAre DEF NoRun, Runs
<1>2. NoWorker \in Workers /\ NoWorker.pc = "none"
  BY PointsAre DEF NoWorker, Workers
<1>3. Idle.pc = "free"
      /\ Idle \in [pc : {"free", "reserved", "claimed", "joining"}, op : Ops \cup {None}]
  BY DEF Idle
<1>4. Types
  <2>1. runs \in [Ops -> Runs]
    BY <1>1 DEF Init
  <2>2. source \in Nat /\ approvals \in Nat /\ executed \in Seq(Executions)
    BY DEF Init
  <2>3. runner \in [pc : {"free", "reserved", "claimed", "joining"}, op : Ops \cup {None}]
        /\ worker \in Workers
    BY <1>2, <1>3 DEF Init
  <2>4. /\ open \in BOOLEAN /\ lease \in BOOLEAN /\ native \subseteq Processes \cup Things
        /\ owner \in Owners \cup {None} /\ obligation \in Obligations \cup {None}
    BY DEF Init
  <2> QED
    BY <2>1, <2>2, <2>3, <2>4 DEF Types
<1>5. Owned
  BY <1>2, <1>3 DEF Init, Owned, Claiming, Alive
<1>6. Executing /\ Owed /\ Strays
  BY <1>2 DEF Init, Executing, Owed, Strays, NamelessAreFew, At
<1>7. Approvals
  <2>1. Spent = {} /\ Given = {} /\ Len(executed) = 0
    BY DEF Init, Spent, Given
  <2>2. \A op \in Ops : runs[op].approval = None /\ runs[op].state = "none"
    BY <1>1 DEF Init
  <2>3. runner.pc # "claimed" /\ worker.pc \notin Preparing \cup {"issued"}
    BY <1>2, <1>3 DEF Init, Preparing
  <2> QED
    BY <2>1, <2>2, <2>3 DEF Approvals
<1>8. NotedBefore
  BY <1>2 DEF Init, NotedBefore, Preparing
<1> QED
  BY <1>4, <1>5, <1>6, <1>7, <1>8 DEF RunInv

LEMMA RunStep == RunInv /\ [Next]_vars => RunInv'
<1> SUFFICES ASSUME RunInv, [Next]_vars PROVE RunInv'
  OBVIOUS
<1>1. Steps
  BY StepsAre
<1>2. Types'
  BY TypesStep DEF RunInv
<1>3. Owned' /\ Executing' /\ Owed' /\ NotedBefore' /\ Strays'
  BY <1>1, OwnedStep, ExecutingStep, OwedStep, NotedStep, StraysStep DEF RunInv
<1>4. Approvals'
  <2>1. CASE Next
    BY <1>1, <2>1, ApprovalsStep
  <2>2. CASE UNCHANGED vars
    BY <2>2 DEF vars, store, RunInv, Approvals, Given, Spent, Unused
  <2> QED
    BY <2>1, <2>2
<1> QED
  BY <1>2, <1>3, <1>4 DEF RunInv

\* The inductive invariant: who holds the execution and the journal, which
\* approvals are spent, and what is noted before it is made.
THEOREM RunInvariant == Spec => []RunInv
  BY RunInit, RunStep, PTL DEF Spec

\* A process runs only in an open vault under the approval of its record, and
\* an approval lets one process run, whatever is cancelled, restarted or expires
\* (experiment_claim, NativePermit::issue).
THEOREM ExecutionIsApprovedHolds == Spec => []ExecutionIsApproved
<1>1. RunInv => ExecutionIsApproved
  <2> SUFFICES ASSUME RunInv PROVE ExecutionIsApproved
    OBVIOUS
  <2>1. ASSUME "running" \in native
        PROVE  /\ open /\ owner # None
               /\ runs[owner.op].state \in {"running", "cancel_requested"}
               /\ runs[owner.op].approval = owner.approval
    <3>1. worker.pc = "running"
      BY <2>1 DEF RunInv, Executing
    <3> QED
      BY <3>1 DEF RunInv, Executing, Owned, Alive
  <2> QED
    BY <2>1 DEF RunInv, Approvals, ExecutionIsApproved
<1> QED
  BY <1>1, RunInvariant, PTL

\* The cleanup journal names what exists outside the vault, through crashes,
\* failed cleanups and recoveries (experiment_cleanup.rs).
THEOREM ResourcesAreOwedHolds == Spec => []ResourcesAreOwed
<1>1. RunInv => ResourcesAreOwed
  BY DEF RunInv, Strays, ResourcesAreOwed
<1> QED
  BY <1>1, RunInvariant, PTL

\* A final record is at most forgotten, and a run told to stop ends as cancelled
\* or interrupted (experiment_finish_outputs, recover).
THEOREM RunsEndOnceHolds == Spec => RunsEndOnce
<1> DEFINE Once == \A op \in Ops : runs'[op].state # runs[op].state =>
              /\ runs[op].state \in Terminal => runs'[op].state = "forgotten"
              /\ runs[op].state = "forgotten" => FALSE
              /\ runs[op].state = "cancel_requested" =>
                    runs'[op].state \in {"cancelled", "interrupted"}
<1>1. RunInv /\ [Next]_vars => [Once]_vars
  <2> SUFFICES ASSUME RunInv, Next PROVE Once
    OBVIOUS
  <2>1. \A op \in Ops : Moves(runs[op], runs'[op]) \/ Newly(op)
    BY RecordsMove DEF RunInv
  <2> QED
    BY <2>1 DEF Moves, Newly, Terminal
<1>2. RunsEndOnce <=> [][Once]_vars
  BY DEF RunsEndOnce
<1> QED
  BY <1>1, <1>2, RunInvariant, PTL DEF Spec
-----------------------------------------------------------------------------
Contents == {Nil} \cup ({"output"} \X Paths) \cup ({"edit"} \X {0, 1})
Entries == [id: Imports \cup {Nil, "discovered"}, revision: Nat, hash: Contents]

ImportStates == {"awaiting_confirmation", "approved", "completed", "partial", "failed",
                 "rejected", "cancelled"}
ItemStates == {"pending", "committed", "failed", "rejected", "cancelled"}
PlanItems == [state: ItemStates, target: Entries]
Records(ps) == [state: ImportStates, confirmed: BOOLEAN, items: [ps -> PlanItems]]
NotEmpty == (SUBSET Paths) \ {{}}
ImportRecorded(rec) == \/ rec \in {NoImport, [state |-> "forgotten"]}
                 \/ \E ps \in NotEmpty : rec \in Records(ps)

ImportTypeOK ==
    /\ disk \in [Paths -> Contents] /\ files \in [Paths -> Entries]
    /\ imports = [i \in Imports |-> imports[i]] /\ \A i \in Imports : ImportRecorded(imports[i])
    /\ journal \in [Writes -> {"none", "pending", "conflict"}]
    /\ receipts \subseteq Writes
    /\ applying \in Writes \cup {Nil}
    /\ vaultOpen \in BOOLEAN /\ incidents \in Nat

\* One write at most is accepted and not yet carried out; its import was
\* confirmed and waits for it, even when it was cancelled meanwhile.
Accepted(i, p) == journal[<<i, p>>] = "pending"
Rows ==
    /\ applying # Nil => journal[applying] = "pending"
    /\ \A i, j \in Imports, p, q \in Paths :
          Accepted(i, p) /\ Accepted(j, q) => i = j /\ p = q
    /\ \A i \in Imports, p \in Paths : Accepted(i, p) =>
          /\ imports[i].state \in {"approved", "cancelled"}
          /\ imports[i].confirmed
          /\ p \in Pending(i)

\* What the states of an import say of its items, and the items of the receipts.
ImportOutcome(i) ==
    /\ \A p \in Items(i) : Item(i, p).state = "committed" <=> <<i, p>> \in receipts
    /\ imports[i].state = "awaiting_confirmation" => Pending(i) = Items(i)
    /\ imports[i].state = "approved" =>
          /\ imports[i].confirmed
          /\ Pending(i) # {} /\ Items(i) = Pending(i) \cup Committed(i)
    /\ imports[i].state = "completed" => Committed(i) = Items(i)
    /\ imports[i].state \in {"failed", "rejected"} => Committed(i) = {}
    /\ imports[i].state = "failed" => Failed(i) # {}
    /\ imports[i].state = "partial" => Committed(i) # {} /\ Failed(i) # {}
Outcomes ==
    \A i \in Imports :
        /\ Planned(i) => ImportOutcome(i)
        /\ imports[i].state = "none" => \A p \in Paths : <<i, p>> \notin receipts

\* A path that had a file keeps an identity, and a row waits in an open vault
\* only after a failed write.
Identities ==
    /\ \A p \in Paths \ FreshPaths : files[p].id # Nil
    /\ \A i \in Imports, p \in Paths :
          Accepted(i, p) => ~vaultOpen \/ applying = <<i, p>> \/ p \in FaultPaths

\* What a write found at its path is what is there, or another program has
\* written there since.
Looks ==
    /\ unseen \subseteq Paths
    /\ current = <<>> \/ \E c \in Contents : current = <<c>>
    /\ current # <<>> => /\ applying # Nil
                         /\ disk[applying[2]] = current[1] \/ applying[2] \in unseen

ImportInv == ImportTypeOK /\ Rows /\ Outcomes /\ Identities /\ Looks

\* An accepted write gives its file the identity that was planned.
KeepsIdentity ==
    \A i \in Imports, p \in Paths : Accepted(i, p) => Identity(i, p) = Item(i, p).target.id

-----------------------------------------------------------------------------
(* What the operators keep of the types. *)

\* A planned import has its items.
LEMMA PlannedRecord ==
    ASSUME ImportTypeOK, NEW i \in Imports, Planned(i)
    PROVE  Items(i) \in NotEmpty /\ imports[i] \in Records(Items(i))
<1>1. ImportRecorded(imports[i])
  BY DEF ImportTypeOK
<1>2. PICK ps \in NotEmpty : imports[i] \in Records(ps)
  BY <1>1 DEF ImportRecorded, Planned, NoImport
<1>3. Items(i) = ps
  BY <1>2 DEF Items, Records
<1> QED
  BY <1>2, <1>3

LEMMA PlannedItem ==
    ASSUME ImportTypeOK, NEW i \in Imports, Planned(i), NEW p \in Items(i)
    PROVE  p \in Paths /\ Item(i, p) \in PlanItems
BY PlannedRecord DEF NotEmpty, Records, Item

\* An import whose record is of the right form is recorded.
LEMMA RecordedStep ==
    ASSUME ImportTypeOK, NEW i \in Imports, NEW rec, imports' = [imports EXCEPT ![i] = rec],
           ImportRecorded(rec)
    PROVE  /\ imports' = [j \in Imports |-> imports'[j]]
           /\ \A j \in Imports : ImportRecorded(imports'[j])
           /\ imports'[i] = rec
           /\ \A j \in Imports \ {i} : imports'[j] = imports[j]
<1>1. DOMAIN imports = Imports
  BY DEF ImportTypeOK
<1> QED
  BY <1>1 DEF ImportTypeOK

\* One item moves to another state, and its import with it.
ImportMoves(i, p, item, state) ==
    imports' = [imports EXCEPT ![i].items[p].state = item, ![i].state = state]

LEMMA ItemMoves ==
    ASSUME ImportTypeOK, NEW i \in Imports, Planned(i), NEW p \in Items(i),
           NEW item \in ItemStates, NEW state \in ImportStates,
           ImportMoves(i, p, item, state)
    PROVE  /\ imports' = [j \in Imports |-> imports'[j]]
           /\ \A j \in Imports : ImportRecorded(imports'[j])
           /\ \A j \in Imports \ {i} : imports'[j] = imports[j]
           /\ Items(i)' = Items(i)
           /\ imports'[i].state = state /\ imports'[i].confirmed = imports[i].confirmed
           /\ \A q \in Items(i) :
                 /\ Item(i, q)'.state = IF q = p THEN item ELSE Item(i, q).state
                 /\ Item(i, q)'.target = Item(i, q).target
<1> DEFINE items == [imports[i].items EXCEPT ![p] = [imports[i].items[p] EXCEPT !.state = item]]
           rec == [imports[i] EXCEPT !.state = state, !.items = items]
<1>1. imports[i] \in Records(Items(i)) /\ Items(i) \in NotEmpty
  BY PlannedRecord
<1>2. items \in [Items(i) -> PlanItems]
  <2>1. imports[i].items \in [Items(i) -> PlanItems]
    BY <1>1 DEF Records
  <2>2. [imports[i].items[p] EXCEPT !.state = item] \in PlanItems
    BY <2>1 DEF PlanItems
  <2> QED
    BY <2>1, <2>2
<1>3. \A q \in Items(i) : /\ items[q].state = IF q = p THEN item ELSE imports[i].items[q].state
                          /\ items[q].target = imports[i].items[q].target
  BY <1>1 DEF Records, PlanItems
<1>4. imports' = [imports EXCEPT ![i] = rec]
  BY <1>1 DEF ImportMoves, ImportTypeOK, Records
<1> HIDE DEF items
<1>5. /\ rec \in Records(Items(i)) /\ rec.items = items
      /\ rec.state = state /\ rec.confirmed = imports[i].confirmed
  BY <1>1, <1>2 DEF Records
<1>6. DOMAIN rec.items = Items(i)
  BY <1>2, <1>5
<1> HIDE DEF rec
<1>7. ImportRecorded(rec)
  BY <1>1, <1>5 DEF ImportRecorded
<1>8. /\ imports' = [j \in Imports |-> imports'[j]]
      /\ \A j \in Imports : ImportRecorded(imports'[j])
      /\ imports'[i] = rec
      /\ \A j \in Imports \ {i} : imports'[j] = imports[j]
  BY <1>4, <1>7, RecordedStep
<1> QED
  BY <1>3, <1>5, <1>6, <1>8 DEF Items, Item

\* The catalogue after a scan: it tells the files, and no identity is lost.
LEMMA ScannedEntries ==
    ASSUME ImportTypeOK
    PROVE  /\ Scanned \in [Paths -> Entries]
           /\ \A p \in Paths : /\ Scanned[p].hash = disk[p]
                               /\ files[p].id # Nil => Scanned[p].id = files[p].id
<1>1. ASSUME NEW p \in Paths
      PROVE  /\ Scanned[p] \in Entries /\ Scanned[p].hash = disk[p]
             /\ files[p].id # Nil => Scanned[p].id = files[p].id
  <2>1. files[p] \in Entries /\ disk[p] \in Contents
    BY DEF ImportTypeOK
  <2>2. CASE disk[p] = files[p].hash
    BY <2>1, <2>2 DEF Scanned
  <2>3. CASE disk[p] # files[p].hash
    <3> DEFINE f == [id |-> IF files[p].id = Nil THEN "discovered" ELSE files[p].id,
                     revision |-> files[p].revision + 1, hash |-> disk[p]]
    <3>1. Scanned[p] = f
      BY <2>3 DEF Scanned
    <3>2. f \in Entries
      BY <2>1 DEF Entries
    <3> QED
      BY <3>1, <3>2
  <2> QED
    BY <2>2, <2>3
<1>2. Scanned = [p \in Paths |-> Scanned[p]]
  BY DEF Scanned
<1> QED
  BY <1>1, <1>2

\* A plan is a record of its items, all pending.
LEMMA PlanRecord ==
    ASSUME ImportTypeOK, NEW i \in Imports, NEW ps \in NotEmpty
    PROVE  /\ Plan(i, ps) \in Records(ps)
           /\ Plan(i, ps).state = "awaiting_confirmation" /\ DOMAIN Plan(i, ps).items = ps
           /\ \A p \in ps : Plan(i, ps).items[p].state = "pending"
<1>1. ASSUME NEW p \in ps
      PROVE  [state |-> "pending", target |-> Target(i, p)] \in PlanItems
  <2>1. Scanned[p] \in Entries
    BY ScannedEntries DEF NotEmpty
  <2>2. Target(i, p) \in Entries
    BY <2>1 DEF Target, Entries, Contents
  <2> QED
    BY <2>2 DEF PlanItems, ItemStates
<1>2. [p \in ps |-> [state |-> "pending", target |-> Target(i, p)]] \in [ps -> PlanItems]
  BY <1>1
<1> QED
  BY <1>2 DEF Plan, Records, ImportStates

\* An import that ends before its files are written; the items in stopped with it.
ImportStopped(i, stopped, state) ==
    [imports[i] EXCEPT !.state = state,
        !.items = [p \in Items(i) |-> IF p \in stopped
                                      THEN [Item(i, p) EXCEPT !.state = state]
                                      ELSE Item(i, p)]]

LEMMA StoppedRecord ==
    ASSUME ImportTypeOK, NEW i \in Imports, Planned(i), NEW stopped,
           NEW state \in {"rejected", "cancelled"}
    PROVE  LET rec == ImportStopped(i, stopped, state)
           IN  /\ rec \in Records(Items(i)) /\ DOMAIN rec.items = Items(i)
               /\ rec.state = state /\ rec.confirmed = imports[i].confirmed
               /\ \A p \in Items(i) :
                     /\ rec.items[p].state = IF p \in stopped THEN state ELSE Item(i, p).state
                     /\ rec.items[p].target = Item(i, p).target
<1> DEFINE items == [p \in Items(i) |-> IF p \in stopped
                                        THEN [Item(i, p) EXCEPT !.state = state]
                                        ELSE Item(i, p)]
<1>1. imports[i] \in Records(Items(i))
  BY PlannedRecord
<1>2. ASSUME NEW p \in Items(i)
      PROVE  /\ items[p] \in PlanItems
             /\ items[p].state = IF p \in stopped THEN state ELSE Item(i, p).state
             /\ items[p].target = Item(i, p).target
  <2>1. Item(i, p) \in PlanItems
    BY PlannedItem
  <2>2. [Item(i, p) EXCEPT !.state = state] \in PlanItems
    BY <2>1 DEF PlanItems, ItemStates
  <2> QED
    BY <2>1, <2>2 DEF PlanItems
<1>3. items \in [Items(i) -> PlanItems]
  BY <1>2
<1> HIDE DEF items
<1>4. ImportStopped(i, stopped, state) = [imports[i] EXCEPT !.state = state, !.items = items]
  BY DEF ImportStopped, items
<1>5. [imports[i] EXCEPT !.state = state, !.items = items].items = items
  BY <1>1 DEF Records
<1> QED
  BY <1>1, <1>2, <1>3, <1>4, <1>5 DEF Records, ImportStates

\* Failing an item is a move of it.
LEMMA FailMoves ==
    ASSUME ImportTypeOK, NEW i \in Imports, Planned(i), NEW p \in Items(i), imports' = Fail(i, p)
    PROVE  LET state == IF imports[i].state = "approved" THEN AfterFailure(i)
                        ELSE imports[i].state
           IN  state \in ImportStates /\ ImportMoves(i, p, "failed", state)
<1>1. imports[i] \in Records(Items(i))
  BY PlannedRecord
<1>2. imports' = [imports EXCEPT
                     ![i].items[p].state = "failed",
                     ![i].state = IF imports[i].state = "approved" THEN AfterFailure(i)
                                  ELSE imports[i].state]
  BY <1>1 DEF Fail, ImportTypeOK, Records
<1> QED
  BY <1>1, <1>2 DEF ImportMoves, Records, AfterFailure, ImportStates

\* What is committed is a move, too.
LEMMA CommitMoves ==
    ASSUME ImportTypeOK, NEW i \in Imports, NEW p \in Paths, Commit, applying = <<i, p>>
    PROVE  /\ Planned(i) /\ imports[i].confirmed /\ p \in Pending(i)
           /\ Settled(i, p) \in ImportStates /\ ImportMoves(i, p, "committed", Settled(i, p))
           /\ receipts' = receipts \cup {<<i, p>>}
           /\ journal' = [journal EXCEPT ![<<i, p>>] = "none"]
<1>1. Planned(i) /\ imports[i].confirmed /\ p \in Pending(i)
  BY DEF Commit, Completable
<1>2. imports[i] \in Records(Items(i))
  BY <1>1, PlannedRecord
<1> QED
  BY <1>1, <1>2 DEF Commit, ImportMoves, Settled, Records, ImportStates

-----------------------------------------------------------------------------
(* The outcomes through the steps that touch an import. *)

\* What did not happen to an import does not change what it tells.
LEMMA OutcomeSame ==
    ASSUME Outcomes, NEW j \in Imports, imports'[j] = imports[j],
           \A p : <<j, p>> \in receipts' <=> <<j, p>> \in receipts
    PROVE  /\ (Planned(j) => ImportOutcome(j))'
           /\ imports'[j].state = "none" => \A p \in Paths : <<j, p>> \notin receipts'
<1>1. /\ Items(j)' = Items(j)
      /\ \A p : Item(j, p)' = Item(j, p)
      /\ Planned(j)' <=> Planned(j)
  BY DEF Items, Item, Planned
<1>2. Pending(j)' = Pending(j) /\ Committed(j)' = Committed(j) /\ Failed(j)' = Failed(j)
  BY <1>1 DEF Pending, Committed, Failed
<1> QED
  BY <1>1, <1>2 DEF Outcomes, ImportOutcome

\* A new plan tells that nothing has happened yet.
LEMMA OutcomePlanned ==
    ASSUME ImportTypeOK, Outcomes, NEW i \in Imports, NEW j \in Imports, NEW ps \in NotEmpty,
           imports[i] = NoImport, imports'[i] = Plan(j, ps), UNCHANGED receipts
    PROVE  (Planned(i) => ImportOutcome(i))' /\ imports'[i].state # "none"
<1>1. /\ imports'[i].state = "awaiting_confirmation" /\ Items(i)' = ps
      /\ \A p \in ps : Item(i, p)'.state = "pending"
  BY PlanRecord DEF Items, Item
<1>2. \A p \in ps : <<i, p>> \notin receipts
  BY DEF Outcomes, NoImport, NotEmpty
<1>3. Pending(i)' = Items(i)'
  BY <1>1 DEF Pending
<1> QED
  BY <1>1, <1>2, <1>3 DEF ImportOutcome

\* An import that is given up keeps what was committed.
LEMMA OutcomeStopped ==
    ASSUME ImportTypeOK, Outcomes, NEW i \in Imports, NEW state, NEW stopped \in SUBSET Pending(i),
           \/ imports[i].state = "awaiting_confirmation" /\ state = "rejected"
           \/ imports[i].state = "approved" /\ state = "cancelled",
           imports'[i] = ImportStopped(i, stopped, state), UNCHANGED receipts
    PROVE  (Planned(i) => ImportOutcome(i))' /\ imports'[i].state # "none"
<1>1. Planned(i)
  BY DEF Planned
<1>2. /\ imports'[i].state = state /\ Items(i)' = Items(i)
      /\ \A p \in Items(i) : Item(i, p)'.state = IF p \in stopped THEN state
                                                 ELSE Item(i, p).state
  BY <1>1, StoppedRecord DEF Items, Item
<1>3. ImportOutcome(i)
  BY <1>1 DEF Outcomes
<1>4. \A p \in Items(i) : Item(i, p)'.state = "committed" <=> Item(i, p).state = "committed"
  BY <1>2 DEF Pending
<1>5. Committed(i)' = Committed(i)
  BY <1>2, <1>4 DEF Committed
<1>6. state = "rejected" => Committed(i) = {}
  BY <1>3 DEF ImportOutcome, Committed, Pending
<1> QED
  BY <1>2, <1>3, <1>4, <1>5, <1>6 DEF ImportOutcome

\* A failed item makes its import partial or failed, unless it was cancelled.
LEMMA OutcomeFails ==
    ASSUME ImportTypeOK, Outcomes, NEW i \in Imports, NEW p \in Pending(i),
           imports[i].state \in {"approved", "cancelled"},
           imports' = Fail(i, p), UNCHANGED receipts
    PROVE  Outcomes'
<1> DEFINE state == IF imports[i].state = "approved" THEN AfterFailure(i) ELSE imports[i].state
<1>1. Planned(i) /\ p \in Items(i)
  BY DEF Planned, Pending
<1>2. state \in ImportStates /\ ImportMoves(i, p, "failed", state)
  BY <1>1, FailMoves
<1> HIDE DEF state
<1>3. "failed" \in ItemStates
  BY DEF ItemStates
<1>4. /\ \A j \in Imports \ {i} : imports'[j] = imports[j]
      /\ Items(i)' = Items(i) /\ imports'[i].state = state
      /\ imports'[i].confirmed = imports[i].confirmed
      /\ \A q \in Items(i) :
            Item(i, q)'.state = IF q = p THEN "failed" ELSE Item(i, q).state
  BY <1>1, <1>2, <1>3, ItemMoves
<1>5. ImportOutcome(i)
  BY <1>1 DEF Outcomes
<1>6. Committed(i)' = Committed(i) /\ p \in Failed(i)'
  BY <1>1, <1>4 DEF Committed, Failed, Pending
<1>7. \A q \in Items(i) : Item(i, q)'.state = "committed" <=> <<i, q>> \in receipts
  BY <1>4, <1>5 DEF ImportOutcome, Pending
<1>8. state \in {"partial", "failed", "cancelled"} /\ (state = "partial" => Committed(i) # {})
      /\ (state = "failed" => Committed(i) = {})
  BY DEF state, AfterFailure
<1>9. (Planned(i) => ImportOutcome(i))' /\ imports'[i].state # "none"
  BY <1>4, <1>6, <1>7, <1>8 DEF ImportOutcome
<1> QED
  BY <1>4, <1>9, OutcomeSame DEF Outcomes

\* A committed item has its receipt; the last one completes its import.
LEMMA OutcomeCommits ==
    ASSUME ImportTypeOK, Outcomes, NEW i \in Imports, NEW p \in Paths, Commit, applying = <<i, p>>,
           imports[i].state \in {"approved", "cancelled"}
    PROVE  Outcomes'
<1>1. /\ Planned(i) /\ p \in Pending(i) /\ p \in Items(i)
      /\ Settled(i, p) \in ImportStates /\ ImportMoves(i, p, "committed", Settled(i, p))
      /\ receipts' = receipts \cup {<<i, p>>}
  BY CommitMoves DEF Pending
<1>2. "committed" \in ItemStates
  BY DEF ItemStates
<1>3. /\ \A j \in Imports \ {i} : imports'[j] = imports[j]
      /\ Items(i)' = Items(i) /\ imports'[i].state = Settled(i, p)
      /\ imports'[i].confirmed = imports[i].confirmed
      /\ \A q \in Items(i) :
            Item(i, q)'.state = IF q = p THEN "committed" ELSE Item(i, q).state
  BY <1>1, <1>2, ItemMoves
<1>4. ImportOutcome(i)
  BY <1>1 DEF Outcomes
<1>5. \A q \in Items(i) : Item(i, q)'.state = "committed" <=> <<i, q>> \in receipts'
  BY <1>1, <1>3, <1>4 DEF ImportOutcome
<1>6. Committed(i)' = Committed(i) \cup {p} /\ Pending(i)' = Pending(i) \ {p}
  BY <1>1, <1>3 DEF Committed, Pending
<1>7. imports[i].state = "approved" =>
         /\ Items(i) = Pending(i) \cup Committed(i) /\ Failed(i) = {}
         /\ imports[i].confirmed
  BY <1>4 DEF ImportOutcome, Pending, Committed, Failed
<1>8. CASE Settled(i, p) = "completed"
  <2>1. Pending(i) = {p} /\ imports[i].state = "approved"
    BY <1>8 DEF Settled
  <2>2. Committed(i)' = Items(i)'
    BY <1>3, <1>6, <1>7, <2>1
  <2> QED
    BY <1>1, <1>3, <1>5, <1>8, <2>2, OutcomeSame DEF Outcomes, ImportOutcome
<1>9. CASE Settled(i, p) # "completed"
  <2>1. Settled(i, p) = imports[i].state
    BY <1>9 DEF Settled
  <2>2. imports[i].state = "approved" => Pending(i) # {p}
    BY <1>7, <1>9 DEF Settled
  <2>3. imports[i].state = "approved" =>
           Pending(i)' # {} /\ Items(i)' = Pending(i)' \cup Committed(i)'
    BY <1>1, <1>3, <1>6, <1>7, <2>2
  <2> QED
    BY <1>1, <1>3, <1>5, <1>7, <2>1, <2>3, OutcomeSame DEF Outcomes, ImportOutcome
<1> QED
  BY <1>8, <1>9

-----------------------------------------------------------------------------
(* The invariant through all steps. *)

\* The item an import commits or fails next is pending.
LEMMA FirstPending ==
    ASSUME NEW i \in Imports, NEW p \in First(i)
    PROVE  p \in Pending(i)
BY DEF First

\* Constants that differ.
LEMMA Distinct ==
    /\ Nil \notin Writes /\ Nil # "discovered" /\ Nil \notin Imports
    /\ \A p \in Paths : Output(p) # Nil /\ Output(p) \in Contents
    /\ Edited(0) # Nil /\ Edited(1) # Nil /\ {Edited(0), Edited(1), Nil} \subseteq Contents
    /\ \A p \in Paths : Output(p) \notin {Edited(0), Edited(1)}
BY ImportBounds DEF Writes, Output, Edited, Contents

\* What is applied is the write of a file.
LEMMA ApplyingWrite ==
    ASSUME ImportTypeOK, applying # Nil
    PROVE  \E i \in Imports, p \in Paths : applying = <<i, p>>
BY DEF ImportTypeOK, Writes

\* What a step makes of the imports, when it gives one of them another record.
LEMMA RetiredIsStopped ==
    ASSUME NEW i \in Imports
    PROVE  RetiredImport(i) = ImportStopped(i, Pending(i), "rejected")
BY DEF RetiredImport, ImportStopped

LEMMA ReplaceRecords ==
    ASSUME ImportTypeOK, NEW i \in Imports, NEW j \in Imports, Replace(i, j)
    PROVE  /\ i # j /\ Planned(i) /\ Items(i) \in NotEmpty
           /\ imports' = [k \in Imports |-> imports'[k]]
           /\ imports'[j] = Plan(j, Items(i))
           /\ imports'[i] \in {ImportStopped(i, Pending(i), "rejected"), imports[i]}
           /\ \A k \in Imports \ {i, j} : imports'[k] = imports[k]
<1>1. i # j /\ Planned(i)
  BY DEF Replace, NoImport, Planned
<1>2. PICK published \in BOOLEAN :
         imports' = [imports EXCEPT ![j] = Plan(j, Items(i)),
                                    ![i] = IF published THEN RetiredImport(i) ELSE imports[i]]
  BY <1>1 DEF Replace, ImportTypeOK
<1> QED
  BY <1>1, <1>2, RetiredIsStopped, PlannedRecord DEF ImportTypeOK

\* The record of an import that Cancel ends.
CancelState(i) == IF imports[i].state = "approved" THEN "cancelled" ELSE "rejected"
StoppedItems(i) == {p \in Items(i) : Stops(i, p)}

LEMMA CancelRecord ==
    ASSUME ImportTypeOK, NEW i \in Imports, CancelImport(i)
    PROVE  /\ Planned(i) /\ StoppedItems(i) \subseteq Pending(i)
           /\ imports' = [imports EXCEPT ![i] = ImportStopped(i, StoppedItems(i), CancelState(i))]
<1>1. Planned(i)
  BY DEF CancelImport, Planned
<1>2. imports[i] \in Records(Items(i))
  BY <1>1, PlannedRecord
<1> DEFINE items == [p \in Items(i) |-> IF Stops(i, p)
                                        THEN [Item(i, p) EXCEPT !.state = CancelState(i)]
                                        ELSE Item(i, p)]
<1>3. imports' = [imports EXCEPT ![i].state = CancelState(i), ![i].items = items]
  BY DEF CancelImport, CancelState
<1>4. items = [p \in Items(i) |-> IF p \in StoppedItems(i)
                                  THEN [Item(i, p) EXCEPT !.state = CancelState(i)]
                                  ELSE Item(i, p)]
  BY DEF StoppedItems
<1> HIDE DEF items
<1>5. imports' = [imports EXCEPT ![i] = [imports[i] EXCEPT !.state = CancelState(i),
                                                          !.items = items]]
  BY <1>2, <1>3 DEF ImportTypeOK, Records
<1> QED
  BY <1>1, <1>4, <1>5 DEF ImportStopped, StoppedItems, Stops

LEMMA TypeStep ==
    ASSUME ImportTypeOK, Rows, Outcomes, [ImportingNext]_importingVars
    PROVE  ImportTypeOK'
<1> DEFINE ImportTypes == /\ imports = [j \in Imports |-> imports[j]]
                          /\ \A j \in Imports : ImportRecorded(imports[j])
<1>a. Scanned \in [Paths -> Entries]
  BY ScannedEntries
<1>b. incidents + 1 \in Nat
  BY DEF ImportTypeOK
\* A step that gives an import another record.
<1>c. ASSUME NEW i \in Imports, NEW rec, imports' = [imports EXCEPT ![i] = rec], ImportRecorded(rec)
      PROVE  ImportTypes'
  BY <1>c, RecordedStep
\* A failed item.
<1>d. ASSUME NEW i \in Imports, NEW p \in Pending(i), imports' = Fail(i, p), Planned(i)
      PROVE  ImportTypes'
  <2>1. p \in Items(i) /\ "failed" \in ItemStates
    BY DEF Pending, ItemStates
  <2> QED
    BY <1>d, <2>1, FailMoves, ItemMoves
<1>e. ImportTypes
  BY DEF ImportTypeOK
<1> HIDE DEF ImportTypes
<1>1. ASSUME NEW i \in Imports, NEW ps \in NotEmpty, PrepareImport(i, ps)
      PROVE  ImportTypeOK'
  <2>1. ImportRecorded(Plan(i, ps))
    BY PlanRecord DEF ImportRecorded
  <2>2. ImportTypes'
    BY <1>1, <1>c, <2>1 DEF PrepareImport
  <2> QED
    BY <1>1, <1>a, <2>2 DEF PrepareImport, ImportTypeOK, ImportTypes
<1>2. ASSUME NEW i \in Imports, NEW j \in Imports, Replace(i, j)
      PROVE  ImportTypeOK'
  <2>1. ImportRecorded(Plan(j, Items(i))) /\ ImportRecorded(ImportStopped(i, Pending(i), "rejected"))
    BY <1>2, ReplaceRecords, PlanRecord, StoppedRecord DEF ImportRecorded
  <2>2. ImportTypes'
    BY <1>2, <2>1, ReplaceRecords DEF ImportTypeOK, ImportTypes
  <2> QED
    BY <1>2, <1>a, <2>2 DEF Replace, ImportTypeOK, ImportTypes
<1>3. ASSUME NEW i \in Imports, ApproveImport(i)
      PROVE  ImportTypeOK'
  <2> DEFINE rec == [imports[i] EXCEPT !.state = "approved", !.confirmed = TRUE]
  <2>1. imports[i] \in Records(Items(i)) /\ Items(i) \in NotEmpty
    BY <1>3, PlannedRecord DEF ApproveImport, Planned
  <2>2. ImportRecorded(rec)
    BY <2>1 DEF ImportRecorded, Records, ImportStates
  <2>3. imports' = imports \/ imports' = [imports EXCEPT ![i] = rec]
    BY <1>3, <2>1 DEF ApproveImport, ImportTypeOK, Records
  <2> HIDE DEF rec
  <2>4. ImportTypes'
    BY <1>c, <1>e, <2>2, <2>3 DEF ImportTypes
  <2> QED
    BY <1>3, <1>a, <2>4 DEF ApproveImport, ImportTypeOK, ImportTypes
<1>4. ASSUME NEW i \in Imports, CancelImport(i)
      PROVE  ImportTypeOK'
  <2>1. ImportRecorded(ImportStopped(i, StoppedItems(i), CancelState(i)))
    BY <1>4, CancelRecord, StoppedRecord, PlannedRecord DEF ImportRecorded, CancelState
  <2>2. ImportTypes'
    BY <1>4, <1>c, <2>1, CancelRecord
  <2> QED
    BY <1>4, <2>2 DEF CancelImport, ImportTypeOK, ImportTypes
<1>5. ASSUME NEW i \in Imports, ForgetImport(i)
      PROVE  ImportTypeOK'
  <2>1. ImportTypes'
    BY <1>5, <1>c DEF ForgetImport, ImportRecorded
  <2> QED
    BY <1>5, <2>1 DEF ForgetImport, ImportTypeOK, ImportTypes
<1>6. ASSUME NEW i \in Imports, NextFile(i)
      PROVE  ImportTypeOK'
  <2>1. PICK p \in First(i) :
           \/ /\ journal' = [journal EXCEPT ![<<i, p>>] = "pending"]
              /\ applying' = <<i, p>> /\ UNCHANGED imports
           \/ imports' = Fail(i, p) /\ UNCHANGED <<journal, applying>>
    BY <1>6 DEF NextFile
  <2>2. p \in Pending(i) /\ Planned(i) /\ p \in Paths
    BY <1>6, FirstPending, PlannedItem DEF NextFile, Planned, Pending
  <2>3. ImportTypes'
    BY <1>d, <1>e, <2>1, <2>2 DEF ImportTypes
  <2>4. /\ journal' \in [Writes -> {"none", "pending", "conflict"}]
        /\ applying' \in Writes \cup {Nil}
    BY <2>1, <2>2 DEF ImportTypeOK, Writes
  <2> QED
    BY <1>6, <1>a, <2>3, <2>4 DEF NextFile, ImportTypeOK, ImportTypes
<1>7. ASSUME NEW i \in Imports, RefuseWrite(i)
      PROVE  ImportTypeOK'
  <2>1. PICK p \in First(i) : imports' = Fail(i, p)
    BY <1>7 DEF RefuseWrite
  <2>2. ImportTypes'
    BY <1>7, <1>d, <2>1, FirstPending DEF RefuseWrite, Planned
  <2> QED
    BY <1>7, <1>a, <1>b, <2>2 DEF RefuseWrite, ImportTypeOK, ImportTypes
<1>8. CASE \E w \in Writes : Recover(w)
  BY <1>8 DEF Recover, ImportTypeOK
<1>9. CASE PutFile
  <2>1. applying[2] \in Paths
    BY <1>9 DEF PutFile, ImportTypeOK, Writes
  <2>2. disk' \in [Paths -> Contents]
    BY <1>9, <2>1, Distinct DEF PutFile, ImportTypeOK
  <2> QED
    BY <1>9, <2>2 DEF PutFile, ImportTypeOK
<1>10. CASE Conflict
  <2>1. PICK i \in Imports, p \in Paths : applying = <<i, p>>
    BY <1>10, ApplyingWrite DEF Conflict
  <2>2. p \in Pending(i) /\ Planned(i)
    BY <1>10, <2>1 DEF Conflict, Rows, Accepted, Planned
  <2>3. ImportTypes'
    BY <1>10, <1>d, <2>1, <2>2 DEF Conflict
  <2> QED
    BY <1>10, <2>3 DEF Conflict, ImportTypeOK, ImportTypes
<1>11. CASE Commit
  <2>1. PICK i \in Imports, p \in Paths : applying = <<i, p>>
    BY <1>11, ApplyingWrite DEF Commit
  <2>2. /\ Planned(i) /\ p \in Items(i)
        /\ Settled(i, p) \in ImportStates /\ ImportMoves(i, p, "committed", Settled(i, p))
    BY <1>11, <2>1, CommitMoves DEF Pending
  <2>3. ImportTypes'
    BY <2>2, ItemMoves DEF ImportTypes, ItemStates
  <2>4. files' \in [Paths -> Entries]
    <3>1. Item(i, p).target \in Entries /\ files[p] \in Entries
      BY <2>2, PlannedItem DEF PlanItems, ImportTypeOK
    <3>2. [id |-> Identity(i, p), revision |-> files[p].revision + 1, hash |-> Output(p)]
             \in Entries
      BY <3>1, Distinct DEF Entries, Identity
    <3> QED
      BY <1>11, <2>1, <3>2 DEF Commit, ImportTypeOK
  <2> QED
    BY <1>11, <2>3, <2>4 DEF Commit, ImportTypeOK, ImportTypes
<1>12. CASE WriteFails \/ VaultCrash
  BY <1>12, <1>b DEF WriteFails, VaultCrash, ImportTypeOK
<1>13. ASSUME NEW p \in Paths, NEW content \in {Edited(0), Nil}, UserWrites(p, content)
       PROVE  ImportTypeOK'
  <2>1. content \in Contents
    BY Distinct
  <2>2. [id |-> IF Scanned[p].id = Nil THEN "discovered" ELSE Scanned[p].id,
         revision |-> Scanned[p].revision + 1, hash |-> content] \in Entries
    BY <1>a, <2>1 DEF Entries
  <2>3. files' \in [Paths -> Entries]
    BY <1>13, <1>a, <2>2 DEF UserWrites
  <2> QED
    BY <1>13, <1>b, <2>1, <2>3 DEF UserWrites, ImportTypeOK
<1>14. ASSUME NEW p \in Paths, NEW content \in {Edited(1), Nil}, ExternalEdit(p, content)
       PROVE  ImportTypeOK'
  BY <1>14, <1>b, Distinct DEF ExternalEdit, ImportTypeOK
<1>15. CASE Reopen
  BY <1>15, <1>a DEF Reopen, ImportTypeOK
<1>16. CASE ReadFile \/ UNCHANGED importingVars
  BY <1>16 DEF ReadFile, importingVars, ImportTypeOK
<1> QED
  BY <1>1, <1>2, <1>3, <1>4, <1>5, <1>6, <1>7, <1>8, <1>9, <1>10, <1>11, <1>12, <1>13,
     <1>14, <1>15, <1>16 DEF ImportingNext, ImportNext, Apply, NotEmpty

\* The write that is applied is the only one accepted.
LEMMA OneRow ==
    ASSUME ImportTypeOK, Rows, applying # Nil
    PROVE  \E i \in Imports, p \in Paths :
              /\ applying = <<i, p>> /\ Accepted(i, p)
              /\ imports[i].state \in {"approved", "cancelled"} /\ Planned(i)
              /\ imports[i].confirmed /\ p \in Pending(i)
              /\ \A j \in Imports, q \in Paths : Accepted(j, q) => j = i /\ q = p
<1>1. PICK i \in Imports, p \in Paths : applying = <<i, p>>
  BY ApplyingWrite
<1> QED
  BY <1>1 DEF Rows, Accepted, Planned

\* A record that does not change keeps its pending items.
LEMMA SameRecord ==
    ASSUME NEW i \in Imports, imports'[i] = imports[i]
    PROVE  Pending(i)' = Pending(i) /\ Items(i)' = Items(i) /\ Planned(i)' = Planned(i)
BY DEF Pending, Items, Item, Planned

LEMMA RowsStep ==
    ASSUME ImportTypeOK, Rows, Outcomes, [ImportingNext]_importingVars
    PROVE  Rows'
\* Steps that accept nothing and leave every import that waits as it is.
<1>a. ASSUME UNCHANGED journal, applying' = applying \/ applying' = Nil,
             \A i \in Imports, p \in Paths :
                Accepted(i, p) => /\ imports'[i].state \in {"approved", "cancelled"}
                                  /\ imports'[i].confirmed = imports[i].confirmed
                                  /\ p \in Pending(i)'
      PROVE  Rows'
  BY <1>a DEF Rows, Accepted
\* Steps that leave no row, or find none.
<1>b. ASSUME applying' = Nil, \A i \in Imports, p \in Paths : ~Accepted(i, p)'
      PROVE  Rows'
  BY <1>b DEF Rows
<1>c. ASSUME UNCHANGED <<imports, journal>>, applying' = applying \/ applying' = Nil
      PROVE  Rows'
  BY <1>a, <1>c, SameRecord DEF Rows
\* Steps that leave every import that waits alone.
<1>d. ASSUME UNCHANGED journal, applying' = applying \/ applying' = Nil,
             \A i \in Imports, p \in Paths : Accepted(i, p) => imports'[i] = imports[i]
      PROVE  Rows'
  BY <1>a, <1>d, SameRecord DEF Rows
<1>1. ASSUME NEW i \in Imports, NEW ps \in NotEmpty, PrepareImport(i, ps)
      PROVE  Rows'
  <2>1. \A p \in Paths : ~Accepted(i, p)
    BY <1>1 DEF PrepareImport, Rows, NoImport
  <2>2. \A j \in Imports \ {i} : imports'[j] = imports[j]
    BY <1>1 DEF PrepareImport, ImportTypeOK
  <2> QED
    BY <1>1, <1>d, <2>1, <2>2 DEF PrepareImport
<1>2. ASSUME NEW i \in Imports, NEW j \in Imports, Replace(i, j)
      PROVE  Rows'
  <2>1. \A p \in Paths : ~Accepted(i, p) /\ ~Accepted(j, p)
    BY <1>2 DEF Replace, Rows, NoImport
  <2>2. \A k \in Imports \ {i, j} : imports'[k] = imports[k]
    BY <1>2, ReplaceRecords
  <2> QED
    BY <1>2, <1>d, <2>1, <2>2 DEF Replace
<1>3. ASSUME NEW i \in Imports, ApproveImport(i)
      PROVE  Rows'
  <2>1. \A p \in Paths : ~Accepted(i, p)
    BY <1>3 DEF ApproveImport, Rows
  <2>2. \A j \in Imports \ {i} : imports'[j] = imports[j]
    BY <1>3 DEF ApproveImport, ImportTypeOK
  <2> QED
    BY <1>3, <1>d, <2>1, <2>2 DEF ApproveImport
<1>4. ASSUME NEW i \in Imports, CancelImport(i)
      PROVE  Rows'
  <2>1. /\ imports'[i] = ImportStopped(i, StoppedItems(i), CancelState(i))
        /\ \A j \in Imports \ {i} : imports'[j] = imports[j]
    BY <1>4, CancelRecord DEF ImportTypeOK
  <2>2. ASSUME NEW p \in Paths, Accepted(i, p)
        PROVE  /\ imports'[i].state \in {"approved", "cancelled"}
               /\ imports'[i].confirmed = imports[i].confirmed
               /\ p \in Pending(i)'
    <3>1. p \in Pending(i) /\ p \in Items(i) /\ imports[i].state = "approved"
      BY <1>4, <2>2 DEF Rows, Pending, CancelImport
    <3>2. p \notin StoppedItems(i)
      BY <2>2 DEF StoppedItems, Stops, Accepted
    <3>3. /\ imports'[i].state = "cancelled" /\ imports'[i].confirmed = imports[i].confirmed
          /\ Items(i)' = Items(i) /\ Item(i, p)'.state = Item(i, p).state
      BY <1>4, <2>1, <3>1, <3>2, CancelRecord, StoppedRecord DEF CancelState, Items, Item
    <3> QED
      BY <3>1, <3>3 DEF Pending
  <2>3. ASSUME NEW j \in Imports \ {i}, NEW p \in Paths, Accepted(j, p)
        PROVE  /\ imports'[j].state \in {"approved", "cancelled"}
               /\ imports'[j].confirmed = imports[j].confirmed
               /\ p \in Pending(j)'
    BY <2>1, <2>3, SameRecord DEF Rows
  <2>4. UNCHANGED <<journal, applying>>
    BY <1>4 DEF CancelImport
  <2> QED
    BY <1>a, <2>2, <2>3, <2>4
<1>5. ASSUME NEW i \in Imports, ForgetImport(i)
      PROVE  Rows'
  <2>1. \A p \in Paths : ~Accepted(i, p)
    BY <1>5 DEF ForgetImport, Rows, Accepted, Pending
  <2>2. \A j \in Imports \ {i} : imports'[j] = imports[j]
    BY <1>5 DEF ForgetImport, ImportTypeOK
  <2> QED
    BY <1>5, <1>d, <2>1, <2>2 DEF ForgetImport
<1>6. ASSUME NEW i \in Imports, NextFile(i)
      PROVE  Rows'
  <2>1. \A j \in Imports, p \in Paths : ~Accepted(j, p)
    BY <1>6 DEF NextFile, Writes, Accepted
  <2>2. PICK p \in First(i) :
           \/ /\ journal' = [journal EXCEPT ![<<i, p>>] = "pending"]
              /\ applying' = <<i, p>> /\ UNCHANGED imports
           \/ imports' = Fail(i, p) /\ UNCHANGED <<journal, applying>>
    BY <1>6 DEF NextFile
  <2>3. p \in Pending(i) /\ Planned(i) /\ p \in Paths
    BY <1>6, FirstPending, PlannedItem DEF NextFile, Planned, Pending
  <2>4. CASE /\ journal' = [journal EXCEPT ![<<i, p>>] = "pending"]
             /\ applying' = <<i, p>> /\ UNCHANGED imports
    <3>1. \A j \in Imports, q \in Paths : Accepted(j, q)' <=> j = i /\ q = p
      BY <2>1, <2>3, <2>4 DEF Accepted, ImportTypeOK, Writes
    <3>2. imports[i].confirmed /\ imports[i].state = "approved"
      BY <1>6, <2>3 DEF NextFile, Outcomes, ImportOutcome
    <3> QED
      BY <2>3, <2>4, <3>1, <3>2, SameRecord DEF Rows, Accepted
  <2>5. CASE UNCHANGED <<journal, applying>>
    BY <1>6, <1>b, <2>1, <2>5 DEF NextFile, VaultIdle, Accepted
  <2> QED
    BY <2>2, <2>4, <2>5
<1>7. ASSUME NEW i \in Imports, RefuseWrite(i)
      PROVE  Rows'
  BY <1>7, <1>b DEF RefuseWrite, VaultIdle, Writes, Accepted
<1>8. ASSUME NEW w \in Writes, Recover(w)
      PROVE  Rows'
  BY <1>8, SameRecord DEF Recover, Rows, Accepted
<1>9. CASE ReadFile \/ PutFile \/ WriteFails \/ VaultCrash
  BY <1>9, <1>c DEF ReadFile, PutFile, WriteFails, VaultCrash
<1>10. CASE Conflict \/ Commit
  <2>1. applying # Nil /\ applying' = Nil
    BY <1>10 DEF Conflict, Commit
  <2>2. \E state \in {"none", "conflict"} : journal' = [journal EXCEPT ![applying] = state]
    BY <1>10 DEF Conflict, Commit
  <2>3. PICK i \in Imports, p \in Paths :
           /\ applying = <<i, p>>
           /\ \A j \in Imports, q \in Paths : Accepted(j, q) => j = i /\ q = p
    BY <2>1, OneRow
  <2>4. \A j \in Imports, q \in Paths : ~Accepted(j, q)'
    BY <2>2, <2>3 DEF Accepted, ImportTypeOK, Writes
  <2> QED
    BY <1>b, <2>1, <2>4
<1>11. ASSUME NEW p \in Paths, NEW content, UserWrites(p, content) \/ ExternalEdit(p, content)
       PROVE  Rows'
  BY <1>11, <1>c DEF UserWrites, ExternalEdit
<1>12. CASE Reopen \/ UNCHANGED importingVars
  BY <1>12, <1>c DEF Reopen, importingVars
<1> QED
  BY <1>1, <1>2, <1>3, <1>4, <1>5, <1>6, <1>7, <1>8, <1>9, <1>10, <1>11, <1>12
     DEF ImportingNext, ImportNext, Apply, NotEmpty

LEMMA OutcomesStep ==
    ASSUME ImportTypeOK, Rows, Outcomes, [ImportingNext]_importingVars
    PROVE  Outcomes'
\* Steps that leave the imports and the receipts alone.
<1>a. ASSUME UNCHANGED <<imports, receipts>>
      PROVE  Outcomes'
  BY <1>a, OutcomeSame DEF Outcomes
\* Steps that change one import.
<1>b. ASSUME NEW i \in Imports, \A j \in Imports \ {i} : imports'[j] = imports[j],
             UNCHANGED receipts,
             (Planned(i) => ImportOutcome(i))' /\ imports'[i].state # "none"
      PROVE  Outcomes'
  BY <1>b, OutcomeSame DEF Outcomes
<1>1. ASSUME NEW i \in Imports, NEW ps \in NotEmpty, PrepareImport(i, ps)
      PROVE  Outcomes'
  <2>1. /\ \A j \in Imports \ {i} : imports'[j] = imports[j]
        /\ imports'[i] = Plan(i, ps)
    BY <1>1 DEF PrepareImport, ImportTypeOK
  <2> QED
    BY <1>1, <1>b, <2>1, OutcomePlanned DEF PrepareImport
<1>2. ASSUME NEW i \in Imports, NEW j \in Imports, Replace(i, j)
      PROVE  Outcomes'
  <2>1. (Planned(j) => ImportOutcome(j))' /\ imports'[j].state # "none"
    <3>1. imports[j] = NoImport /\ UNCHANGED receipts
      BY <1>2 DEF Replace
    <3>2. imports'[j] = Plan(j, Items(i)) /\ Items(i) \in NotEmpty
      BY <1>2, ReplaceRecords
    <3> QED
      BY <3>1, <3>2, OutcomePlanned
  <2>2. (Planned(i) => ImportOutcome(i))' /\ imports'[i].state # "none"
    <3>1. CASE imports'[i] = ImportStopped(i, Pending(i), "rejected")
      BY <1>2, <3>1, OutcomeStopped DEF Replace
    <3>2. CASE imports'[i] = imports[i]
      BY <1>2, <3>2, OutcomeSame DEF Replace
    <3> QED
      BY <1>2, <3>1, <3>2, ReplaceRecords
  <2> QED
    <3>1. UNCHANGED receipts
      BY <1>2 DEF Replace
    <3>2. ASSUME NEW k \in Imports
          PROVE  /\ (Planned(k) => ImportOutcome(k))'
                 /\ imports'[k].state = "none" => \A p \in Paths : <<k, p>> \notin receipts'
      <4>1. CASE k \in {i, j}
        BY <2>1, <2>2, <4>1
      <4>2. CASE k \notin {i, j}
        <5>1. imports'[k] = imports[k]
          BY <1>2, <4>2, ReplaceRecords
        <5> QED
          BY <3>1, <5>1, OutcomeSame
      <4> QED
        BY <4>1, <4>2
    <3> QED
      BY <3>2 DEF Outcomes
<1>3. ASSUME NEW i \in Imports, ApproveImport(i)
      PROVE  Outcomes'
  <2> DEFINE rec == [imports[i] EXCEPT !.state = "approved", !.confirmed = TRUE]
  <2>1. imports[i] \in Records(Items(i)) /\ Items(i) \in NotEmpty
    BY <1>3, PlannedRecord DEF ApproveImport, Planned
  <2>2. CASE UNCHANGED imports
    BY <1>3, <1>a, <2>2 DEF ApproveImport
  <2>3. CASE imports' = [imports EXCEPT ![i] = rec]
    <3>1. /\ \A j \in Imports \ {i} : imports'[j] = imports[j]
          /\ imports'[i].state = "approved" /\ imports'[i].confirmed
          /\ imports'[i].items = imports[i].items
      BY <2>1, <2>3 DEF ImportTypeOK, Records
    <3>2. Items(i)' = Items(i) /\ Pending(i)' = Pending(i) /\ Committed(i)' = Committed(i)
          /\ \A p : Item(i, p)' = Item(i, p)
      BY <3>1 DEF Items, Pending, Committed, Item
    <3>3. ImportOutcome(i)
      BY <1>3 DEF ApproveImport, Outcomes, Planned
    <3>4. ImportOutcome(i)'
      <4>1. Pending(i) = Items(i) /\ Items(i) # {} /\ UNCHANGED receipts
        <5>1. imports[i].state = "awaiting_confirmation" /\ UNCHANGED receipts
          BY <1>3 DEF ApproveImport
        <5> QED
          BY <2>1, <3>3, <5>1 DEF ImportOutcome, NotEmpty
      <4>2. \A p \in Items(i)' : Item(i, p)'.state = "committed" <=> <<i, p>> \in receipts'
        BY <3>2, <3>3, <4>1 DEF ImportOutcome
      <4>3. /\ imports'[i].confirmed /\ Pending(i)' # {}
            /\ Items(i)' = Pending(i)' \cup Committed(i)'
        <5>1. Committed(i) \subseteq Items(i)
          BY DEF Committed
        <5> QED
          BY <3>1, <3>2, <4>1, <5>1
      <4> QED
        BY <3>1, <4>2, <4>3 DEF ImportOutcome
    <3> QED
      BY <1>3, <1>b, <3>1, <3>4 DEF ApproveImport
  <2> QED
    BY <1>3, <2>1, <2>2, <2>3 DEF ApproveImport, ImportTypeOK, Records
<1>4. ASSUME NEW i \in Imports, CancelImport(i)
      PROVE  Outcomes'
  <2>1. /\ imports'[i] = ImportStopped(i, StoppedItems(i), CancelState(i))
        /\ \A j \in Imports \ {i} : imports'[j] = imports[j]
    BY <1>4, CancelRecord DEF ImportTypeOK
  <2>2. (Planned(i) => ImportOutcome(i))' /\ imports'[i].state # "none"
    <3>1. \/ imports[i].state = "awaiting_confirmation" /\ CancelState(i) = "rejected"
          \/ imports[i].state = "approved" /\ CancelState(i) = "cancelled"
      BY <1>4 DEF CancelImport, CancelState
    <3>2. StoppedItems(i) \in SUBSET Pending(i) /\ UNCHANGED receipts
      BY <1>4, CancelRecord DEF CancelImport
    <3> QED
      BY <2>1, <3>1, <3>2, OutcomeStopped
  <2> QED
    BY <1>4, <1>b, <2>1, <2>2 DEF CancelImport
<1>5. ASSUME NEW i \in Imports, ForgetImport(i)
      PROVE  Outcomes'
  <2>1. /\ \A j \in Imports \ {i} : imports'[j] = imports[j]
        /\ imports'[i].state = "forgotten"
    BY <1>5 DEF ForgetImport, ImportTypeOK
  <2> QED
    BY <1>5, <1>b, <2>1 DEF ForgetImport, Planned
<1>6. ASSUME NEW i \in Imports, NextFile(i)
      PROVE  Outcomes'
  <2>1. PICK p \in First(i) : UNCHANGED imports \/ imports' = Fail(i, p)
    BY <1>6 DEF NextFile
  <2> QED
    BY <1>6, <1>a, <2>1, FirstPending, OutcomeFails DEF NextFile
<1>7. ASSUME NEW i \in Imports, RefuseWrite(i)
      PROVE  Outcomes'
  BY <1>7, FirstPending, OutcomeFails DEF RefuseWrite
<1>8. CASE Conflict
  <2>1. PICK i \in Imports, p \in Paths :
           /\ applying = <<i, p>> /\ p \in Pending(i)
           /\ imports[i].state \in {"approved", "cancelled"}
    BY <1>8, OneRow DEF Conflict
  <2> QED
    BY <1>8, <2>1, OutcomeFails DEF Conflict
<1>9. CASE Commit
  <2>1. PICK i \in Imports, p \in Paths :
           applying = <<i, p>> /\ imports[i].state \in {"approved", "cancelled"}
    BY <1>9, OneRow DEF Commit
  <2> QED
    BY <1>9, <2>1, OutcomeCommits
<1>10. ASSUME NEW w \in Writes, Recover(w)
       PROVE  Outcomes'
  BY <1>10, <1>a DEF Recover
<1>11. ASSUME NEW p \in Paths, NEW content, UserWrites(p, content) \/ ExternalEdit(p, content)
       PROVE  Outcomes'
  BY <1>11, <1>a DEF UserWrites, ExternalEdit
<1>12. CASE ReadFile \/ PutFile \/ WriteFails \/ VaultCrash \/ Reopen \/ UNCHANGED importingVars
  BY <1>12, <1>a DEF ReadFile, PutFile, WriteFails, VaultCrash, Reopen, importingVars
<1> QED
  BY <1>1, <1>2, <1>3, <1>4, <1>5, <1>6, <1>7, <1>8, <1>9, <1>10, <1>11, <1>12
     DEF ImportingNext, ImportNext, Apply, NotEmpty

\* A file never loses its identity.
LEMMA IdentityStays ==
    ASSUME ImportTypeOK, Rows, [ImportingNext]_importingVars, NEW p \in Paths, files[p].id # Nil
    PROVE  files'[p].id = files[p].id
<1>a. /\ Scanned \in [Paths -> Entries]
      /\ Scanned[p].id = files[p].id
  BY ScannedEntries
<1>1. CASE files' = Scanned \/ UNCHANGED files
  BY <1>1, <1>a
<1>2. ASSUME NEW q \in Paths, NEW content, UserWrites(q, content)
      PROVE  files'[p].id = files[p].id
  BY <1>2, <1>a DEF UserWrites, Entries
<1>3. CASE Commit
  <2>1. PICK i \in Imports, q \in Paths : applying = <<i, q>>
    BY <1>3, OneRow DEF Commit
  <2>2. files' = [files EXCEPT ![q] = [id |-> Identity(i, q),
                                       revision |-> files[q].revision + 1, hash |-> Output(q)]]
    BY <1>3, <2>1 DEF Commit
  <2> QED
    BY <2>2 DEF Identity, ImportTypeOK
<1>4. ASSUME \/ ReadFile \/ PutFile \/ Conflict \/ WriteFails \/ VaultCrash \/ Reopen
             \/ UNCHANGED importingVars
             \/ \E w \in Writes : Recover(w)
             \/ \E q \in Paths, content \in {Edited(1), Nil} : ExternalEdit(q, content)
      PROVE  files' = Scanned \/ UNCHANGED files
  BY <1>4 DEF ReadFile, PutFile, Conflict, WriteFails, VaultCrash, Reopen, importingVars,
              Recover, ExternalEdit
<1>5. ASSUME NEW i \in Imports,
             \/ \E ps \in NotEmpty : PrepareImport(i, ps)
             \/ \E j \in Imports : Replace(i, j)
             \/ ApproveImport(i) \/ CancelImport(i) \/ ForgetImport(i) \/ RefuseWrite(i) \/ NextFile(i)
      PROVE  files' = Scanned \/ UNCHANGED files
  BY <1>5 DEF PrepareImport, Replace, ApproveImport, CancelImport, ForgetImport, RefuseWrite, NextFile
<1> QED
  BY <1>1, <1>2, <1>3, <1>4, <1>5 DEF ImportingNext, ImportNext, Apply, NotEmpty

\* Which write a step accepts: that of the next file of an import.
LEMMA AcceptedOnlyNext ==
    ASSUME ImportTypeOK, Rows, [ImportingNext]_importingVars, NEW i \in Imports, NEW p \in Paths,
           ~Accepted(i, p), Accepted(i, p)'
    PROVE  /\ applying' = <<i, p>> /\ files' = Scanned /\ UNCHANGED imports
           /\ AsPlanned(Item(i, p).target, p)
<1>1. ASSUME NEW j \in Imports, NextFile(j)
      PROVE  /\ applying' = <<i, p>> /\ files' = Scanned /\ UNCHANGED imports
             /\ AsPlanned(Item(i, p).target, p)
  <2>1. PICK q \in First(j) :
           \/ /\ AsPlanned(Item(j, q).target, q)
              /\ journal' = [journal EXCEPT ![<<j, q>>] = "pending"]
              /\ applying' = <<j, q>> /\ UNCHANGED imports
           \/ UNCHANGED <<journal, applying>>
    BY <1>1 DEF NextFile
  <2>2. q \in Paths
    BY <1>1, FirstPending, PlannedItem DEF NextFile, Planned, Pending
  <2>3. CASE UNCHANGED journal
    BY <2>3 DEF Accepted
  <2>4. CASE journal' = [journal EXCEPT ![<<j, q>>] = "pending"]
    <3>1. i = j /\ p = q
      BY <2>2, <2>4 DEF Accepted, ImportTypeOK, Writes
    <3> QED
      BY <1>1, <2>1, <2>3, <3>1 DEF NextFile
  <2> QED
    BY <2>1, <2>3, <2>4
<1>2. ASSUME Conflict \/ Commit
      PROVE  FALSE
  <2>1. /\ applying \in Writes
        /\ \E state \in {"none", "conflict"} : journal' = [journal EXCEPT ![applying] = state]
    BY <1>2 DEF Conflict, Commit, ImportTypeOK
  <2> QED
    BY <2>1 DEF Accepted, ImportTypeOK, Writes
<1>3. CASE UNCHANGED journal
  BY <1>3 DEF Accepted
<1>4. ASSUME \/ ReadFile \/ PutFile \/ WriteFails \/ VaultCrash \/ Reopen
             \/ UNCHANGED importingVars
             \/ \E w \in Writes : Recover(w)
             \/ \E q \in Paths, content \in {Edited(0), Nil} : UserWrites(q, content)
             \/ \E q \in Paths, content \in {Edited(1), Nil} : ExternalEdit(q, content)
      PROVE  UNCHANGED journal
  BY <1>4 DEF ReadFile, PutFile, WriteFails, VaultCrash, Reopen, importingVars, Recover,
              UserWrites, ExternalEdit
<1>5. ASSUME NEW j \in Imports,
             \/ \E ps \in NotEmpty : PrepareImport(j, ps)
             \/ \E k \in Imports : Replace(j, k)
             \/ ApproveImport(j) \/ CancelImport(j) \/ ForgetImport(j) \/ RefuseWrite(j)
      PROVE  UNCHANGED journal
  BY <1>5 DEF PrepareImport, Replace, ApproveImport, CancelImport, ForgetImport, RefuseWrite
<1> QED
  BY <1>1, <1>2, <1>3, <1>4, <1>5 DEF ImportingNext, ImportNext, Apply, NotEmpty

\* When a row that stays is left alone: the vault is closed, or its write failed.
LEMMA RowsWait ==
    ASSUME ImportTypeOK, Rows, Identities, [ImportingNext]_importingVars, NEW i \in Imports, NEW p \in Paths,
           Accepted(i, p), Accepted(i, p)'
    PROVE  ~vaultOpen' \/ applying' = <<i, p>> \/ p \in FaultPaths
<1>a. ~vaultOpen \/ applying = <<i, p>> \/ p \in FaultPaths
  BY DEF Identities
<1>1. CASE UNCHANGED <<vaultOpen, applying>>
  BY <1>1, <1>a
<1>2. ASSUME NEW w \in Writes, Recover(w)
      PROVE  applying' = <<i, p>>
  BY <1>2 DEF Recover, Rows, Accepted, Writes
<1>3. ASSUME WriteFails
      PROVE  p \in FaultPaths
  BY <1>3, OneRow DEF WriteFails
<1>4. ASSUME NEW j \in Imports, NextFile(j)
      PROVE  FALSE
  BY <1>4 DEF NextFile, Accepted, Writes
<1>5. ASSUME Conflict \/ Commit
      PROVE  FALSE
  <2>1. /\ applying # Nil
        /\ \E state \in {"none", "conflict"} : journal' = [journal EXCEPT ![applying] = state]
    BY <1>5 DEF Conflict, Commit
  <2>2. applying = <<i, p>>
    BY <2>1, OneRow
  <2> QED
    BY <2>1, <2>2 DEF Accepted, ImportTypeOK, Writes
<1>6. ASSUME Reopen
      PROVE  FALSE
  BY <1>6 DEF Reopen, Accepted, Writes
<1>7. ASSUME VaultCrash
      PROVE  ~vaultOpen'
  BY <1>7 DEF VaultCrash
<1>8. ASSUME \/ ReadFile \/ PutFile \/ UNCHANGED importingVars
             \/ \E q \in Paths, content \in {Edited(0), Nil} : UserWrites(q, content)
             \/ \E q \in Paths, content \in {Edited(1), Nil} : ExternalEdit(q, content)
      PROVE  UNCHANGED <<vaultOpen, applying>>
  BY <1>8 DEF ReadFile, PutFile, importingVars, UserWrites, ExternalEdit
<1>9. ASSUME NEW j \in Imports,
             \/ \E ps \in NotEmpty : PrepareImport(j, ps)
             \/ \E k \in Imports : Replace(j, k)
             \/ ApproveImport(j) \/ CancelImport(j) \/ ForgetImport(j) \/ RefuseWrite(j)
      PROVE  UNCHANGED <<vaultOpen, applying>>
  BY <1>9 DEF PrepareImport, Replace, ApproveImport, CancelImport, ForgetImport, RefuseWrite
<1> QED
  BY <1>1, <1>2, <1>3, <1>4, <1>5, <1>6, <1>7, <1>8, <1>9
     DEF ImportingNext, ImportNext, Apply, NotEmpty

LEMMA IdentitiesStep ==
    ASSUME ImportTypeOK, Rows, Identities, [ImportingNext]_importingVars
    PROVE  Identities'
<1>1. \A p \in Paths \ FreshPaths : files'[p].id # Nil
  BY IdentityStays DEF Identities
<1>2. \A i \in Imports, p \in Paths :
         Accepted(i, p)' => ~vaultOpen' \/ applying' = <<i, p>> \/ p \in FaultPaths
  BY RowsWait, AcceptedOnlyNext
<1> QED
  BY <1>1, <1>2 DEF Identities

\* What a plan shows of a file is never changed while the plan is kept.
LEMMA TargetStays ==
    ASSUME ImportTypeOK, Rows, [ImportingNext]_importingVars, NEW i \in Imports, NEW p \in Paths, Accepted(i, p)
    PROVE  Item(i, p)'.target = Item(i, p).target
<1>a. /\ Planned(i) /\ p \in Items(i) /\ p \in Pending(i)
      /\ imports[i].state \in {"approved", "cancelled"}
  BY DEF Rows, Planned, Pending
<1>b. ASSUME imports'[i] = imports[i]
      PROVE  Item(i, p)'.target = Item(i, p).target
  BY <1>b DEF Item
\* A failed or committed item of any import.
<1>c. ASSUME NEW j \in Imports, NEW q \in Items(j), Planned(j), NEW item \in ItemStates,
             NEW state \in ImportStates, ImportMoves(j, q, item, state)
      PROVE  Item(i, p)'.target = Item(i, p).target
  BY <1>a, <1>b, <1>c, ItemMoves
<1>d. ASSUME NEW j \in Imports, NEW q \in Pending(j), Planned(j), imports' = Fail(j, q)
      PROVE  Item(i, p)'.target = Item(i, p).target
  BY <1>c, <1>d, FailMoves DEF Pending, ItemStates
<1>1. ASSUME NEW j \in Imports,
             \/ \E ps \in NotEmpty : PrepareImport(j, ps)
             \/ ApproveImport(j) \/ ForgetImport(j)
      PROVE  Item(i, p)'.target = Item(i, p).target
  <2>1. i # j
    BY <1>1, <1>a DEF PrepareImport, ApproveImport, ForgetImport, NoImport, Accepted
  <2> QED
    BY <1>1, <1>b, <2>1 DEF PrepareImport, ApproveImport, ForgetImport, ImportTypeOK
<1>2. ASSUME NEW j \in Imports, NEW k \in Imports, Replace(j, k)
      PROVE  Item(i, p)'.target = Item(i, p).target
  <2>1. i \notin {j, k}
    BY <1>2, <1>a DEF Replace, NoImport
  <2> QED
    BY <1>2, <1>b, <2>1, ReplaceRecords
<1>3. ASSUME NEW j \in Imports, CancelImport(j)
      PROVE  Item(i, p)'.target = Item(i, p).target
  <2>1. CASE j = i
    <3>1. imports'[i] = ImportStopped(i, StoppedItems(i), CancelState(i))
      BY <1>3, <2>1, CancelRecord DEF ImportTypeOK
    <3> QED
      BY <1>a, <3>1, StoppedRecord DEF Item, CancelState
  <2>2. CASE j # i
    BY <1>3, <1>b, <2>2, CancelRecord DEF ImportTypeOK
  <2> QED
    BY <2>1, <2>2
<1>4. ASSUME NEW j \in Imports, NextFile(j) \/ RefuseWrite(j)
      PROVE  Item(i, p)'.target = Item(i, p).target
  BY <1>4, <1>b, <1>d, FirstPending DEF NextFile, RefuseWrite, Planned
<1>5. CASE Conflict
  BY <1>5, <1>d, OneRow DEF Conflict
<1>6. CASE Commit
  <2>1. PICK j \in Imports, q \in Paths : applying = <<j, q>>
    BY <1>6, OneRow DEF Commit
  <2> QED
    BY <1>6, <1>c, <2>1, CommitMoves DEF Pending, ItemStates
<1>7. ASSUME \/ ReadFile \/ PutFile \/ WriteFails \/ VaultCrash \/ Reopen
             \/ UNCHANGED importingVars
             \/ \E w \in Writes : Recover(w)
             \/ \E q \in Paths, content \in {Edited(0), Nil} : UserWrites(q, content)
             \/ \E q \in Paths, content \in {Edited(1), Nil} : ExternalEdit(q, content)
      PROVE  Item(i, p)'.target = Item(i, p).target
  BY <1>7, <1>b DEF ReadFile, PutFile, WriteFails, VaultCrash, Reopen, importingVars, Recover,
                    UserWrites, ExternalEdit
<1> QED
  BY <1>1, <1>2, <1>3, <1>4, <1>5, <1>6, <1>7 DEF ImportingNext, ImportNext, Apply, NotEmpty

\* While the vault is closed or a write is applied, only its commit changes
\* the catalogue.
LEMMA CatalogueWaits ==
    ASSUME ImportTypeOK, Rows, [ImportingNext]_importingVars, NEW i \in Imports, NEW p \in Paths,
           Accepted(i, p), Accepted(i, p)', ~VaultIdle
    PROVE  UNCHANGED files
<1>1. ASSUME Commit
      PROVE  FALSE
  <2>1. applying = <<i, p>>
    BY <1>1, OneRow DEF Commit
  <2> QED
    BY <1>1, <2>1 DEF Commit, Accepted, ImportTypeOK, Writes
<1>2. ASSUME Reopen
      PROVE  FALSE
  BY <1>2 DEF Reopen, Accepted, Writes
<1>3. ASSUME NEW j \in Imports,
             \/ \E ps \in NotEmpty : PrepareImport(j, ps)
             \/ \E k \in Imports : Replace(j, k)
             \/ ApproveImport(j) \/ RefuseWrite(j) \/ NextFile(j)
             \/ \E q \in Paths, content \in {Edited(0), Nil} : UserWrites(q, content)
      PROVE  FALSE
  BY <1>3 DEF PrepareImport, Replace, ApproveImport, RefuseWrite, NextFile, UserWrites
<1>4. ASSUME \/ ReadFile \/ PutFile \/ Conflict \/ WriteFails \/ VaultCrash
             \/ UNCHANGED importingVars
             \/ \E w \in Writes : Recover(w)
             \/ \E q \in Paths, content \in {Edited(1), Nil} : ExternalEdit(q, content)
             \/ \E j \in Imports : CancelImport(j) \/ ForgetImport(j)
      PROVE  UNCHANGED files
  BY <1>4 DEF ReadFile, PutFile, Conflict, WriteFails, VaultCrash, importingVars, Recover,
              ExternalEdit, CancelImport, ForgetImport
<1>5. (\E q \in Paths, content \in {Edited(0), Nil} : UserWrites(q, content)) => VaultIdle
  BY DEF UserWrites
<1> QED
  BY <1>1, <1>2, <1>3, <1>4, <1>5 DEF ImportingNext, ImportNext, Apply, NotEmpty

LEMMA KeepsIdentityStep ==
    ASSUME ImportTypeOK, Rows, Identities, FaultPaths \cap FreshPaths = {}, KeepsIdentity, [ImportingNext]_importingVars
    PROVE  KeepsIdentity'
<1> SUFFICES ASSUME NEW i \in Imports, NEW p \in Paths, Accepted(i, p)'
             PROVE  Identity(i, p)' = Item(i, p)'.target.id
  BY DEF KeepsIdentity
<1> DEFINE t == Item(i, p).target
<1>1. CASE ~Accepted(i, p)
  <2>1. /\ files' = Scanned /\ AsPlanned(t, p) /\ Item(i, p)' = Item(i, p)
    BY <1>1, AcceptedOnlyNext DEF Item
  <2>2. Scanned[p].id \in {Nil, t.id}
    BY <2>1 DEF AsPlanned
  <2> QED
    BY <2>1, <2>2 DEF Identity
<1>2. CASE Accepted(i, p)
  <2>1. Identity(i, p) = t.id /\ Item(i, p)'.target = t
    BY <1>2, TargetStays DEF KeepsIdentity
  <2>2. CASE files[p].id # Nil
    <3>1. files'[p].id = files[p].id
      BY <2>2, IdentityStays
    <3> QED
      BY <2>1, <2>2, <3>1 DEF Identity
  <2>3. CASE files[p].id = Nil
    <3>1. p \notin FaultPaths
      BY <2>3 DEF Identities
    <3>2. ~VaultIdle
      BY <1>2, <3>1, Distinct DEF Identities, VaultIdle, Writes
    <3>3. UNCHANGED files
      BY <1>2, <3>2, CatalogueWaits
    <3> QED
      BY <2>1, <2>3, <3>3 DEF Identity
  <2> QED
    BY <2>2, <2>3
<1> QED
  BY <1>1, <1>2

\* The write that is applied keeps in mind what it found, and what another
\* program writes meanwhile is unseen.
LEMMA LooksStep ==
    ASSUME ImportTypeOK, Looks, [ImportingNext]_importingVars
    PROVE  Looks'
\* No write has looked at its file.
<1>a. ASSUME current' = <<>>, unseen' \subseteq Paths
      PROVE  Looks'
  BY <1>a DEF Looks
<1>b. applying = Nil => current = <<>>
  BY DEF Looks
<1>1. ASSUME NEW i \in Imports,
             \/ \E ps \in NotEmpty : PrepareImport(i, ps)
             \/ \E j \in Imports : Replace(i, j)
             \/ ApproveImport(i) \/ CancelImport(i) \/ ForgetImport(i) \/ RefuseWrite(i)
             \/ NextFile(i)
      PROVE  Looks'
  <2>1. applying = Nil /\ UNCHANGED current /\ (unseen' = {} \/ UNCHANGED unseen)
    BY <1>1 DEF PrepareImport, Replace, ApproveImport, CancelImport, ForgetImport, RefuseWrite,
                NextFile, VaultIdle, AllSeen
  <2> QED
    BY <1>a, <1>b, <2>1 DEF Looks
<1>2. ASSUME \/ \E w \in Writes : Recover(w)
             \/ \E q \in Paths, content \in {Edited(0), Nil} : UserWrites(q, content)
             \/ Reopen
      PROVE  Looks'
  <2>1. applying = Nil /\ UNCHANGED current /\ (unseen' = {} \/ UNCHANGED unseen)
    BY <1>2 DEF Recover, UserWrites, Reopen, VaultIdle, AllSeen
  <2> QED
    BY <1>a, <1>b, <2>1 DEF Looks
<1>3. CASE Conflict \/ Commit \/ WriteFails \/ VaultCrash
  BY <1>3, <1>a DEF Conflict, Commit, WriteFails, VaultCrash, Looks
<1>4. CASE ReadFile
  <2>1. PICK i \in Imports, p \in Paths : applying = <<i, p>>
    BY <1>4, ApplyingWrite DEF ReadFile
  <2>2. /\ current' = <<disk[p]>> /\ disk[p] \in Contents /\ UNCHANGED <<disk, applying>>
        /\ unseen' \subseteq Paths
    BY <1>4, <2>1 DEF ReadFile, ImportTypeOK, Looks
  <2> QED
    BY <2>1, <2>2, ImportBounds DEF Looks, Writes
<1>5. CASE PutFile
  <2>1. PICK i \in Imports, p \in Paths : applying = <<i, p>>
    BY <1>5, ApplyingWrite DEF PutFile
  <2>2. /\ current' = <<Output(p)>> /\ disk'[p] = Output(p) /\ Output(p) \in Contents
        /\ applying' = applying /\ applying # Nil /\ unseen' \subseteq Paths
    BY <1>5, <2>1, Distinct DEF PutFile, ImportTypeOK, Looks
  <2> QED
    BY <2>1, <2>2 DEF Looks
<1>6. ASSUME NEW p \in Paths, NEW content \in {Edited(1), Nil}, ExternalEdit(p, content)
      PROVE  Looks'
  <2>1. /\ disk' = [disk EXCEPT ![p] = content] /\ unseen' = unseen \cup {p}
        /\ UNCHANGED <<current, applying>>
    BY <1>6 DEF ExternalEdit
  <2>2. applying # Nil => applying[2] \in Paths
    BY DEF ImportTypeOK, Writes
  <2>3. applying # Nil /\ applying[2] # p => disk'[applying[2]] = disk[applying[2]]
    BY <2>1, <2>2 DEF ImportTypeOK
  <2> QED
    BY <2>1, <2>3 DEF Looks
<1>7. CASE UNCHANGED importingVars
  BY <1>7 DEF importingVars, Looks
<1> QED
  BY <1>1, <1>2, <1>3, <1>4, <1>5, <1>6, <1>7 DEF ImportingNext, ImportNext, Apply, NotEmpty

-----------------------------------------------------------------------------
(* The theorems. *)

LEMMA InitImport == ImportingInit => ImportInv /\ KeepsIdentity
<1> SUFFICES ASSUME ImportingInit
             PROVE  ImportInv /\ KeepsIdentity
  OBVIOUS
<1>1. ImportTypeOK
  <2>1. disk \in [Paths -> Contents]
    BY Distinct DEF ImportingInit
  <2>2. files \in [Paths -> Entries]
    BY <2>1 DEF ImportingInit, Entries
  <2>3. imports = [i \in Imports |-> imports[i]] /\ \A i \in Imports : ImportRecorded(imports[i])
    BY DEF ImportingInit, ImportRecorded
  <2> QED
    BY <2>1, <2>2, <2>3, ImportBounds DEF ImportingInit, ImportTypeOK
<1>2. Rows /\ KeepsIdentity
  BY DEF ImportingInit, Rows, KeepsIdentity, Accepted, Writes
<1>3. Outcomes
  BY DEF ImportingInit, Outcomes, NoImport, Planned
<1>4. Identities
  BY Distinct DEF ImportingInit, Identities, Accepted, Writes
<1>5. Looks
  BY DEF ImportingInit, Looks
<1> QED
  BY <1>1, <1>2, <1>3, <1>4, <1>5 DEF ImportInv

\* In every behaviour at most one write of an import is accepted and waits, the
\* records, the receipts and the journal agree about it, and what it found at its
\* path is what is there unless another program has written there since.
THEOREM ImportInvariant == ImportingSpec => []ImportInv
<1>1. ImportingInit => ImportInv
  BY InitImport
<1>2. ImportInv /\ [ImportingNext]_importingVars => ImportInv'
  BY TypeStep, RowsStep, OutcomesStep, IdentitiesStep, LooksStep DEF ImportInv
<1> QED
  BY <1>1, <1>2, PTL DEF ImportingSpec

\* The record of an import tells what happened to its files.
THEOREM OutcomeToldHolds == ImportingSpec => []OutcomeTold
<1>1. ImportInv => OutcomeTold
  BY DEF ImportInv, Outcomes, ImportOutcome, OutcomeTold
<1> QED
  BY <1>1, ImportInvariant, PTL

\* An accepted write can always be completed, as long as no write to a path
\* that was new fails while the process goes on.
THEOREM RecoverySucceedsHolds ==
    ASSUME FaultPaths \cap FreshPaths = {}
    PROVE  ImportingSpec => []RecoverySucceeds
<1>1. ImportingInit => KeepsIdentity
  BY InitImport
<1>2. ImportInv /\ KeepsIdentity /\ [ImportingNext]_importingVars => KeepsIdentity'
  BY KeepsIdentityStep DEF ImportInv
<1>3. ImportInv /\ KeepsIdentity => RecoverySucceeds
  BY DEF ImportInv, Rows, KeepsIdentity, RecoverySucceeds, Completable, Accepted, Planned, Writes
<1> QED
  BY <1>1, <1>2, <1>3, ImportInvariant, PTL DEF ImportingSpec

\* An import replaces only the content that its confirmed plan showed, or what
\* another program wrote after the last look at the file.
THEOREM ReplacesOnlyReviewedHolds == ImportingSpec => ReplacesOnlyReviewed
<1> DEFINE Reviewed == \A p \in Paths :
                          disk'[p] # disk[p] /\ disk'[p] = Output(p) /\ applying # Nil =>
                             /\ imports[applying[1]].confirmed
                             /\ disk[p] = Item(applying[1], p).target.hash \/ p \in unseen
<1>1. ImportInv /\ [ImportingNext]_importingVars => [Reviewed]_importingVars
  <2> SUFFICES ASSUME ImportInv, ImportingNext, NEW p \in Paths,
                      disk'[p] # disk[p], disk'[p] = Output(p), applying # Nil
               PROVE  /\ imports[applying[1]].confirmed
                      /\ disk[p] = Item(applying[1], p).target.hash \/ p \in unseen
    BY DEF importingVars
  <2>1. CASE PutFile
    <3>1. PICK i \in Imports, q \in Paths : applying = <<i, q>> /\ imports[i].confirmed
      BY OneRow DEF ImportInv
    <3>2. p = q
      BY <2>1, <3>1 DEF PutFile, ImportInv, ImportTypeOK
    <3>3. current # <<>> /\ current[1] = Item(i, p).target.hash
      BY <2>1, <3>1, <3>2 DEF PutFile, Fits
    <3>4. disk[p] = current[1] \/ p \in unseen
      BY <3>1, <3>2, <3>3 DEF ImportInv, Looks
    <3> QED
      BY <3>1, <3>3, <3>4
  <2>2. ASSUME NEW q \in Paths, NEW content \in {Edited(1), Nil}, ExternalEdit(q, content)
        PROVE  FALSE
    BY <2>2, Distinct DEF ExternalEdit, ImportInv, ImportTypeOK
  <2>3. ASSUME NEW q \in Paths, NEW content, UserWrites(q, content)
        PROVE  FALSE
    BY <2>3 DEF UserWrites, VaultIdle
  <2>4. ASSUME \/ ReadFile \/ Conflict \/ Commit \/ WriteFails \/ VaultCrash \/ Reopen
               \/ \E w \in Writes : Recover(w)
        PROVE  FALSE
    BY <2>4 DEF ReadFile, Conflict, Commit, WriteFails, VaultCrash, Reopen, Recover
  <2>5. ASSUME NEW i \in Imports,
               \/ \E ps \in NotEmpty : PrepareImport(i, ps)
               \/ \E j \in Imports : Replace(i, j)
               \/ ApproveImport(i) \/ CancelImport(i) \/ ForgetImport(i) \/ RefuseWrite(i) \/ NextFile(i)
        PROVE  FALSE
    BY <2>5 DEF PrepareImport, Replace, ApproveImport, CancelImport, ForgetImport, RefuseWrite, NextFile
  <2> QED
    BY <2>1, <2>2, <2>3, <2>4, <2>5 DEF ImportingNext, ImportNext, Apply, NotEmpty
<1> QED
  BY <1>1, ImportInvariant, PTL DEF ImportingSpec, ReplacesOnlyReviewed
=============================================================================

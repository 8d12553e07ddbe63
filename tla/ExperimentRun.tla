--------------------------- MODULE ExperimentRun ---------------------------
(***************************************************************************)
(* Experiment runs of a vault: the durable records and their approvals     *)
(* (experiment_store.rs), the proposals of an agent (experiment_agent.rs), *)
(* the host's single runner and its worker thread (experiment_runner.rs,   *)
(* experiment_owner.rs, experiment_execution.rs) and the journal of what a *)
(* run leaves to clean up (experiment_cleanup*.rs).                        *)
(*                                                                         *)
(* One vault holds the records; when it is not open, another one is.       *)
(* Everything an operation does under the workspace lock is one step; the  *)
(* worker thread and the start take a step for each durable or native      *)
(* effect, so that a crash may come between any two of them.               *)
(***************************************************************************)
EXTENDS Naturals, Sequences, FiniteSets

CONSTANTS
    Ops,        \* operation ids of runs
    None,
    MaxEvents,  \* bound on edits, user decisions, closes, expiries, faults and crashes
    MaxApprovals \* bound on approvals

ASSUME ExperimentAssumption ==
    /\ Ops # {} /\ None \notin Ops
    /\ {MaxEvents, MaxApprovals} \subseteq Nat

(* What may own the execution, and what the cleanup journal may name *)
Owners == [op : Ops, approval : Nat \cup {None}, cancelled : BOOLEAN]
Things == {"profile", "copies", "runtime", "runtime_grants", "source_grants", "job"}
Obligations == [op : Ops, phase : {"reserved", "creating", "created"}, noted : SUBSET Things]

ASSUME NoneIsAbsent == None \notin Nat /\ None \notin Owners /\ None \notin Obligations

VARIABLES
    runs,       \* experiment_runs: state, fingerprint, approval, outputs
    reviews,    \* experiment_agent_reviews: where the proposal of an agent stands
    asked,      \* agent starts that passed their check and have not started yet
    source,     \* the version of the source files in the vault
    open,       \* the vault is open
    runner,     \* who holds the runner's worker lock, and for which operation
    owner,      \* the host-wide execution owner, or None
    worker,     \* the registered worker thread
    native,     \* operating system objects that exist
    nameless,   \* source directories, still empty, that no journal row names yet
    obligation, \* the row of the cleanup journal, or None
    lease,      \* the cleanup lease is held by a run
    shown,      \* the cleanup review shown to the user, or None
    approvals,  \* how many approvals were given
    executed,   \* every process that was let run: its approval and inputs
    unstored,   \* operations whose result could not be stored since the vault was opened
    events      \* how many of the bounded events happened

store == <<runs, reviews>>
cleanup == <<obligation, lease>>
vars == <<store, asked, source, open, runner, owner, worker, native, nameless, cleanup, shown,
          approvals, executed, unstored, events>>

NoRun == [state |-> "none", print |-> 0, approval |-> None, outputs |-> FALSE]
NoWorker == [pc |-> "none", op |-> None, result |-> "none", outputs |-> FALSE]
Idle == [pc |-> "free", op |-> None]
Active == {"starting", "running", "cancel_requested"}

(* RunState::terminal *)
Terminal == {"completed", "failed", "cancelled", "limited", "interrupted", "rejected"}

Event == events < MaxEvents /\ events' = events + 1
Calm == UNCHANGED events

Alive == worker.pc \notin {"none", "done", "broken"}     \* broken: it ended with an error
RunnerFree == runner.pc = "free"
(* with_workspace; start holds the lock while it claims *)
WorkspaceFree == open /\ runner.pc # "reserved"
Holds(op) == IF owner = None THEN FALSE ELSE owner.op = op

Recorded == UNCHANGED <<asked, source, open, runner, worker, native, nameless, cleanup, shown,
                        executed, unstored>>

(***************************************************************************)
(* The records.                                                            *)
(***************************************************************************)
Awaiting(r) == [r EXCEPT !.state = "awaiting_confirmation", !.approval = None]
Invalid(r) == [r EXCEPT !.state = "failed", !.approval = None]

(* experiment_validate_current: the files must be the ones of the record. *)
Fingerprint == source                     \* read_selected: what the files are now
Unchanged(op) == runs[op].print = Fingerprint

(* experiment_prepare: the snapshot of the inputs is stored with the record *)
Proposal == [NoRun EXCEPT !.state = "awaiting_confirmation", !.print = Fingerprint]
Prepare(op) ==
    /\ WorkspaceFree /\ runs[op] = NoRun
    /\ runs' = [runs EXCEPT ![op] = Proposal]
    /\ UNCHANGED <<reviews, owner, approvals>> /\ Recorded /\ Calm

(* A proposal of the agent.  A pending one whose files changed is retired  *)
(* in the transaction that publishes its successor; a failure before that  *)
(* leaves a reservation that neither path will ever start.                 *)
Current == {op \in Ops : reviews[op] = "active"}
Stale(op) == runs[op].state = "awaiting_confirmation" /\ ~Unchanged(op)
Reserve(op) == [reviews EXCEPT ![op] = "reserved"]
Published(op) == [o \in Ops |-> IF o = op THEN "active"
                                ELSE IF o \in Current THEN "retired" ELSE reviews[o]]
Retired(op) == [o \in Ops |-> IF o = op THEN Proposal
                  ELSE IF o \in Current /\ runs[o].state = "awaiting_confirmation"
                  THEN [runs[o] EXCEPT !.state = "rejected"] ELSE runs[o]]
AgentPrepare(op) ==
    /\ WorkspaceFree /\ \A o \in Current : Stale(o)
    /\ reviews[op] = "none" /\ runs[op] = NoRun
    /\ UNCHANGED <<owner, approvals>> /\ Recorded
    /\ \/ Calm /\ reviews' = Published(op) /\ runs' = Retired(op)
       \/ Event /\ reviews' = Reserve(op) /\ runs' \in {runs, [runs EXCEPT ![op] = Proposal]}

(* experiment_approve, from the confirmation of a manual run or of the     *)
(* agent's current proposal                                                *)
Approvable(op) == reviews[op] \in {"none", "active"}
Approve(op) ==
    /\ WorkspaceFree /\ Approvable(op) /\ runs[op].state = "awaiting_confirmation"
    /\ approvals < MaxApprovals
    /\ IF Unchanged(op)
       THEN /\ approvals' = approvals + 1
            /\ runs' = [runs EXCEPT ![op].state = "approved", ![op].approval = approvals + 1]
       ELSE runs' = [runs EXCEPT ![op] = Invalid(@)] /\ UNCHANGED approvals
    /\ UNCHANGED <<reviews, owner>> /\ Recorded /\ Calm

(* experiment_reject *)
Reject(op) ==
    /\ WorkspaceFree /\ Event /\ runs[op].state = "awaiting_confirmation"
    /\ runs' = [runs EXCEPT ![op].state = "rejected"]
    /\ UNCHANGED <<reviews, owner, approvals>> /\ Recorded

(* experiment_cancel *)
Cancelled(r) ==
    CASE r.state \in {"awaiting_confirmation", "approved"} -> [r EXCEPT !.state = "cancelled"]
      [] r.state \in {"starting", "running"} -> [r EXCEPT !.state = "cancel_requested"]
      [] OTHER -> r

(* RunOwner::request_cancel: the record first, then the signal *)
Signalled(op) == IF Holds(op) THEN [owner EXCEPT !.cancelled = TRUE] ELSE owner
Cancel(op) ==
    /\ WorkspaceFree /\ Event /\ runs[op].state # "none"
    /\ runs' = [runs EXCEPT ![op] = Cancelled(@)]
    /\ owner' = Signalled(op)
    /\ UNCHANGED <<reviews, approvals>> /\ Recorded

(* forget_in_vault and experiment_forget: only a tombstone stays *)
Forget(op) ==
    /\ WorkspaceFree /\ RunnerFree
    /\ IF obligation = None THEN TRUE ELSE obligation.op # op
    /\ ~(Alive /\ worker.op = op)
    /\ runs[op].state \in Terminal
    /\ runs' = [runs EXCEPT ![op] = [NoRun EXCEPT !.state = "forgotten"]]
    /\ UNCHANGED <<reviews, owner, approvals>> /\ Recorded /\ Event

Edit == /\ Event /\ source' = source + 1
        /\ UNCHANGED <<store, asked, open, runner, owner, worker, native, nameless, cleanup, shown,
                       approvals, executed, unstored>>

StoreActions ==
    \/ \E op \in Ops : \/ Prepare(op) \/ AgentPrepare(op) \/ Approve(op) \/ Reject(op)
                       \/ Cancel(op) \/ Forget(op)
    \/ Edit

(***************************************************************************)
(* Starting a run.                                                         *)
(***************************************************************************)
Starting == UNCHANGED <<reviews, source, open, native, nameless, shown, approvals, executed, unstored>>

(* dispatch_execution looks at the proposal and then lets the lock go. *)
AgentAsk(op) ==
    /\ WorkspaceFree /\ reviews[op] = "active" /\ runs[op].state = "approved" /\ op \notin asked
    /\ asked' = asked \cup {op}
    /\ UNCHANGED <<runs, runner, owner, worker, cleanup>> /\ Starting /\ Calm

GateOpen == obligation = None /\ ~lease     \* Gate::acquire, and no row is left
NewObligation(op) == [op |-> op, phase |-> "reserved", noted |-> {}]

(* start_in_vault: a worker that ended is joined, whatever its result; the *)
(* journal's gate comes before the approval is used.                       *)
BeginStart(op) ==
    /\ RunnerFree /\ WorkspaceFree /\ ~Alive
    /\ runs[op].state # "none"
    /\ op \in asked \/ reviews[op] = "none"
    /\ asked' = asked \ {op}
    /\ IF GateOpen
       THEN /\ obligation' = NewObligation(op) /\ lease' = TRUE
            /\ runner' = [pc |-> "reserved", op |-> op]
       ELSE UNCHANGED <<runner, cleanup>>
    /\ worker' = NoWorker
    /\ UNCHANGED <<runs, owner>> /\ Starting /\ Calm

(* Attempt::release_unstarted, which may fail and leave the row *)
Released == IF obligation = None THEN None
            ELSE IF obligation.phase = "reserved" THEN None ELSE obligation
Releases == obligation' = Released /\ lease' = (lease /\ Released # None)
MayRelease == obligation' \in {Released, obligation} /\ lease' = FALSE

Claimable(op) == runs[op].state = "approved"
NewOwner(op) == [op |-> op, approval |-> runs[op].approval, cancelled |-> FALSE]

(* experiment_claim: a refused claim takes the reservation back. *)
Claim ==
    /\ runner.pc = "reserved"
    /\ UNCHANGED <<asked, worker>> /\ Starting
    /\ LET op == runner.op IN
       \/ /\ Claimable(op) /\ Unchanged(op) /\ Calm
          /\ runs' = [runs EXCEPT ![op].state = "starting"]
          /\ owner' = NewOwner(op)
          /\ runner' = [runner EXCEPT !.pc = "claimed"] /\ UNCHANGED cleanup
       \/ /\ \/ ~Claimable(op) /\ Calm /\ UNCHANGED runs
             \/ Claimable(op) /\ ~Unchanged(op) /\ Calm
                /\ runs' = [runs EXCEPT ![op] = Invalid(@)]
             \/ Claimable(op) /\ Event /\ runs' = [runs EXCEPT ![op] = Awaiting(@)]  \* expired
             \/ Claimable(op) /\ Event /\ UNCHANGED runs     \* no quota, or stored inputs are bad
          /\ MayRelease
          /\ runner' = Idle /\ UNCHANGED owner

(* experiment_finish_outputs: a cancellation recorded before it wins *)
Outcome(op, result) == IF runs[op].state = "cancel_requested" THEN "cancelled" ELSE result

(* The thread starts; when it cannot, the run fails at once, if that can   *)
(* be stored.                                                              *)
Spawn ==
    /\ runner.pc = "claimed"
    /\ runner' = Idle
    /\ UNCHANGED <<reviews, asked, source, open, native, nameless, shown, approvals, executed>>
    /\ \/ /\ worker' = [NoWorker EXCEPT !.pc = "preflight", !.op = runner.op]
          /\ UNCHANGED <<runs, owner, cleanup, unstored>> /\ Calm
       \/ /\ Event /\ WorkspaceFree
          /\ MayRelease /\ owner' = None
          /\ \/ /\ runs' = [runs EXCEPT ![runner.op].state = Outcome(runner.op, "failed")]
                /\ UNCHANGED unstored
             \/ UNCHANGED runs /\ unstored' = unstored \cup {runner.op}
          /\ worker' = NoWorker

StartActions == (\E op \in Ops : AgentAsk(op) \/ BeginStart(op)) \/ Claim \/ Spawn

(***************************************************************************)
(* The worker thread up to the moment its process runs.  Each intent is in *)
(* the journal before its native effect.                                   *)
(***************************************************************************)
Processes == {"suspended", "running"}
Apart == UNCHANGED <<reviews, asked, source, open, runner, shown, approvals>>
Working == Apart /\ UNCHANGED <<nameless, unstored>>
At(pc) == worker.pc = pc
Go(pc) == worker' = [worker EXCEPT !.pc = pc]

(* An error unwinds: the process is terminated first, then every guard     *)
(* releases what it can; what it cannot stays in the journal.              *)
Unwound(result) ==
    /\ worker' = [worker EXCEPT !.pc = "ending", !.result = result]
    /\ UNCHANGED <<owner, cleanup, executed>>
    /\ native' = {}
UnwoundBadly(result) ==
    /\ Event
    /\ worker' = [worker EXCEPT !.pc = "ending", !.result = result]
    /\ UNCHANGED <<owner, cleanup, executed>>
    /\ native' = native \ Processes
Refused(result) == (Calm /\ Unwound(result)) \/ UnwoundBadly(result)

(* An update of the journal's row; note is what will exist from now on *)
Note(from, to, phase, note) ==
    /\ At(from) /\ Go(to) /\ Working
    /\ obligation' = [obligation EXCEPT !.phase = phase, !.noted = @ \cup note]
    /\ UNCHANGED <<runs, owner, native, lease, executed>> /\ Calm
(* A native effect *)
Make(from, to, things) ==
    /\ At(from) /\ Go(to) /\ Working
    /\ native' = (native \ {"suspended"}) \cup things
    /\ UNCHANGED <<runs, owner, cleanup, executed>> /\ Calm

BeforeCreate == Note("preflight", "creating", "creating", {})
CreateProfile == Make("creating", "profile", {"profile"})
RecordProfile == Note("profile", "created", "created", {})
(* The directory of the sources exists before its name is recorded, and    *)
(* holds bytes only afterwards.                                            *)
MakeFolder ==
    /\ At("created") /\ Go("folder") /\ Apart /\ Calm
    /\ nameless' = nameless + 1
    /\ UNCHANGED <<runs, owner, native, cleanup, executed, unstored>>
RecordSources ==
    /\ At("folder") /\ Go("noted_sources") /\ Apart /\ Calm
    /\ obligation' = [obligation EXCEPT !.noted = @ \cup {"copies"}]
    /\ nameless' = nameless - 1 /\ native' = native \cup {"copies"}
    /\ UNCHANGED <<runs, owner, lease, executed, unstored>>
CopySources == Make("noted_sources", "sources", {})
BindRuntime == Note("sources", "runtime", "created", {"runtime"})
NoteRuntimeGrants == Note("runtime", "noted_runtime", "created", {"runtime_grants"})
GrantRuntime == Make("noted_runtime", "granted_runtime", {"runtime_grants"})
NoteSourceGrants == Note("granted_runtime", "noted_grants", "created", {"source_grants"})
GrantSources == Make("noted_grants", "granted", {"source_grants"})
ConfigureJob == Note("granted", "job", "created", {"job"})
CreateSuspended == Make("job", "suspended", {"suspended"})

Preparing == {"preflight", "creating", "profile", "created", "folder", "noted_sources", "sources",
              "runtime", "noted_runtime", "granted_runtime", "noted_grants", "granted", "job",
              "suspended"}
(* A directory without a record is removed on the way out, if it can be. *)
PreparationFails ==
    /\ worker.pc \in Preparing /\ Event /\ Apart /\ UNCHANGED <<runs, unstored>>
    /\ nameless' \in IF At("folder") THEN {nameless - 1, nameless} ELSE {nameless}
    /\ worker' = [worker EXCEPT !.pc = "ending", !.result = "failed"]
    /\ UNCHANGED <<owner, cleanup, executed>>
    /\ native' \in {{}, native \ Processes}

(* NativePermit::issue: the last durable check, under the workspace lock *)
Issue ==
    /\ At("suspended") /\ WorkspaceFree /\ Working
    /\ LET op == worker.op IN
       \/ /\ owner.cancelled /\ Refused("cancelled") /\ UNCHANGED runs
       \/ /\ ~owner.cancelled
          /\ runs[op].state # "starting" \/ runs[op].approval # owner.approval
          /\ Refused("failed") /\ UNCHANGED runs
       \/ /\ ~owner.cancelled
          /\ runs[op].state = "starting" /\ runs[op].approval = owner.approval
          /\ \/ Event /\ runs' = [runs EXCEPT ![op] = Awaiting(@)] /\ Unwound("failed")
             \/ ~Unchanged(op) /\ runs' = [runs EXCEPT ![op] = Invalid(@)] /\ Refused("failed")
             \/ /\ Unchanged(op) /\ Calm
                /\ runs' = [runs EXCEPT ![op].state = "running"]
                /\ Go("issued") /\ UNCHANGED <<owner, native, cleanup, executed>>

Stopped == owner.cancelled          \* NativePermit::check

(* resume_experiment: the cancel watch is armed and asked first *)
Resume ==
    /\ At("issued") /\ Working /\ UNCHANGED runs
    /\ IF Stopped THEN Refused("cancelled")
       ELSE /\ Calm /\ Go("running")
            /\ native' = (native \ {"suspended"}) \cup {"running"}
            /\ executed' = Append(executed, [approval |-> owner.approval,
                                            print |-> runs[worker.op].print])
            /\ UNCHANGED <<owner, cleanup>>

PrepareActions ==
    \/ BeforeCreate \/ CreateProfile \/ RecordProfile \/ MakeFolder \/ RecordSources \/ CopySources
    \/ BindRuntime \/ NoteRuntimeGrants \/ GrantRuntime \/ NoteSourceGrants \/ GrantSources
    \/ ConfigureJob \/ CreateSuspended \/ PreparationFails \/ Issue \/ Resume

(***************************************************************************)
(* The run and its end.                                                    *)
(***************************************************************************)
(* The thread goes on only when the job is empty; a cancellation that its  *)
(* watch has seen is the cause that is reported.                           *)
Reported(result) == IF owner.cancelled THEN "cancelled" ELSE result
StopsWith(results) ==
    /\ At("running") /\ Working /\ Calm
    /\ \E result \in results :
          worker' = [worker EXCEPT !.pc = "stopped", !.result = Reported(result)]
    /\ native' = native \ {"running"}
    /\ UNCHANGED <<runs, owner, cleanup, executed>>
ProcessExits == StopsWith({"completed", "failed"})
LimitStops == StopsWith({"limited"})     \* the job's limits, its deadline, its disk budget
CaptureStops == StopsWith({"failed"})    \* a stream that cannot be read
EndProcess == ProcessExits \/ LimitStops \/ CaptureStops

(* experiment_outputs::collect: the files are valid as a whole or refused; *)
(* a capture that cannot be finished unwinds.                              *)
Collect ==
    /\ At("stopped") /\ Working /\ UNCHANGED <<runs, owner, cleanup, executed>>
    /\ \/ /\ Calm /\ UNCHANGED native
          /\ worker' = [worker EXCEPT !.pc = "collected", !.outputs = TRUE]
       \/ /\ Event /\ UNCHANGED native
          /\ worker' = [worker EXCEPT !.pc = "collected",
                                      !.result = IF @ = "completed" THEN "failed" ELSE @]
       \/ /\ Event /\ native' \in {{}, native}
          /\ worker' = [worker EXCEPT !.pc = "ending", !.result = "failed"]

(* One part of the cleanup; a part that fails does not keep the next ones  *)
(* from being tried.                                                       *)
Clean(from, to, things) ==
    /\ At(from) /\ Working /\ UNCHANGED <<runs, owner, cleanup, executed>>
    /\ \/ Calm /\ Go(to) /\ native' = native \ things
       \/ /\ Event /\ native \cap things # {} /\ UNCHANGED native
          /\ worker' = [worker EXCEPT !.pc = to, !.result = "failed"]
RevokeGrants == Clean("collected", "revoked", {"runtime_grants", "source_grants"})
RemoveSources == Clean("revoked", "unlinked", {"copies"})
RemoveProfile == Clean("unlinked", "cleaned", {"profile"})

(* Attempt::complete, with the proof that nothing is left *)
Complete ==
    /\ At("cleaned") /\ Working /\ Calm
    /\ Go("ending")
    /\ IF native = {} THEN obligation' = None /\ lease' = FALSE ELSE UNCHANGED cleanup
    /\ UNCHANGED <<runs, owner, native, executed>>

ReleaseUnstarted ==
    /\ At("ending") /\ Working
    /\ \/ Calm /\ Go("finishing") /\ Releases
       \/ /\ Event /\ UNCHANGED cleanup
          /\ worker' = [worker EXCEPT !.pc = "finishing", !.result = "failed"]
    /\ UNCHANGED <<runs, owner, native, executed>>

(* Defect: a run that failed before its process ran is left as it is. *)
DefectMine(op) == runs[op].approval = owner.approval /\ runs[op].state # "starting"
Mine(op) == runs[op].approval = owner.approval /\ runs[op].state \in Active

(* The result is stored unless the record has moved on; outputs that do    *)
(* not fit are refused as a whole.  When it cannot be stored (the lock, a  *)
(* bad report, no quota, the database) the record stays as it is and the   *)
(* thread ends with an error.  With the thread go its ownership and its    *)
(* lease.                                                                  *)
Ended(pc) == worker' = [NoWorker EXCEPT !.pc = pc, !.op = worker.op]
Finish ==
    /\ At("finishing") /\ WorkspaceFree /\ Apart /\ UNCHANGED nameless
    /\ LET op == worker.op IN
       \/ /\ ~Mine(op) /\ UNCHANGED <<runs, unstored>> /\ Calm /\ Ended("done")
       \/ /\ Mine(op) /\ UNCHANGED unstored /\ Calm /\ Ended("done")
          /\ runs' = [runs EXCEPT ![op].state = Outcome(op, worker.result),
                                  ![op].outputs = worker.outputs]
       \/ /\ Mine(op) /\ UNCHANGED unstored /\ Ended("done")
          /\ worker.outputs /\ Event                                 \* the quota of outputs
          /\ runs' = [runs EXCEPT ![op].state = Outcome(op, "failed")]
       \/ /\ Event /\ UNCHANGED runs /\ Ended("broken")
          /\ unstored' = IF Mine(op) THEN unstored \cup {op} ELSE unstored
    /\ owner' = None /\ lease' = FALSE
    /\ UNCHANGED <<native, obligation, executed>>

RunActions == \/ EndProcess \/ Collect \/ RevokeGrants \/ RemoveSources \/ RemoveProfile
              \/ Complete \/ ReleaseUnstarted \/ Finish

(***************************************************************************)
(* Closing and opening the vault, the end of the host.                     *)
(***************************************************************************)
(* transition_if and shutdown take the runner's lock, record the           *)
(* cancellation of the registered run if they can, signal it and wait for  *)
(* its thread.                                                             *)
BeginClose ==
    /\ RunnerFree /\ open /\ Event
    /\ runner' = [pc |-> "joining", op |-> worker.op]
    /\ runs' \in {runs} \cup {[runs EXCEPT ![op] = Cancelled(@)] : op \in Ops \cap {worker.op}}
    /\ owner' = IF Alive THEN [owner EXCEPT !.cancelled = TRUE] ELSE owner
    /\ UNCHANGED <<reviews, asked, source, open, worker, native, nameless, cleanup, shown, approvals,
                   executed, unstored>>
(* A thread that ended with an error aborts the change, and the change     *)
(* itself may fail: the vault stays open, without a worker.                *)
Close ==
    /\ runner.pc = "joining" /\ ~Alive
    /\ runner' = Idle /\ worker' = NoWorker
    /\ \/ worker.pc # "broken" /\ Calm /\ open' = FALSE
       \/ worker.pc = "broken" /\ Calm /\ UNCHANGED open
       \/ worker.pc # "broken" /\ Event /\ UNCHANGED open
    /\ UNCHANGED <<store, asked, source, owner, native, nameless, cleanup, shown, approvals, executed,
                   unstored>>

(* experiment_store::recover, when a workspace is opened *)
(* Defect: a run that was starting keeps its approval. *)
DefectRecovered(r) ==
    CASE r.state \in {"starting", "running"} -> [r EXCEPT !.state = "approved"]
      [] r.state = "cancel_requested" -> [r EXCEPT !.state = "interrupted"]
      [] r.state = "approved" -> Awaiting(r)
      [] OTHER -> r
Recovered(r) ==
    CASE r.state \in Active -> [r EXCEPT !.state = "interrupted"]
      [] r.state = "approved" -> Awaiting(r)
      [] OTHER -> r
Open ==
    /\ RunnerFree /\ ~open
    /\ open' = TRUE /\ runs' = [op \in Ops |-> Recovered(runs[op])] /\ unstored' = {}
    /\ UNCHANGED <<reviews, asked, source, runner, owner, worker, native, nameless, cleanup, shown,
                   approvals, executed>>
    /\ Calm

(* The job dies with the host's last handle; nothing else is released. *)
Crash ==
    /\ Event
    /\ open' = FALSE /\ runner' = Idle /\ owner' = None /\ worker' = NoWorker
    /\ lease' = FALSE /\ asked' = {} /\ shown' = None
    /\ native' = native \ Processes
    /\ UNCHANGED <<store, source, nameless, obligation, approvals, executed, unstored>>

(***************************************************************************)
(* Cleaning up after a run that could not do it itself.                    *)
(***************************************************************************)
Scope == [obligation |-> obligation, native |-> native]

(* Defect: an unknown creation counts as nothing to clean. *)
DefectVerifiable == ~lease /\ obligation # None
(* Preflight::inspect: under the lease, and never for an unknown creation *)
Verifiable == ~lease /\ IF obligation = None THEN FALSE ELSE obligation.phase # "creating"
Cleaned(things) ==
    /\ UNCHANGED <<store, asked, source, open, runner, owner, worker, nameless, lease, approvals,
                   executed, unstored>>
    /\ native' = native \ things

CleanupReview ==
    /\ Verifiable /\ shown # Scope
    /\ shown' = Scope
    /\ UNCHANGED obligation /\ Calm /\ Cleaned({})

(* Journal::recover: what the user saw must still be what there is; the    *)
(* row goes after the last object.                                         *)
Named == IF obligation.phase = "created"
             THEN {"profile"} \cup obligation.noted ELSE {}
(* Preflight::apply stops at its first failure. *)
Stages == {{"runtime_grants"}, {"runtime_grants", "source_grants", "copies"}}
RecoverCleanup ==
    /\ WorkspaceFree /\ Verifiable /\ shown = Scope
    /\ shown' = None
    /\ \/ Calm /\ obligation' = None /\ Cleaned(Named)
       \/ /\ Event /\ UNCHANGED obligation
          /\ \E things \in Stages : Cleaned(things)

HostActions == BeginClose \/ Close \/ Open \/ Crash \/ CleanupReview \/ RecoverCleanup

(***************************************************************************)
(* The specification.                                                      *)
(***************************************************************************)
Init ==
    /\ runs = [op \in Ops |-> NoRun] /\ reviews = [op \in Ops |-> "none"]
    /\ asked = {} /\ source = 1 /\ open = TRUE
    /\ runner = Idle /\ owner = None /\ worker = NoWorker
    /\ native = {} /\ nameless = 0 /\ obligation = None /\ lease = FALSE /\ shown = None
    /\ approvals = 0 /\ executed = <<>> /\ unstored = {} /\ events = 0

WorkerActions == PrepareActions \/ RunActions
Next == StoreActions \/ StartActions \/ WorkerActions \/ HostActions

(* Threads go on: the start under way, the worker (its process has a time  *)
(* limit) and the caller that waits for it.                                *)
Fairness == /\ WF_vars(Claim) /\ WF_vars(Spawn) /\ WF_vars(WorkerActions) /\ WF_vars(Close)
Spec == Init /\ [][Next]_vars /\ Fairness

(***************************************************************************)
(* Properties.                                                             *)
(***************************************************************************)
(* The shape of the state. *)
TypeOK ==
    /\ \A op \in Ops :
          /\ runs[op].state \in {"none", "awaiting_confirmation", "approved", "forgotten"}
                                  \cup Active \cup Terminal
          /\ runs[op].approval \in 1..MaxApprovals \cup {None}
          /\ reviews[op] \in {"none", "reserved", "active", "retired"}
    /\ Cardinality(Current) <= 1
    /\ native \subseteq Processes \cup {"profile", "copies", "runtime_grants", "source_grants"}
    /\ runner.pc \in {"free", "reserved", "claimed", "joining"}
    /\ owner # None => owner.op \in Ops /\ owner.cancelled \in BOOLEAN
    /\ obligation # None => obligation.phase \in {"reserved", "creating", "created"}

(* A process executes only while its vault is open and its record, still   *)
(* under the approval it was claimed with, says that it runs; every        *)
(* approval lets at most one process run, across cancellations, restarts   *)
(* and expiries (experiment_claim, NativePermit::issue).                   *)
ExecutionIsApproved ==
    /\ "running" \in native =>
          /\ open /\ owner # None
          /\ runs[owner.op].state \in {"running", "cancel_requested"}
          /\ runs[owner.op].approval = owner.approval
    /\ \A i, j \in 1..Len(executed) : executed[i].approval = executed[j].approval => i = j

(* What exists, apart from the profile itself, is named by the journal. *)
Owed ==
    native # {} =>
        /\ obligation # None
        /\ obligation.phase # "reserved"
        /\ native \ (Processes \cup {"profile"}) \subseteq obligation.noted
        /\ native \cap Processes # {} => "job" \in obligation.noted
NamelessAreFew == nameless <= events + (IF At("folder") THEN 1 ELSE 0)

(* Whatever a run made outside the vault is named by the cleanup journal   *)
(* until it is gone: no crash, failed cleanup or recovery in between loses *)
(* it (experiment_cleanup.rs).  The one exception is the directory of the  *)
(* sources between its creation and its record, while it is empty          *)
(* (create_inner): each one that stays nameless was left by a stop or a    *)
(* failure in between.                                                     *)
ResourcesAreOwed == Owed /\ NamelessAreFew

(* A run ends once: a final record changes only by being forgotten, and a  *)
(* run that was told to stop ends as cancelled, or as interrupted when the *)
(* host died first (experiment_finish_outputs, recover).                   *)
RunsEndOnce ==
    [][\A op \in Ops : runs'[op].state # runs[op].state =>
          /\ runs[op].state \in Terminal => runs'[op].state = "forgotten"
          /\ runs[op].state = "forgotten" => FALSE
          /\ runs[op].state = "cancel_requested" =>
                runs'[op].state \in {"cancelled", "interrupted"}]_vars

(* A claimed run does not stay claimed: its thread ends it, whatever fails *)
(* on the way, unless the vault goes away first or the result itself could *)
(* not be stored (start_in_vault, experiment_finish_outputs); such a run   *)
(* stays as it is until the vault is opened again (recover).               *)
RunsSettle == \A op \in Ops :
    (runs[op].state \in Active /\ open)
        ~> (runs[op].state \notin Active \/ ~open \/ op \in unstored)

(* Closing the vault waits for the run, and the run never for it. *)
CloseCompletes == (runner.pc = "joining") ~> (runner.pc # "joining")
=============================================================================

------------------------------ MODULE CoreHost ------------------------------
(***************************************************************************)
(* The desktop host and the Core process it supervises: core.rs,           *)
(* request_lifecycle.rs, workspace_broker.rs, records.rs, recent.rs,       *)
(* record_commands.rs and the commands of main.rs that join them.          *)
(*                                                                         *)
(* The window asks the host (core_request, core_stream); the host adds the *)
(* vault that is open and the secret of the Core session and sends the     *)
(* request to Core over HTTP; Core, to change the vault, asks the host     *)
(* back over the pipe of its session; the host's reader thread of that     *)
(* session executes the call on the vault that is open by then.  In        *)
(* between the vault may be switched, the request cancelled or retried     *)
(* under the same operation id, Core may die and be started again while    *)
(* calls of the dead one are still in the pipe.                            *)
(*                                                                         *)
(* A record is one file per kind of record in each vault; its content is   *)
(* named by the operation that wrote it.  WorkspaceJournal has the steps   *)
(* inside a write; here a write is one step, under the workspace lock.     *)
(***************************************************************************)
EXTENDS Naturals, FiniteSets

CONSTANTS
    Vaults,        \* directories a person may choose
    Requests,      \* requests of the window
    Streams,       \* the ones made with core_stream
    Puts,          \* operations of Core that write a record
    Deletes,       \* operations of Core that delete it
    Preferences,   \* operations of the window on a preference record
    Malformed,     \* operations whose record fails validation
    Absent,        \* the content of no file
    None,          \* no vault, no session, ...
    RequestLimit,  \* prepared requests kept (64)
    RestartLimit,  \* failures in five minutes before starts are refused (5)
    MaxStarts,     \* bound: Core processes started
    MaxEvents      \* bound: switches of the vault, cancellations, deadlines, ...

Ops == Puts \cup Deletes \cup Preferences

ASSUME ConstantsAssumption ==
    /\ Streams \subseteq Requests /\ Malformed \subseteq Ops
    /\ Puts \cap Deletes = {} /\ (Puts \cup Deletes) \cap Preferences = {}
    /\ Absent \notin Ops
    /\ None \notin Vaults \cup Requests \cup Ops \cup {Absent, "committed", "error"}
    /\ None \notin Nat /\ None \notin [start: Nat, owner: Requests \cup {None}]
    /\ RequestLimit \in Nat \ {0} /\ RestartLimit \in Nat
    /\ MaxStarts \in Nat /\ MaxEvents \in Nat

VARIABLES
    workspace,  \* the open vault
    recent,     \* table recent_vaults: the vaults a person chose
    disk,       \* per vault and kind of record: the content of its file
    receipts,   \* per vault: table operations
    session,    \* the supervisor's session: the start it came from
    starter,    \* the start in progress, under the lock of the supervisor
    procs,      \* the process group of each start
    failures,   \* how many failures the supervisor remembers
    waiting,    \* the back-off after the last one has not passed
    closed,     \* starts whose reader thread has ended
    entries,    \* request_lifecycle: the prepared requests
    expired,    \* requests whose deadline has passed
    req,        \* the requests, in the host
    core,       \* their handlers, in Core
    rpc,        \* requests whose call to the host is in the pipe
    intent,     \* what the window saw of the record when it made the operation
    asked,      \* history: per vault, the operations asked for while it was open
    applied,    \* history: per vault, how often an operation was applied
    early,      \* history: requests cancelled before they were sent
    exited,     \* the application has ended
    events      \* what is left of MaxEvents

vault == <<workspace, recent>>
files == <<disk, receipts, asked, applied>>
supervisor == <<session, starter, procs, failures, waiting, closed>>
lifecycle == <<entries, expired, early>>
work == <<req, core, rpc, intent>>
vars == <<vault, files, supervisor, lifecycle, work, exited, events>>

Starts == 1..MaxStarts
Kinds == {"core", "preference"}
Contents == Ops \cup {Absent}
Asking == {"session", "ready", "sent"}
Requested == [at: {"idle", "prepared", "done"} \cup Asking,
              op: Ops \cup {None}, vault: Vaults \cup {None}, start: 0..MaxStarts,
              told: {None, "committed", "error"}]

TypeOK ==
    /\ workspace \in Vaults \cup {None} /\ recent \subseteq Vaults
    /\ disk \in [Vaults -> [Kinds -> Contents]]
    /\ receipts \in [Vaults -> SUBSET Ops] /\ asked \in [Vaults -> SUBSET Ops]
    /\ applied \in [Vaults -> [Ops -> 0..2]]
    /\ session \in Starts \cup {None}
    /\ starter \in [start: Starts, owner: Requests \cup {None}] \cup {None}
    /\ procs \in [Starts -> {"none", "up", "headless", "gone"}]
    /\ failures \in Nat /\ waiting \in BOOLEAN
    /\ closed \subseteq Starts
    /\ entries \in [Requests -> {"none", "prepared", "claimed"}]
    /\ expired \subseteq Requests /\ early \subseteq Requests
    /\ req \in [Requests -> Requested]
    /\ core \in [Requests -> {"none", "asked", "committed", "refused"}]
    /\ rpc \subseteq Requests
    /\ intent \in [Ops -> Contents \cup {None}]
    /\ exited \in BOOLEAN /\ events \in 0..MaxEvents

Happens == ~exited /\ events > 0 /\ events' = events - 1
Alive(g) == procs[g] \in {"up", "headless"}

-----------------------------------------------------------------------------
(* The vault: workspace_choose, workspace_open, workspace_revoke *)

Remembered(v) == recent \cup {v}
Authorized(v) == v \in recent

\* open_workspace: under the lock of the workspace, unless it is open already.
\* Extension permits, instances and the sync cycle of the old one are revoked
\* on the way (ExtensionRuntime, SyncBinding).
Opened(v) == workspace # v /\ workspace' = v

\* A person picks a directory: it is remembered and opened.
Choose(v) ==
    /\ Happens /\ Opened(v)
    /\ recent' = Remembered(v)
    /\ UNCHANGED <<files, supervisor, lifecycle, work, exited>>

\* The window names a directory: only one that was chosen opens.
Open(v) ==
    /\ Happens /\ Authorized(v) /\ Opened(v)
    /\ UNCHANGED <<recent, files, supervisor, lifecycle, work, exited>>

Revoke ==
    /\ Happens /\ workspace # None
    /\ recent' = recent \ {workspace}
    /\ workspace' = None
    /\ UNCHANGED <<files, supervisor, lifecycle, work, exited>>

-----------------------------------------------------------------------------
(* Records: write_operation and mutate_operation on a record's path *)

KindOf(o) == IF o \in Preferences THEN "preference" ELSE "core"
\* A record's schema and data, by its kind: tasks, then the others.
ValidTask(o) == o \notin Malformed
ValidPreference(o) == o \notin Malformed
ValidRecord(o) == IF KindOf(o) = "core" THEN ValidTask(o) ELSE ValidPreference(o)
Result(o) == IF o \in Deletes THEN Absent ELSE o
\* What the operation replaces: the digest the window sent along.
Matches(v, o) ==
    /\ disk[v][KindOf(o)] = intent[o]
    /\ o \in Deletes => disk[v][KindOf(o)] # Absent

\* Defect: an operation id is not looked up.
ReceiptIgnored(v, o) == FALSE
\* The operation was committed by an earlier call.
Receipt(v, o) == o \in receipts[v]

Writable(v, o) == ~Receipt(v, o) /\ ValidRecord(o) /\ Matches(v, o)

Write(v, o) ==
    /\ disk' = [disk EXCEPT ![v][KindOf(o)] = Result(o)]
    /\ receipts' = [receipts EXCEPT ![v] = @ \cup {o}]
    /\ applied' = [applied EXCEPT ![v][o] = IF @ = 2 THEN 2 ELSE @ + 1]

\* Another call under a known id is answered from its receipt, or refused when
\* its bytes differ (a record carries the time of the attempt).
Outcomes(v, o) == IF Receipt(v, o) THEN {"committed", "refused"}
                  ELSE IF Writable(v, o) THEN {"committed"}
                  ELSE {"refused"}

\* Defect: the call is applied to whatever vault is open.
BoundToAny(v) == workspace # None
\* The vault a request was made in is still the open one.
Bound(v) == workspace # None /\ workspace = v

\* workspace_broker::dispatch, for every record, note and asset Core may write.
Broker(v, o) == IF Bound(v) /\ Writable(workspace, o)
                THEN Write(workspace, o)
                ELSE UNCHANGED <<disk, receipts, applied>>

\* The first time the window makes an operation it has seen the record; a retry
\* repeats what it sent.
Intend(v, o) ==
    intent' = IF intent[o] # None THEN intent
              ELSE [intent EXCEPT ![o] = disk[v][KindOf(o)]]

\* record_write: the window writes a preference record, naming its vault.
Prefer(v, o) ==
    /\ Happens
    /\ workspace # None /\ o \in Preferences
    /\ Intend(v, o)
    /\ asked' = IF workspace = v THEN [asked EXCEPT ![v] = @ \cup {o}] ELSE asked
    /\ IF Bound(v) /\ ~Receipt(workspace, o) /\ ValidRecord(o)
           /\ disk[workspace]["preference"] = intent'[o]
       THEN Write(workspace, o)
       ELSE UNCHANGED <<disk, receipts, applied>>
    /\ UNCHANGED <<vault, supervisor, lifecycle, req, core, rpc, exited>>

-----------------------------------------------------------------------------
(* The supervisor of Core *)

\* Defect: the group is not killed when its leader has already ended.
KilledLeader(g) == IF procs[g] = "headless" THEN "headless" ELSE "gone"
\* Drop for Session: the pipe is closed, and after at most five seconds the
\* whole process group is killed, its leader alive or not.
Killed(g) == "gone"

\* What dies with a process: its handlers, not the calls already in the pipe.
Buried(g) == [r \in Requests |-> IF req[r].start = g /\ core[r] = "asked"
                                 THEN "none" ELSE core[r]]

RecordFailure == failures' = failures + 1 /\ waiting' = TRUE

\* available: a session whose leader has ended is dropped.
Failed == session # None /\ procs[session] # "up"
Reap ==
    /\ procs' = [procs EXCEPT ![session] = Killed(session)]
    /\ core' = Buried(session)
    /\ session' = None
    /\ RecordFailure

\* host_capabilities, polled by the window, never waits for the supervisor.
Poll ==
    /\ ~exited /\ starter = None /\ Failed
    /\ Reap
    /\ UNCHANGED <<vault, files, starter, closed, lifecycle, req, rpc, intent,
                   exited, events>>

MayStart == failures <= RestartLimit /\ ~waiting
Unused == {g \in Starts : procs[g] = "none"}

\* verify_bundle, then the process group is spawned and given its secret.
Start(owner) ==
    /\ MayStart
    /\ \E g \in Unused :
       /\ \A h \in Unused : g <= h
       /\ starter' = [start |-> g, owner |-> owner]
       /\ procs' = [procs EXCEPT ![g] = "up"]

\* The start at the end of setup.
Boot ==
    /\ ~exited /\ starter = None /\ session = None
    /\ Unused = Starts
    /\ Start(None)
    /\ UNCHANGED <<vault, files, session, failures, waiting, closed, lifecycle,
                   work, exited, events>>

\* The request that waits for the start, if it still does.
Owner == IF starter.owner # None /\ req[starter.owner].at = "session"
         THEN {starter.owner} ELSE {}

\* verify_ready: protocol, identity, generation and proof agree; only then the
\* reader thread serves calls.
Ready ==
    /\ ~exited /\ starter # None /\ procs[starter.start] = "up"
    /\ session' = starter.start
    /\ req' = [r \in Requests |-> IF r \in Owner
                                  THEN [req[r] EXCEPT !.at = "ready", !.start = starter.start]
                                  ELSE req[r]]
    /\ starter' = None
    /\ waiting' = FALSE
    /\ UNCHANGED <<vault, files, procs, failures, closed, lifecycle, core, rpc,
                   intent, exited, events>>

\* The lease of a request is dropped.  Its handler and its call may live on.
Ended(r, told) ==
    /\ req' = [req EXCEPT ![r].at = "done", ![r].told = told,
                          ![r].start = IF r \in rpc \/ core[r] = "asked"
                                       THEN @ ELSE 0]
    /\ entries' = [entries EXCEPT ![r] = "none"]
    /\ expired' = expired \ {r}
    /\ early' = early \ {r}

\* The process cannot be spawned or ends, the frame is not valid, no frame in
\* thirty seconds, or a call before it: the session is dropped.
StartFails ==
    /\ Happens /\ starter # None
    /\ procs' = [procs EXCEPT ![starter.start] = "gone"]
    /\ closed' = closed \cup {starter.start}
    /\ RecordFailure
    /\ starter' = None
    /\ IF Owner = {} THEN UNCHANGED <<req, lifecycle>> ELSE Ended(starter.owner, "error")
    /\ UNCHANGED <<vault, files, session, core, rpc, intent, exited>>

\* The back-off passes; a failure is five minutes old.
BackoffEnds ==
    /\ ~exited /\ waiting /\ waiting' = FALSE
    /\ UNCHANGED <<vault, files, session, starter, procs, failures, closed,
                   lifecycle, work, exited, events>>
FailureAges ==
    /\ Happens /\ failures > 0
    /\ failures' = failures - 1
    /\ waiting' = (waiting /\ failures > 1)
    /\ UNCHANGED <<vault, files, session, starter, procs, closed, lifecycle,
                   work, exited>>

\* The whole group ends, or its leader alone (all starts but the last do, a
\* bound on crashes).
ProcessEnds(g, how) ==
    /\ ~exited /\ procs[g] = "up" /\ g = session /\ g < MaxStarts
    /\ procs' = [procs EXCEPT ![g] = how]
    /\ core' = IF how = "gone" THEN Buried(g) ELSE core
    /\ UNCHANGED <<vault, files, session, starter, failures, waiting, closed,
                   lifecycle, req, rpc, intent, exited, events>>

-----------------------------------------------------------------------------
(* A request of the window *)

Kept == {r \in Requests : \/ entries[r] = "claimed"
                          \/ entries[r] = "prepared" /\ r \notin expired}

\* Requests::prepare drops what nobody claimed in time, then counts.
Prepare(r, o) ==
    /\ ~exited /\ req[r].at = "idle" /\ r \notin Streams
    /\ workspace # None /\ o \in Puts \cup Deletes
    /\ Cardinality(Kept) < RequestLimit
    /\ Intend(workspace, o)
    /\ entries' = [q \in Requests |-> IF q = r THEN "prepared"
                                      ELSE IF q \in Kept THEN entries[q] ELSE "none"]
    /\ req' = [req EXCEPT ![r].at = "prepared", ![r].op = o]
    /\ UNCHANGED <<vault, files, supervisor, expired, early, core, rpc, exited, events>>

Deadline(r) ==
    /\ Happens /\ req[r].at \in {"prepared"} \cup Asking /\ r \notin Streams \cup expired
    /\ expired' = expired \cup {r}
    /\ UNCHANGED <<vault, files, supervisor, entries, early, work, exited>>

\* Defect: only a request that has begun can be cancelled.
ForgetClaimed(r) == IF entries[r] = "claimed" THEN [entries EXCEPT ![r] = "none"]
                    ELSE entries
\* Requests::cancel removes the reservation whether or not it was claimed.
Forget(r) == [entries EXCEPT ![r] = "none"]

\* core_request_cancel, core_stream_cancel.  The call of the command may still
\* be on its way; a stream that has not begun is not known and begins later.
Cancel(r) ==
    /\ Happens
    /\ IF r \in Streams
       THEN req[r].at \in Asking /\ Ended(r, "error")
       ELSE /\ req[r].at \in {"prepared"} \cup Asking
            /\ entries' = Forget(r)
            /\ early' = IF req[r].at = "sent" THEN early ELSE early \cup {r}
            /\ UNCHANGED <<req, expired>>
    /\ UNCHANGED <<vault, files, supervisor, core, rpc, intent, exited>>

Capture(r) ==
    asked' = IF workspace = None THEN asked
             ELSE [asked EXCEPT ![workspace] = @ \cup {req'[r].op}]

\* core_request notes the open vault, then claims its reservation.
Call(r) ==
    /\ ~exited /\ req[r].at = "prepared"
    /\ IF entries[r] = "none" \/ r \in expired
       THEN Ended(r, "error") /\ UNCHANGED asked
       ELSE /\ req' = [req EXCEPT ![r].at = "session", ![r].vault = workspace]
            /\ entries' = [entries EXCEPT ![r] = "claimed"]
            /\ UNCHANGED <<expired, early>>
            /\ Capture(r)
    /\ UNCHANGED <<vault, disk, receipts, applied, supervisor, core, rpc, intent,
                   exited, events>>

\* core_stream needs no reservation.
Stream(r, o) ==
    /\ ~exited /\ req[r].at = "idle" /\ r \in Streams
    /\ workspace # None /\ o \in Puts \cup Deletes
    /\ Intend(workspace, o)
    /\ req' = [req EXCEPT ![r].at = "session", ![r].op = o, ![r].vault = workspace]
    /\ Capture(r)
    /\ UNCHANGED <<vault, disk, receipts, applied, supervisor, lifecycle, core,
                   rpc, exited, events>>

\* The back-off, the limit, or files that are not those of the bundle.
RefuseStart(r) == Ended(r, "error") /\ UNCHANGED <<supervisor, core>>

\* request_session, under the lock of the supervisor: a live session, a start,
\* or a refusal.
GetSession(r) ==
    /\ ~exited /\ req[r].at = "session" /\ starter = None
    /\ \/ /\ session # None /\ ~Failed
          /\ req' = [req EXCEPT ![r].at = "ready", ![r].start = session]
          /\ UNCHANGED <<supervisor, lifecycle, core>>
       \/ /\ Failed /\ Reap /\ Ended(r, "error")
          /\ UNCHANGED <<starter, closed>>
       \/ /\ session = None /\ Start(r)
          /\ UNCHANGED <<session, failures, waiting, closed, req, lifecycle, core>>
       \/ session = None /\ RefuseStart(r)
    /\ UNCHANGED <<vault, files, rpc, intent, exited, events>>

\* Whether the cancellation of a request has been signalled.
Signalled(r) == r \notin Streams /\ entries[r] = "none"

\* Its handler (host_bridge.py) asks the host at once; without a vault it refuses.
Handle(r) ==
    IF req[r].vault = None
    THEN core' = [core EXCEPT ![r] = "refused"] /\ UNCHANGED rpc
    ELSE core' = [core EXCEPT ![r] = "asked"] /\ rpc' = rpc \cup {r}

\* The checkpoint and the first step of the send are one.
Send(r) ==
    /\ ~exited /\ req[r].at = "ready"
    /\ ~Signalled(r) /\ r \notin expired
    /\ IF Alive(req[r].start)
       THEN /\ req' = [req EXCEPT ![r].at = "sent"]
            /\ Handle(r)
            /\ UNCHANGED lifecycle
       ELSE Ended(r, "error") /\ UNCHANGED <<core, rpc>>
    /\ UNCHANGED <<vault, files, supervisor, intent, exited, events>>

\* Lease::run: the cancellation or the deadline wins.
Abandon(r) ==
    /\ ~exited /\ req[r].at \in Asking
    /\ Signalled(r) \/ r \in expired
    /\ Ended(r, "error")
    /\ UNCHANGED <<vault, files, supervisor, core, rpc, intent, exited, events>>

\* A response that breaks off or is too large is an error, whatever Core did.
Told(r) == IF core[r] = "committed" THEN {"committed", "error"} ELSE {"error"}

\* The response of Core, or the end of its process.
Answer(r) ==
    /\ ~exited /\ req[r].at = "sent" /\ core[r] \in {"committed", "refused", "none"}
    /\ \E told \in Told(r) : Ended(r, told)
    /\ core' = [core EXCEPT ![r] = "none"]
    /\ UNCHANGED <<vault, files, supervisor, rpc, intent, exited, events>>

-----------------------------------------------------------------------------
(* The reader thread of a session, and Core's handlers *)

\* The handler ends; nobody may be waiting for it any more.
Replied(r, result) == [core EXCEPT ![r] = IF req[r].at = "sent" THEN result ELSE "none"]

\* No answer in thirty seconds; the call stays in the pipe.
GiveUp(r) ==
    /\ Happens /\ core[r] = "asked"
    /\ core' = Replied(r, "refused")
    /\ UNCHANGED <<vault, files, supervisor, lifecycle, req, rpc, intent, exited>>

\* The thread can write its answer: the session was not dropped.
PipeOpen(g) == session = g /\ Alive(g)

\* The reader thread executes a call; when it cannot answer, it ends.
Dispatch(r) ==
    /\ ~exited /\ r \in rpc
    /\ LET g == req[r].start
           o == req[r].op
       IN /\ g \notin closed
          /\ Broker(req[r].vault, o)
          /\ IF PipeOpen(g)
             THEN /\ rpc' = rpc \ {r}
                  /\ \E result \in IF Bound(req[r].vault) THEN Outcomes(workspace, o)
                                   ELSE {"refused"} :
                        core' = IF core[r] = "asked" THEN Replied(r, result) ELSE core
                  /\ UNCHANGED closed
             ELSE /\ rpc' = {q \in rpc : req[q].start # g}
                  /\ closed' = closed \cup {g}
                  /\ UNCHANGED core
    /\ UNCHANGED <<vault, asked, session, starter, procs, failures, waiting,
                   lifecycle, req, intent, exited, events>>

-----------------------------------------------------------------------------
\* The application ends: the supervisor is dropped with its session.
Exit ==
    /\ Happens /\ starter = None
    /\ exited' = TRUE
    /\ procs' = IF session = None THEN procs
                ELSE [procs EXCEPT ![session] = Killed(session)]
    /\ session' = None
    /\ UNCHANGED <<vault, files, starter, failures, waiting, closed, lifecycle, work>>

\* Setup is over, and the window has opened the vault of an earlier run.
Init ==
    /\ workspace \in Vaults /\ recent = {workspace}
    /\ disk = [v \in Vaults |-> [k \in Kinds |-> Absent]]
    /\ receipts = [v \in Vaults |-> {}] /\ asked = [v \in Vaults |-> {}]
    /\ applied = [v \in Vaults |-> [o \in Ops |-> 0]]
    /\ session = None /\ starter = None
    /\ procs = [g \in Starts |-> "none"]
    /\ failures = 0 /\ waiting = FALSE /\ closed = {}
    /\ entries = [r \in Requests |-> "none"] /\ expired = {} /\ early = {}
    /\ req = [r \in Requests |-> [at |-> "idle", op |-> None, vault |-> None,
                                  start |-> 0, told |-> None]]
    /\ core = [r \in Requests |-> "none"] /\ rpc = {}
    /\ intent = [o \in Ops |-> None]
    /\ exited = FALSE /\ events = MaxEvents

Window ==
    \/ \E v \in Vaults : Choose(v) \/ Open(v) \/ \E o \in Preferences : Prefer(v, o)
    \/ Revoke
    \/ \E r \in Requests : \/ \E o \in Puts \cup Deletes : Prepare(r, o) \/ Stream(r, o)
                           \/ Call(r) \/ Cancel(r)

Supervisor == Poll \/ Boot \/ Ready \/ StartFails \/ BackoffEnds \/ FailureAges

Serving == \E r \in Requests :
    \/ GetSession(r) \/ Send(r) \/ Abandon(r) \/ Answer(r)
    \/ GiveUp(r) \/ Dispatch(r)

Environment ==
    \/ \E g \in Starts, how \in {"headless", "gone"} : ProcessEnds(g, how)
    \/ \E r \in Requests : Deadline(r)
    \/ Exit

Next == Window \/ Supervisor \/ Serving \/ Environment

Spec == Init /\ [][Next]_vars

-----------------------------------------------------------------------------
(* Properties *)

\* A vault only holds what was asked of it while it was the open one: a request
\* that is late, retried or answered by a dead Core never writes to the vault
\* that was opened since.
StaysInVault ==
    \A v \in Vaults, o \in Ops : applied[v][o] > 0 => o \in asked[v]

\* However often a request is retried under its operation id, and whichever
\* Core asks for it, its change is made once, and it is told as committed only
\* when it was made: a retry never brings a deleted record back.
ExactlyOnce ==
    /\ \A v \in Vaults, o \in Ops : applied[v][o] <= 1
    /\ \A r \in Requests : req[r].told = "committed" => applied[req[r].vault][req[r].op] = 1

\* A request that was cancelled before it was sent never reaches Core, even
\* when its command arrives after the cancellation.
CancelledNeverRuns ==
    \A r \in early : req[r].at # "sent"

\* At most one group of Core processes lives, with the data directory for
\* itself, and none when the application has ended.
OneCore ==
    /\ Cardinality({g \in Starts : Alive(g)}) <= 1
    /\ exited => \A g \in Starts : ~Alive(g)
=============================================================================

-------------------------- MODULE ExtensionRuntime --------------------------
(***************************************************************************)
(* A sandboxed extension process: its launch under a permit and a          *)
(* credential lease, the MCP session over its pipes, reviewed tool calls,  *)
(* the threads that kill it, and the release of what it held               *)
(* (extension_instance.rs, extension_permit.rs, extension_mcp.rs and the   *)
(* native modules below them; lock_credentials and replace_workspace of    *)
(* main.rs; unlock of credentials.rs).                                     *)
(*                                                                         *)
(* One slot is modelled, and of its instances the latest one: the registry *)
(* starts another only after the earlier thread has ended.  What an        *)
(* earlier one failed to release is kept in `leaked`.                      *)
(* Clocks are nondeterministic: a deadline may pass at any time.           *)
(***************************************************************************)
EXTENDS Naturals, Sequences, FiniteSets

CONSTANTS
    Contracts,      \* the tool contracts the server may publish
    Nil,
    QueuedCommands, \* capacity of the command channel (4 in the code)
    QueuedFrames,   \* capacity of the output channel (4 in the code)
    MaxPending,     \* reviews a gate keeps (64 in the code)
    MaxTickets,     \* bound on the commands sent to an instance
    MaxFrames,      \* bound on the frames an instance emits by itself
    MaxIncidents    \* bound on starts, stops, locks, unlocks, expiries and faults

ASSUME RuntimeAssumption ==
    /\ Nil \notin Contracts \cup Nat /\ Contracts # {}
    /\ {QueuedCommands, QueuedFrames, MaxPending, MaxTickets, MaxFrames, MaxIncidents} \subseteq Nat
    /\ QueuedFrames > 0

VARIABLES
    generation, \* Authority::generation
    signal,     \* the credential lock epoch
    unlocked,   \* the epoch the credentials were unlocked in, or Nil
    unlocking,  \* the epoch an unlock started in, or Nil: it holds the credentials
    host,       \* the lock or workspace switch in progress, and how far it is
    permit,     \* the generation a launch was approved in, or Nil
    registered, \* the registry holds the instance
    joining,    \* stop_and_join waits for the thread
    w,          \* the instance: its thread, process, watchers and resources
    session,    \* the MCP session of the instance
    tickets,    \* the commands sent to the instance
    queue,      \* the command channel
    frames,     \* the output channel of the pump
    reviews,    \* every review shown to the user and what became of it
    contract,   \* the contract the server publishes
    leaked,     \* an earlier instance left its container or its grants behind
    emitted,    \* how many frames the server emitted by itself
    incidents   \* how many of the bounded events happened

credentials == <<signal, unlocked, unlocking>>
roster == <<registered, joining, leaked>>
client == <<tickets, queue, reviews>>
server == <<frames, contract, emitted>>
instanceVars ==
    <<generation, credentials, host, permit, roster, w, session, client, server, incidents>>

Phases == {"none", "new", "profile", "granted", "lease", "bound", "build", "prepared",
           "leased", "suspended", "arming", "armed", "resumed", "init", "list", "ready", "publish",
           "loop", "confirmed", "waiting", "closing", "released", "unlinked", "done"}
Absent == [pc |-> "none", gen |-> 0, epoch |-> Nil, network |-> Nil, expired |-> FALSE,
           stop |-> FALSE, status |-> "failed", err |-> "none", profile |-> FALSE,
           acl |-> FALSE, proc |-> "none", watch |-> "none", tripped |-> FALSE]
Starting(g) == [Absent EXCEPT !.pc = "new", !.gen = g, !.status = "starting"]
NoSession == [failed |-> FALSE, catalog |-> Nil, changed |-> FALSE, epoch |-> 0,
              pending |-> {}, req |-> Nil, deadline |-> "none"]

Finished == w.pc \in {"none", "done"}
Locked == unlocked # signal                     \* CredentialBroker::is_locked

(* Defect: lock_credentials keeps the credentials while it waits for the instances. *)
DefectCredentialsFree ==
    unlocking = Nil /\ w.pc \notin {"lease", "bound", "build"} /\ host.pc # "joining"
CredentialsFree == unlocking = Nil /\ w.pc \notin {"lease", "bound", "build"}
RegistryFree == ~joining /\ host.pc # "joining"
Running == w.proc = "running"

(* Lease::check, for the launch lease and for the one of the network broker *)
Valid == w.gen = generation /\ w.epoch = signal /\ ~w.expired
NetworkValid == w.gen = generation /\ w.network = signal /\ ~w.expired
PermitVerified == w.gen = generation /\ ~w.expired   \* Authority::verify
(* Running::check_authorization *)
Authorized == ~w.tripped /\ w.watch = "armed" /\ Valid

Incident == incidents < MaxIncidents /\ incidents' = incidents + 1
Calm == UNCHANGED incidents

(***************************************************************************)
(* The command channel and the tickets of the clients.                     *)
(***************************************************************************)
Ticket(kind, review) == [kind |-> kind, review |-> review, cancel |-> FALSE, state |-> "queued"]
Over == [kind |-> "over", review |-> Nil, cancel |-> FALSE, state |-> "over"]
Settled(t) == tickets[t] = Over     \* answered, or told that the instance is gone
Answer(ts, t) == IF t = Nil THEN ts ELSE [ts EXCEPT ![t] = Over]

(* The receiver is dropped with the worker's frame: every waiting client is told. *)
Disconnected == [t \in DOMAIN tickets |-> Over]

HasRoom == Len(queue) < QueuedCommands          \* try_send

(* Endpoint::submit; only a review that was shown can be confirmed *)
Submit(kind, review) ==
    /\ w.status = "ready" /\ ~w.stop
    /\ w.pc \notin {"released", "unlinked", "done"}        \* the receiver exists
    /\ Len(tickets) < MaxTickets /\ HasRoom
    /\ tickets' = Append(tickets, Ticket(kind, review))
    /\ queue' = Append(queue, Len(tickets) + 1)
    /\ UNCHANGED <<generation, credentials, host, permit, roster, w, session, reviews, server>>
    /\ Calm

Request == \/ Submit("review", Nil) \/ Submit("refresh", Nil)
           \/ \E r \in DOMAIN reviews : Submit("invoke", r)

(* Ticket::cancel, and the drop of a ticket nobody waits for any more *)
Cancel(t) ==
    /\ Incident /\ ~Settled(t) /\ ~tickets[t].cancel
    /\ tickets' = [tickets EXCEPT ![t].cancel = TRUE]
    /\ UNCHANGED <<generation, credentials, host, permit, roster, w, session, queue, reviews,
                   server>>

(***************************************************************************)
(* Approval, start and stop.                                               *)
(***************************************************************************)
CleanupFailed == w.err = "cleanup"

(* Registry::reap *)
StillRegistered == IF Finished /\ ~CleanupFailed THEN FALSE ELSE registered
Leftover == leaked \/ w.profile \/ w.acl

(* Authority::issue, at the end of the activation's preparation *)
Issue == /\ permit = Nil /\ Incident
         /\ permit' = generation
         /\ UNCHANGED <<generation, credentials, host, roster, w, session, client, server>>

(* Registry::start: a permit of an earlier generation starts nothing, and  *)
(* neither does one for a slot whose instance has not ended.               *)
Start ==
    /\ permit # Nil /\ RegistryFree
    /\ permit' = Nil
    /\ UNCHANGED <<generation, credentials, host, joining>> /\ Calm
    /\ \/ /\ permit # generation \/ StillRegistered
          /\ registered' = StillRegistered
          /\ UNCHANGED <<leaked, w, session, client, server>>
       \/ /\ permit = generation /\ ~StillRegistered
          /\ registered' = TRUE
          /\ leaked' = Leftover
          /\ w' = Starting(permit) /\ session' = NoSession
          /\ tickets' = <<>> /\ queue' = <<>> /\ reviews' = <<>>
          /\ frames' = <<>> /\ emitted' = 0 /\ contract' = contract

(* Control::stop: the flag, the call in progress, then the status *)
CancelActive(ts) ==
    [t \in DOMAIN ts |-> IF ts[t].state = "active" THEN [ts[t] EXCEPT !.cancel = TRUE] ELSE ts[t]]
StopFlag == /\ w' = [w EXCEPT !.stop = TRUE]
            /\ tickets' = CancelActive(tickets)
StopStatus == w.stop /\ w.status \in {"starting", "ready"}
StatusFollows ==
    /\ StopStatus
    /\ w' = [w EXCEPT !.status = "stopping"]
    /\ UNCHANGED <<generation, credentials, host, permit, roster, session, client, server>>
    /\ Calm

(* Endpoint::stop, and Registry::stop_and_join up to its wait *)
Stop ==
    /\ Incident /\ RegistryFree /\ registered /\ ~w.stop
    /\ joining' = TRUE
    /\ StopFlag
    /\ UNCHANGED <<generation, credentials, host, permit, registered, leaked, session, queue,
                   reviews, server>>

(* The thread ended: its entry leaves unless its resources are in doubt. *)
Join ==
    /\ joining /\ Finished
    /\ joining' = FALSE
    /\ registered' = CleanupFailed
    /\ UNCHANGED <<generation, credentials, host, permit, leaked, w, session, client, server>>
    /\ Calm

(* After twenty seconds the entry stays, and with it the slot. *)
JoinTimesOut ==
    /\ joining /\ ~Finished /\ Incident
    /\ joining' = FALSE
    /\ UNCHANGED <<generation, credentials, host, permit, registered, leaked, w, session, client,
                   server>>

(***************************************************************************)
(* Locking the credentials, switching the workspace, unlocking.            *)
(***************************************************************************)
(* lock_credentials and replace_workspace begin with the revocation. *)
Revoke(kind) ==
    /\ host.pc = "idle" /\ Incident
    /\ generation' = generation + 1
    /\ host' = [pc |-> "revoked", kind |-> kind]
    /\ UNCHANGED <<credentials, permit, roster, w, session, client, server>>

(* Registry::stop_all_and_join takes the registry lock and keeps it. *)
StopInstances ==
    /\ host.pc = "revoked" /\ RegistryFree
    /\ host' = [host EXCEPT !.pc = "joining"]
    /\ IF registered /\ ~Finished THEN StopFlag ELSE UNCHANGED <<w, tickets>>
    /\ UNCHANGED <<generation, credentials, permit, roster, session, queue, reviews, server>>
    /\ Calm

(* Every entry leaves, also one whose cleanup failed. *)
JoinAll ==
    /\ host.pc = "joining" /\ Finished
    /\ registered' = FALSE
    /\ host' = [host EXCEPT !.pc = IF host.kind = "lock" THEN "joined" ELSE "idle"]
    /\ UNCHANGED <<generation, credentials, permit, joining, leaked, w, session, client, server>>
    /\ Calm

(* The signal first: it does not wait for whoever holds the credentials. *)
Signal ==
    /\ host.pc = "joined"
    /\ signal' = signal + 1
    /\ host' = [host EXCEPT !.pc = "signalled"]
    /\ UNCHANGED <<generation, unlocked, unlocking, permit, roster, w, session, client, server>>
    /\ Calm

LockBroker ==
    /\ host.pc = "signalled" /\ CredentialsFree
    /\ signal' = signal + 1 /\ unlocked' = Nil
    /\ host' = [host EXCEPT !.pc = "idle"]
    /\ UNCHANGED <<generation, unlocking, permit, roster, w, session, client, server>>
    /\ Calm

(* CredentialBroker::unlock locks first and derives the key afterwards. *)
BeginUnlock ==
    /\ CredentialsFree /\ Locked /\ Incident
    /\ signal' = signal + 1 /\ unlocked' = Nil
    /\ unlocking' = signal + 1
    /\ UNCHANGED <<generation, host, permit, roster, w, session, client, server>>

(* A lock that arrived meanwhile wins. *)
FinishUnlock ==
    /\ unlocking # Nil
    /\ unlocked' = IF signal = unlocking THEN unlocking ELSE Nil
    /\ unlocking' = Nil
    /\ UNCHANGED <<generation, signal, host, permit, roster, w, session, client, server>>
    /\ Calm

Expire == /\ Incident /\ ~Finished /\ ~w.expired
          /\ w' = [w EXCEPT !.expired = TRUE]
          /\ UNCHANGED <<generation, credentials, host, permit, roster, session, client, server>>

HostActions == \/ Request \/ (\E t \in DOMAIN tickets : Cancel(t))
               \/ Issue \/ Start \/ StatusFollows \/ Stop \/ Join \/ JoinTimesOut
               \/ (\E kind \in {"lock", "switch"} : Revoke(kind))
               \/ StopInstances \/ JoinAll \/ Signal \/ LockBroker
               \/ BeginUnlock \/ FinishUnlock \/ Expire

(***************************************************************************)
(* The launch, in the order of run, run_in_profile and run_with_access.    *)
(* Every failure goes to "closing": the scopes release what they hold.     *)
(***************************************************************************)
Failed(e) == [w EXCEPT !.pc = "closing", !.err = e]
Launch(next) ==
    /\ UNCHANGED <<generation, credentials, host, permit, roster, session, client, server>>
    /\ w' = next
Step(pc, next) == w.pc = pc /\ Calm /\ Launch(next)
Fault(pc) == w.pc = pc /\ Incident /\ Launch(Failed("failed"))

CreateProfile ==
    \/ Step("new", IF w.stop THEN Failed("none") ELSE [w EXCEPT !.pc = "profile", !.profile = TRUE])
    \/ Fault("new")

(* PinnedPackage::open and access: a partial grant is taken back. *)
GrantAccess == \/ Step("profile", [w EXCEPT !.pc = "granted", !.acl = TRUE])
               \/ Fault("profile")

(* Context::prepare, with the credentials held *)
TakeLease ==
    /\ CredentialsFree
    /\ Step("granted", IF PermitVerified THEN [w EXCEPT !.pc = "lease"] ELSE Failed("failed"))

(* Defect: the lock state is looked at before the epoch is captured. *)
DefectBind ==
    \/ Step("lease", IF Locked THEN Failed("failed") ELSE [w EXCEPT !.pc = "bound"])
    \/ Step("bound", [w EXCEPT !.pc = "build", !.epoch = signal])

(* The epoch is captured first and the lock state looked at afterwards. *)
BindCredential ==
    \/ Step("lease", [w EXCEPT !.pc = "bound", !.epoch = signal])
    \/ Step("bound", IF Locked THEN Failed("failed") ELSE [w EXCEPT !.pc = "build"])

(* Context::build resolves the secrets the package declares, if any, and   *)
(* looks at the lock again when it did; prepare checks its lease.          *)
Build == \/ \E secrets \in BOOLEAN :
              Step("build", IF Valid /\ (secrets => ~Locked) THEN [w EXCEPT !.pc = "prepared"]
                                                            ELSE Failed("failed"))
         \/ Fault("build")

(* A second lease for the network broker, with the credentials held again *)
LeaseNetwork ==
    /\ CredentialsFree
    /\ Step("prepared", IF PermitVerified /\ ~Locked
                        THEN [w EXCEPT !.pc = "leased", !.network = signal]
                        ELSE Failed("failed"))

(* The process is created suspended, in its job, and identified. *)
CreateSuspended ==
    \/ Step("leased", IF Valid THEN [w EXCEPT !.pc = "suspended", !.proc = "suspended"]
                               ELSE Failed("failed"))
    \/ Fault("leased")

(* The second lease check, before_resume (the store still offers the       *)
(* package), and the last look at the stop flag                            *)
BeforeResume ==
    \/ Step("suspended", CASE ~Valid -> Failed("failed")
                           [] Valid /\ w.stop -> Failed("none")
                           [] OTHER -> [w EXCEPT !.pc = "arming"])
    \/ Fault("suspended")

(* resume_with_lease: the watch is armed and asked before the first        *)
(* instruction; a lease that ends in between is the watch's business.      *)
ArmWatch == Step("arming", IF Valid /\ ~w.tripped
                           THEN [w EXCEPT !.pc = "armed", !.watch = "armed"]
                           ELSE Failed("failed"))
ResumeThread ==
    Step("armed", IF w.proc = "suspended" THEN [w EXCEPT !.pc = "resumed", !.proc = "running"]
                                          ELSE Failed("failed"))
OpenSession == Step("resumed", IF Authorized THEN [w EXCEPT !.pc = "init"] ELSE Failed("failed"))

LaunchActions == \/ CreateProfile \/ GrantAccess \/ TakeLease \/ BindCredential 
                 \/ Build \/ LeaseNetwork \/ CreateSuspended \/ BeforeResume \/ ArmWatch
                 \/ ResumeThread \/ OpenSession

(***************************************************************************)
(* The MCP session.  A frame is [kind, contract]: an answer to the request *)
(* in flight, a changed catalogue, something the decoder or the id check   *)
(* refuses, or the end of output.  Pings and the fetches of the network    *)
(* broker are answered at once and leave the session as it is.             *)
(***************************************************************************)
(* Gate::invalidate *)
Invalidated(s) == [s EXCEPT !.pending = {}, !.epoch = @ + 1]

(* Session::abort *)
Aborted(s) == [Invalidated(s) EXCEPT !.failed = TRUE, !.req = Nil, !.deadline = "none"]
Killed(x) == [x EXCEPT !.proc = IF @ = "none" THEN @ ELSE "dead"]
CatalogChanged(s) == [Invalidated(s) EXCEPT !.changed = TRUE, !.catalog = Nil]

(* server_message *)
Unsolicited(f) == f.kind = "changed"

(* drain_pending: everything received so far, before a contract is chosen *)
Drainable(fs) == Authorized /\ \A k \in 1..Len(fs) : Unsolicited(fs[k])
Drained(s, fs) == IF fs = <<>> THEN s ELSE CatalogChanged(s)

Serve == /\ UNCHANGED <<generation, credentials, host, permit, roster, contract, emitted>>
         /\ Calm
Abort(e, t) ==
    /\ w' = Killed(Failed(e)) /\ session' = Aborted(session)
    /\ tickets' = Answer(tickets, t)

(* request: the deadline is armed before the frame is sent *)
Sent(s, kind, t, r) ==
    [s EXCEPT !.req = [kind |-> kind, ticket |-> t, review |-> r, epoch |-> s.epoch],
              !.deadline = "armed"]
Cancelled(t) == IF t = Nil THEN w.stop ELSE tickets[t].cancel
RequestFails(t) == ~Authorized \/ Cancelled(t)
Verdict(t) == IF Authorized THEN "cancelled" ELSE "failed"

Initialize ==
    /\ w.pc = "init" /\ Serve
    /\ w' = IF RequestFails(Nil) THEN Failed(Verdict(Nil)) ELSE [w EXCEPT !.pc = "waiting"]
    /\ session' = IF RequestFails(Nil) THEN session
                  ELSE Sent(session, "initialize", Nil, Nil)
    /\ UNCHANGED <<client, frames>>

(* refresh_tools up to its request: the old catalogue and reviews go first *)
Relisted(s) == [Invalidated(s) EXCEPT !.catalog = Nil, !.changed = FALSE]
ListTools ==
    IF RequestFails(Nil) \/ ~Drainable(frames)
    THEN /\ w' = Killed(Failed(IF Drainable(frames) THEN "cancelled" ELSE "failed"))
         /\ session' = Aborted(session)
         /\ UNCHANGED frames
    ELSE /\ w' = [w EXCEPT !.pc = "waiting"]
         /\ session' = Sent(Relisted(Drained(session, frames)), "list", Nil, Nil)
         /\ frames' = <<>>
FirstList == w.pc = "list" /\ Serve /\ UNCHANGED client /\ ListTools

(* The end of the preparation: the identity, the last look at the stop     *)
(* flag; then the status moves on only if nobody stopped the instance.     *)
BecomeReady ==
    /\ w.pc = "ready" /\ Serve
    /\ w' = CASE ~Authorized -> Failed("failed")
              [] Authorized /\ w.stop -> Failed("none")
              [] OTHER -> [w EXCEPT !.pc = "publish"]
    /\ UNCHANGED <<session, client, frames>>
Publish ==
    Step("publish", [w EXCEPT !.pc = "loop", !.status = IF @ = "starting" THEN "ready" ELSE @])

(***************************************************************************)
(* The loop of the instance thread.                                        *)
(***************************************************************************)
Reply(t, s) ==          \* an answer, a result or an error, and the loop goes on
    /\ tickets' = Answer(tickets, t)
    /\ session' = [s EXCEPT !.req = Nil, !.deadline = "none"]
    /\ w' = [w EXCEPT !.pc = "loop"]

(* Gate::review *)
Reviewed(t, s) ==
    IF s.catalog = Nil \/ Cardinality(s.pending) >= MaxPending
    THEN Reply(t, s) /\ UNCHANGED reviews
    ELSE /\ Reply(t, [s EXCEPT !.pending = @ \cup {Len(reviews) + 1}])
         /\ reviews' = Append(reviews, [contract |-> s.catalog, epoch |-> s.epoch, sent |-> <<>>])

(* Gate::confirm: whatever follows, the review is used up *)
Confirmed(s, r) == [s EXCEPT !.pending = @ \ {r}]

Confirm(t, s) ==
    LET r == tickets[t].review IN
    \/ /\ Reply(t, Confirmed(s, r))          \* unknown, or past its two minutes
    \/ /\ r \in s.pending
       /\ w' = [w EXCEPT !.pc = "confirmed"]
       /\ session' = [Confirmed(s, r) EXCEPT
                        !.req = [kind |-> "call", ticket |-> t, review |-> r, epoch |-> s.epoch]]
       /\ tickets' = [tickets EXCEPT ![t].state = "active"]

(* Request::execute *)
Execute(t, s) ==
    CASE w.stop \/ tickets[t].cancel -> Reply(t, s) /\ UNCHANGED reviews
      [] tickets[t].kind = "review" -> Reviewed(t, s)
      [] tickets[t].kind = "invoke" -> Confirm(t, s) /\ UNCHANGED reviews
      [] OTHER ->
           /\ w' = [w EXCEPT !.pc = "waiting"]
           /\ session' = Sent(Relisted(s), "list", t, Nil)
           /\ tickets' = [tickets EXCEPT ![t].state = "active"]
           /\ UNCHANGED reviews

(* One turn: the permit, the frames received, then at most one command *)
NothingToDo == queue = <<>> /\ frames = <<>> /\ ~w.stop /\ PermitVerified /\ Authorized
Published(s) == [s EXCEPT !.changed = FALSE]        \* take_tools_changed
Turn ==
    /\ w.pc = "loop" /\ ~NothingToDo /\ Serve
    /\ CASE w.stop -> /\ w' = Failed("none")
                      /\ UNCHANGED <<session, client, frames>>
         [] ~w.stop /\ ~PermitVerified -> /\ w' = Failed("failed")
                                    /\ UNCHANGED <<session, client, frames>>
         [] ~w.stop /\ PermitVerified /\ ~Drainable(frames) -> /\ Abort("failed", Nil)
                                                     /\ UNCHANGED <<queue, reviews, frames>>
         [] OTHER ->
              /\ frames' = <<>>
              /\ IF queue = <<>>
                 THEN /\ session' = Published(Drained(session, frames))
                      /\ UNCHANGED <<w, client>>
                 ELSE /\ queue' = Tail(queue)
                      /\ Execute(Head(queue), Published(Drained(session, frames)))

(* Defect: what the frames just read changed is not compared with the approval. *)
DefectCurrent(s) == s.req.review \in DOMAIN reviews

(* call_tool: the approval must be of this epoch and the contract of the   *)
(* catalogue the one the user saw; only then is the request sent.          *)
SameEpoch(s) == /\ s.req.epoch = s.epoch
              /\ s.catalog = reviews[s.req.review].contract
CallTool ==
    /\ w.pc = "confirmed" /\ Serve
    /\ LET s == Drained(session, frames)
           t == session.req.ticket
           r == session.req.review IN
       IF ~Drainable(frames)
       THEN Abort("failed", t) /\ UNCHANGED <<queue, reviews, frames>>
       ELSE /\ frames' = <<>> /\ UNCHANGED queue
            /\ \/ Reply(t, s) /\ UNCHANGED reviews       \* the review expired
               \/ IF ~SameEpoch(s) \/ Cancelled(t)
                  THEN Reply(t, s) /\ UNCHANGED reviews
                  ELSE /\ w' = [w EXCEPT !.pc = "waiting"]
                       /\ session' = Sent(s, "call", t, r)
                       /\ reviews' = [reviews EXCEPT ![r].sent =
                                        Append(@, [contract |-> s.catalog, epoch |-> s.epoch])]
                       /\ UNCHANGED tickets

(***************************************************************************)
(* Waiting for the answer to a request.                                    *)
(***************************************************************************)
(* A revoked lease, a tripped limit, a passed deadline, a cancelled ticket *)
(* and the request's own budget all end the instance.                      *)
Expired == session.deadline = "expired"
GiveUp ==
    /\ w.pc = "waiting" /\ Serve /\ UNCHANGED <<queue, reviews, frames>>
    /\ \/ ~Authorized /\ Abort("failed", session.req.ticket)
       \/ Authorized /\ Cancelled(session.req.ticket) /\ Abort("cancelled", session.req.ticket)
TimesOut == /\ w.pc = "waiting" /\ Serve /\ UNCHANGED <<queue, reviews, frames>>
            /\ Abort("failed", session.req.ticket)

(* What an answer leads to, by the kind of the request *)
Listed(f) ==        \* refresh_tools drains once more: a change wins over the answer
    LET s == Drained(session, Tail(frames))
        t == session.req.ticket IN
    IF ~Drainable(Tail(frames)) THEN Abort("failed", t)
    ELSE IF s.changed
    THEN IF t = Nil THEN w' = Failed("failed") /\ session' = s /\ UNCHANGED tickets
                     ELSE Reply(t, s)
    ELSE /\ session' = [s EXCEPT !.catalog = f.contract, !.req = Nil, !.deadline = "none"]
         /\ w' = [w EXCEPT !.pc = IF t = Nil THEN "ready" ELSE "loop"]
         /\ tickets' = Answer(tickets, t)
Answered(f) ==
    CASE session.req.kind = "initialize" ->
           /\ w' = [w EXCEPT !.pc = "list"]
           /\ session' = [session EXCEPT !.req = Nil, !.deadline = "none"]
           /\ UNCHANGED tickets
      [] session.req.kind = "list" -> Listed(f)
      [] OTHER -> Reply(session.req.ticket, session)

(* The answer counts only if the deadline did not pass first. *)
Await ==
    /\ w.pc = "waiting" /\ frames # <<>> /\ Serve
    /\ UNCHANGED <<queue, reviews>>
    /\ LET f == Head(frames) IN
       IF ~Authorized \/ Expired \/ f.kind \in {"bad", "closed"}
       THEN Abort("failed", session.req.ticket) /\ UNCHANGED frames
       ELSE IF Unsolicited(f)
       THEN /\ frames' = Tail(frames) /\ session' = CatalogChanged(session)
            /\ UNCHANGED <<w, tickets>>
       ELSE /\ frames' = IF session.req.kind = "list" THEN <<>> ELSE Tail(frames)
            /\ Answered(f)

(* ToolDeadline's thread *)
DeadlinePasses ==
    /\ session.deadline = "armed" /\ Calm
    /\ session' = [session EXCEPT !.deadline = "expired"]
    /\ w' = Killed(w)
    /\ UNCHANGED <<generation, credentials, host, permit, roster, client, server>>

SessionActions == \/ Initialize \/ FirstList \/ BecomeReady \/ Publish \/ Turn \/ CallTool
                  \/ GiveUp \/ TimesOut \/ Await \/ DeadlinePasses

(***************************************************************************)
(* The process, the pump and the threads that watch it.                    *)
(***************************************************************************)
Outside(next) ==
    /\ w' = next
    /\ UNCHANGED <<generation, credentials, host, permit, roster, session, client>>
Frame(kind) == [kind |-> kind, contract |-> contract]
InSession == w.pc \in {"init", "list", "ready", "publish", "loop", "confirmed", "waiting"}
HasAnswer == \E k \in 1..Len(frames) : frames[k].kind = "answer"
Ended == \E k \in 1..Len(frames) : frames[k].kind \in {"closed", "bad"}

(* The stdout worker: a full channel ends the instance. *)
Pumped(kind) == IF Len(frames) < QueuedFrames THEN Append(frames, Frame(kind)) ELSE <<Frame("bad")>>
PumpedProcess == IF Len(frames) < QueuedFrames THEN w ELSE Killed(w)
Emit(kind) ==
    /\ Running /\ InSession /\ ~Ended /\ emitted < MaxFrames /\ Calm
    /\ frames' = Pumped(kind) /\ emitted' = emitted + 1
    /\ contract' \in IF kind = "changed" THEN Contracts ELSE {contract}
    /\ Outside(PumpedProcess)
AnswerRequest ==
    /\ Running /\ w.pc = "waiting" /\ ~HasAnswer /\ ~Ended /\ Calm
    /\ frames' = Pumped("answer")
    /\ UNCHANGED <<contract, emitted>>
    /\ Outside(PumpedProcess)
EndOfOutput ==
    /\ w.proc = "dead" /\ InSession /\ ~Ended /\ Calm
    /\ frames' = Pumped("closed")
    /\ UNCHANGED <<contract, emitted>>
    /\ Outside(w)
ServerExits == /\ Running /\ Incident /\ UNCHANGED server
               /\ Outside(Killed(w))

(* ResourceMonitor: a limit, or its own failure, ends the whole job. *)
MonitorTrips ==
    /\ w.proc \in {"suspended", "running"} /\ Incident /\ UNCHANGED server
    /\ Outside([Killed(w) EXCEPT !.tripped = TRUE])

(* The revocation watch polls its lease; when the job cannot be terminated *)
(* it ends and leaves the rest to the instance thread.                     *)
WatchFires ==
    /\ w.watch = "armed" /\ ~Valid /\ UNCHANGED server
    /\ \/ Calm /\ Outside([Killed(w) EXCEPT !.watch = "ended"])
       \/ Incident /\ Outside([w EXCEPT !.watch = "ended"])

Environment == \/ (\E kind \in {"changed", "bad"} : Emit(kind))
               \/ AnswerRequest \/ EndOfOutput \/ ServerExits \/ MonitorTrips \/ WatchFires

(***************************************************************************)
(* The end: process, grants, container, and only then the final status.    *)
(***************************************************************************)
Release(next) ==
    /\ w' = next
    /\ UNCHANGED <<generation, credentials, host, permit, roster, contract>>

(* Defect: the process is left to the deletion of its container. *)
DefectEndedProcess == [w EXCEPT !.pc = "released", !.watch = "none"]

(* Session::shutdown, the drops of the pump, of the process and of its     *)
(* watch; the command receiver goes with them.                             *)
EndedProcess == [Killed(w) EXCEPT !.pc = "released", !.watch = "none"]

EndProcess ==
    /\ w.pc = "closing"
    /\ tickets' = Disconnected /\ queue' = <<>>
    /\ session' = NoSession /\ frames' = <<>> /\ reviews' = <<>> /\ emitted' = 0
    /\ \/ Calm /\ Release(EndedProcess)
       \/ /\ Incident /\ w.err # "failed"       \* shutdown reports what terminate said
          /\ Release([EndedProcess EXCEPT !.err = "cleanup"])

RevokeAccess ==
    /\ w.pc = "released" /\ UNCHANGED <<client, session, frames, emitted>>
    /\ \/ Calm /\ Release([w EXCEPT !.pc = "unlinked", !.acl = FALSE])
       \/ /\ Incident /\ w.acl
          /\ \E b \in BOOLEAN : Release([w EXCEPT !.pc = "unlinked", !.acl = b, !.err = "cleanup"])

Final(x) ==
    [Absent EXCEPT !.pc = "done", !.profile = x.profile, !.acl = x.acl, !.err = x.err,
                   !.proc = x.proc,
                   !.status = IF x.err \in {"none", "cancelled"} THEN "stopped" ELSE "failed"]
RemoveProfile ==
    /\ w.pc = "unlinked" /\ UNCHANGED <<client, session, frames, emitted>>
    /\ \/ Calm /\ Release(Final([w EXCEPT !.profile = FALSE]))
       \/ /\ Incident /\ w.profile
          /\ \E b \in BOOLEAN : Release(Final([w EXCEPT !.profile = b, !.err = "cleanup"]))

CleanupActions == EndProcess \/ RevokeAccess \/ RemoveProfile

(***************************************************************************)
(* The specification.                                                      *)
(***************************************************************************)
InstanceInit ==
    /\ generation = 0 /\ signal = 1 /\ unlocked \in {Nil, 1} /\ unlocking = Nil
    /\ host = [pc |-> "idle", kind |-> "lock"] /\ permit = 0
    /\ registered = FALSE /\ joining = FALSE /\ leaked = FALSE
    /\ w = Absent /\ session = NoSession
    /\ tickets = <<>> /\ queue = <<>> /\ reviews = <<>>
    /\ frames = <<>> /\ emitted = 0 /\ contract \in Contracts
    /\ incidents = 0

WorkerActions == LaunchActions \/ SessionActions \/ CleanupActions
InstanceNext == HostActions \/ WorkerActions \/ Environment

(* Threads keep running: the instance thread, the stopping caller and the  *)
(* holder of the credentials take their next step, the watch polls, the    *)
(* pump notices the end of output, and the time of a request passes.       *)
Fairness ==
    /\ WF_instanceVars(WorkerActions /\ w' # w) /\ WF_instanceVars(Turn)
    /\ WF_instanceVars(TimesOut)
    /\ WF_instanceVars(WatchFires) /\ WF_instanceVars(EndOfOutput)
    /\ WF_instanceVars(StatusFollows) /\ WF_instanceVars(Join) /\ WF_instanceVars(FinishUnlock)
    /\ WF_instanceVars(StopInstances) /\ WF_instanceVars(JoinAll)
    /\ WF_instanceVars(Signal) /\ WF_instanceVars(LockBroker)

InstanceSpec == InstanceInit /\ [][InstanceNext]_instanceVars /\ Fairness

(***************************************************************************)
(* Properties.                                                             *)
(***************************************************************************)
(* The shape of the state. *)
InstanceTypeOK ==
    /\ {generation, signal, emitted, incidents} \subseteq Nat
    /\ unlocked \in Nat \cup {Nil} /\ unlocking \in Nat \cup {Nil}
    /\ host.pc \in {"idle", "revoked", "joining", "joined", "signalled"}
    /\ permit \in Nat \cup {Nil} /\ {registered, joining, leaked} \subseteq BOOLEAN
    /\ w.pc \in Phases /\ w.status \in {"starting", "ready", "stopping", "stopped", "failed"}
    /\ w.proc \in {"none", "suspended", "running", "dead"}
    /\ w.watch \in {"none", "armed", "ended"}
    /\ w.err \in {"none", "cancelled", "failed", "cleanup"}
    /\ session.catalog \in Contracts \cup {Nil}
    /\ session.pending \subseteq DOMAIN reviews
    /\ Len(queue) <= QueuedCommands /\ Len(frames) <= QueuedFrames

(* A lease that still passes its check was bound while the credentials     *)
(* were unlocked and they still are: no interleaving of lock_credentials   *)
(* or unlock with a launch gives a prepared launch, its process or its     *)
(* network broker an epoch in which the store was locked                   *)
(* (extension_launch_authorization prepare, main.rs lock_credentials).     *)
Prepared == w.pc \notin {"none", "new", "profile", "granted", "lease", "bound", "build",
                        "closing", "released", "unlinked", "done"}
LeasesMeanUnlocked ==
    /\ Prepared /\ Valid => ~Locked
    /\ w.network # Nil /\ ~Finished /\ NetworkValid => ~Locked

(* A tool is called only for a review of the user, at most once for each,  *)
(* under the catalogue in force when it was reviewed and with the contract *)
(* the user saw (extension_call_authorization.rs, call_tool).              *)
CallsWereReviewed ==
    \A r \in DOMAIN reviews :
        /\ Len(reviews[r].sent) <= 1
        /\ \A k \in 1..Len(reviews[r].sent) :
              /\ reviews[r].sent[k].epoch = reviews[r].epoch
              /\ reviews[r].sent[k].contract = reviews[r].contract

(* A process that can execute keeps its container and its grants, grants   *)
(* do not outlive the process, and a thread that ended without reporting a *)
(* failed cleanup left nothing behind (run, run_in_profile).               *)
ReleasedInOrder ==
    /\ w.proc \in {"suspended", "running"} => w.profile /\ w.acl
    /\ w.acl /\ ~CleanupFailed => w.profile
    /\ Finished /\ ~CleanupFailed => ~w.profile /\ ~w.acl /\ w.proc \notin {"suspended", "running"}

(* A process whose lease was revoked, locked away or expired is            *)
(* terminated, whoever notices first, also when the watch cannot do it     *)
(* (extension_revocation.rs, run_with_access).                             *)
RevokedProcessEnds == (Running /\ ~Valid) ~> ~Running

(* Locking the credentials always gets through: it waits for threads that  *)
(* wait for the credentials, but never while it holds them.                *)
LockCompletes == (host.pc = "revoked" /\ host.kind = "lock") ~> (host.pc = "idle")

(* A client that sent a command is answered or told that the instance is   *)
(* gone; it never hangs until its own timeout.                             *)
TicketsSettle == \A t \in 1..MaxTickets :
    (t \in DOMAIN tickets) ~> (t \notin DOMAIN tickets \/ Settled(t))
=============================================================================

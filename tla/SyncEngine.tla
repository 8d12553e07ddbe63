----------------------------- MODULE SyncEngine -----------------------------
(***************************************************************************)
(* One device synchronising one bound vault: sync_state.rs, sync_inbox.rs, *)
(* sync_resolution.rs, sync_review.rs, sync_client.rs and the cycle of     *)
(* sync_commands.rs.                                                       *)
(*                                                                         *)
(* The server keeps a log of revisions; a revision's sequence is its       *)
(* position.  The device pulls the log in order through a durable inbox    *)
(* and pushes its own operations, each with the base revision it was made  *)
(* on.  A revision that meets local work becomes a conflict that a person  *)
(* decides.  The engine runs in cycles under one gate, in pieces that hold *)
(* the workspace lock; between two pieces it waits on the network, and the *)
(* person edits and decides; other programs edit the vault at any time;    *)
(* the process may stop between any two transactions.                      *)
(*                                                                         *)
(* Contents stand for digests and Absent for the digest of no file.  Each  *)
(* file keeps one path, so a file stands for its identity and its path:    *)
(* renames, collisions of two identities on one path, the optional scope   *)
(* and the initial merge are not part of this module.  A journalled file   *)
(* operation (WorkspaceJournal) is one step here.                          *)
(***************************************************************************)
EXTENDS Naturals, Sequences, FiniteSets

CONSTANTS
    Files,        \* file identities
    RemoteBorn,   \* the ones another device creates
    Contents,     \* file contents, named by their digest
    Absent,       \* the digest "" of a file that does not exist
    PageSize,     \* revisions in one page of changes
    MaxEdits,     \* bound: edits made in the application
    MaxExternals, \* bound: edits made by other programs
    MaxOthers,    \* bound: revisions other devices commit
    MaxLosses,    \* bound: lost requests, lost replies and cancelled cycles
    MaxCrashes,   \* bound: process stops
    Choices       \* the decisions a person takes on a conflict

ASSUME ConstantsAssumption ==
    /\ Files # {} /\ RemoteBorn \subseteq Files
    /\ Absent \notin Contents
    /\ PageSize \in Nat \ {0}
    /\ MaxEdits \in Nat /\ MaxExternals \in Nat /\ MaxOthers \in Nat
    /\ MaxLosses \in Nat /\ MaxCrashes \in Nat
    /\ Choices \subseteq {"local", "remote", "copy"}

VARIABLES
    log,        \* the server's revisions of the vault
    wire,       \* commits the device has sent and the server not yet seen
    reply,      \* the answer to the commit the engine waits for
    disk,       \* the vault directory
    observed,   \* table sync_observed, with files.deleted
    queue,      \* tables outbox and sync_jobs, per file in order
    heads,      \* table sync_heads
    cursor,     \* sync_bindings.cursor
    window,     \* table sync_windows: the boundary, 0 when there is none
    inbox,      \* tables sync_inbox, sync_conflicts, sync_resolutions
    engine,     \* where the cycle is
    hold,       \* the work in progress under the workspace lock
    budget      \* what is left of the bounds

durable == <<disk, observed, queue, heads, cursor, window, inbox>>
network == <<log, wire, reply>>
vars == <<network, durable, engine, hold, budget>>

-----------------------------------------------------------------------------
(* Types *)

Hashes == Contents \cup {Absent}
OpIds == Files \X (Nat \ {0})
Other == 0       \* the operation of another device

\* by is the device's operation on the file, or Other.
Revisions == [file: Files, base: Nat, content: Hashes, by: Nat]

\* "pending": in the outbox only.  "queued" and "committing" are sync_jobs
\* pending or uploading, and committing; the outbox says queued until "acked".
Stages == {"pending", "queued", "committing", "conflict", "acked", "archived"}
\* frozen: base_revision is not NULL.
Jobs == [content: Hashes, stage: Stages, frozen: BOOLEAN, base: Nat]
NewJob(c) == [content |-> c, stage |-> "pending", frozen |-> FALSE, base |-> 0]

Heads == [revision: Nat, hash: Hashes]

\* expected, live: the review's guard, the file's digest and whether the
\* catalogue had it.  copied, committed: the journal committed copy_id,
\* operation_id.  seen is history: how many operations the file had when the
\* person decided.
Decisions == [choice: {"none", "local", "remote", "copy"}, expected: Hashes,
              live: BOOLEAN, copy: Files, copied: BOOLEAN, committed: BOOLEAN,
              op: Nat, seen: Nat]
\* done: the journal committed the entry's operation_id.
Entries == [state: {"pending", "applied", "conflict"}, done: BOOLEAN,
            conflict: {"none", "open", "superseded", "resolved"},
            decision: Decisions]

Points == {"idle", "resume", "drain", "fetch", "item", "picked", "sent"}
Engines == [at: Points, phase: {"pull", "push", "last"}, page: Nat,
            file: Files, op: Nat]
Holds == [step: {"none", "apply", "finish", "decide", "settle"}, seq: Nat,
          outcome: {"applied", "conflict"}]
NoHold == [step |-> "none", seq |-> 0, outcome |-> "applied"]
Holding(step, s, outcome) == [step |-> step, seq |-> s, outcome |-> outcome]

Budgets == [edits: Nat, externals: Nat, others: Nat, losses: Nat, crashes: Nat]

TypeOK ==
    /\ log \in Seq(Revisions)
    /\ wire \in SUBSET OpIds
    /\ reply \in {"none", "accepted", "rejected"}
    /\ disk \in [Files -> Hashes]
    /\ observed \in [Files -> Hashes]
    /\ queue \in [Files -> Seq(Jobs)]
    /\ heads \in [Files -> Heads]
    /\ cursor \in Nat
    /\ window \in Nat
    /\ inbox \in Seq(Entries)
    /\ engine \in Engines
    /\ hold \in Holds
    /\ budget \in Budgets

-----------------------------------------------------------------------------
(* The server, as the client relies on it *)

RevisionsOf(f) == {s \in 1..Len(log) : log[s].file = f}
Latest(S) == IF S = {} THEN 0 ELSE CHOOSE s \in S : \A t \in S : t <= s
ServerHead(f) == Latest(RevisionsOf(f))
ServerContent(f) == IF ServerHead(f) = 0 THEN Absent
                    ELSE log[ServerHead(f)].content
\* Where the log has an operation of this device.
Committed(f, i) == {s \in RevisionsOf(f) : log[s].by = i}
Revision(f, base, c, i) == [file |-> f, base |-> base, content |-> c, by |-> i]

\* A commit repeated with its operation id gets its first answer; a new one
\* is accepted on the current head of its file only.
Acceptable(f, i) == Committed(f, i) # {} \/ queue[f][i].base = ServerHead(f)

Serve(f, i) ==
    /\ <<f, i>> \in wire
    /\ wire' = wire \ {<<f, i>>}
    /\ log' = IF Acceptable(f, i) /\ Committed(f, i) = {}
              THEN Append(log, Revision(f, queue[f][i].base,
                                        queue[f][i].content, i))
              ELSE log
    /\ reply' = IF engine.at = "sent" /\ engine.file = f /\ engine.op = i
                THEN IF Acceptable(f, i) THEN "accepted" ELSE "rejected"
                ELSE reply
    /\ UNCHANGED <<durable, engine, hold, budget>>

\* Another device commits on the head of a file it knows.
OtherCommit(f, c) ==
    /\ budget.others > 0
    /\ f \in RemoteBorn \/ ServerHead(f) > 0
    /\ c # ServerContent(f)
    /\ log' = Append(log, Revision(f, ServerHead(f), c, Other))
    /\ budget' = [budget EXCEPT !.others = @ - 1]
    /\ UNCHANGED <<wire, reply, durable, engine, hold>>

-----------------------------------------------------------------------------
(* Reading the device's tables *)

Open(f) == {s \in 1..Len(inbox) : log[s].file = f /\ inbox[s].conflict = "open"}
Unsettled == {s \in 1..Len(inbox) : inbox[s].decision.choice # "none"
                                    /\ inbox[s].conflict # "resolved"}
Pending == {s \in 1..Len(inbox) : inbox[s].state = "pending"}

\* The outbox states pending and queued.
Outgoing(f) == {i \in 1..Len(queue[f]) :
                   queue[f][i].stage \notin {"acked", "archived"}}
\* Defect: sync_next does not look at open conflicts.
NextThroughConflict(f) ==
    {i \in 1..Len(queue[f]) : queue[f][i].stage \in {"queued", "committing"}}
\* sync_next: not acked, archived or conflict, and no open conflict.
Sendable(f) == {i \in 1..Len(queue[f]) :
                   /\ queue[f][i].stage \in {"queued", "committing"}
                   /\ Open(f) = {}}
First(S) == CHOOSE i \in S : \A j \in S : i <= j

\* A file another device created is known here once a revision arrived.
Known(f) == f \notin RemoteBorn \/ heads[f].revision > 0

Locked == hold.step # "none" \/ engine.at \in {"resume", "drain"}

-----------------------------------------------------------------------------
(* The person and other programs *)

\* workspace.write and delete: file, catalogue and outbox at once.
LocalWrite(f, c) ==
    /\ disk' = [disk EXCEPT ![f] = c]
    /\ observed' = [observed EXCEPT ![f] = c]
    /\ queue' = [queue EXCEPT ![f] = Append(@, NewJob(c))]

RemoteWrite(f, c) ==
    /\ disk' = [disk EXCEPT ![f] = c]
    /\ observed' = [observed EXCEPT ![f] = c]
    /\ UNCHANGED queue

Edit(f, c) ==
    /\ budget.edits > 0 /\ ~Locked
    /\ Known(f) /\ c # disk[f]
    /\ LocalWrite(f, c)
    /\ budget' = [budget EXCEPT !.edits = @ - 1]
    /\ UNCHANGED <<network, heads, cursor, window, inbox, engine, hold>>

ExternalEdit(f, c) ==
    /\ budget.externals > 0
    /\ Known(f) /\ c # disk[f]
    /\ disk' = [disk EXCEPT ![f] = c]
    /\ budget' = [budget EXCEPT !.externals = @ - 1]
    /\ UNCHANGED <<network, observed, queue, heads, cursor, window, inbox,
                   engine, hold>>

-----------------------------------------------------------------------------
(* The cycle *)

Goto(at) == engine' = [engine EXCEPT !.at = at]
GotoPhase(at, phase) == engine' = [engine EXCEPT !.at = at, !.phase = phase]

\* sync_discover: what the disk holds and sync_observed does not know.
Discovered(f) == disk[f] # observed[f]

StartCycle ==
    /\ engine.at = "idle" /\ ~Locked
    /\ observed' = disk
    /\ queue' = [f \in Files |-> IF Discovered(f)
                                 THEN Append(queue[f], NewJob(disk[f]))
                                 ELSE queue[f]]
    /\ GotoPhase("resume", "pull")
    /\ UNCHANGED <<network, disk, heads, cursor, window, inbox, hold, budget>>

\* sync_resume_resolutions, at the head of pull_page and of push_one.
ResumeNext ==
    /\ engine.at = "resume" /\ hold.step = "none" /\ Unsettled # {}
    /\ hold' = Holding("decide", First(Unsettled), "conflict")
    /\ UNCHANGED <<network, durable, engine, budget>>

ResumeDone ==
    /\ engine.at = "resume" /\ hold.step = "none" /\ Unsettled = {}
    /\ engine.phase # "push"
    /\ Goto("drain")
    /\ UNCHANGED <<network, durable, hold, budget>>

\* while sync_apply_pending {}.
Drain ==
    /\ engine.at = "drain" /\ hold.step = "none"
    /\ IF Pending # {}
       THEN /\ hold' = Holding("apply", First(Pending), "applied")
            /\ UNCHANGED engine
       ELSE Goto("fetch") /\ UNCHANGED hold
    /\ UNCHANGED <<network, durable, budget>>

\* No page is left to pull.  A window still open ends the cycle: nothing is
\* pushed before the incoming window is finished.
PullsDone ==
    \/ engine.phase = "pull" /\ window = 0 /\ GotoPhase("resume", "push")
    \/ engine.phase = "pull" /\ window # 0 /\ GotoPhase("idle", "pull")
    \/ engine.phase = "last" /\ GotoPhase("idle", "pull")

\* One page of changes after the cursor, up to the window's boundary or, when
\* no window is open, to the end of the log; sync_set_boundary opens it.
Boundary == IF window # 0 THEN window ELSE Len(log)
PageEnd == IF Boundary < cursor + PageSize THEN Boundary ELSE cursor + PageSize

Fetch ==
    /\ engine.at = "fetch" /\ ~Locked
    /\ IF cursor < Boundary
       THEN /\ window' = Boundary
            /\ engine' = [engine EXCEPT !.at = "item", !.page = PageEnd]
       ELSE PullsDone /\ UNCHANGED window
    /\ UNCHANGED <<network, disk, observed, queue, heads, cursor, inbox, hold,
                   budget>>

NoDecision == [choice |-> "none", expected |-> Absent, live |-> FALSE,
               copy |-> CHOOSE f \in Files : TRUE, copied |-> FALSE,
               committed |-> FALSE, op |-> 0, seen |-> 0]
Received == [state |-> "pending", done |-> FALSE, conflict |-> "none",
             decision |-> NoDecision]

\* sync_stage: the next revision becomes durable before it is applied.
Stage ==
    /\ engine.at = "item" /\ ~Locked
    /\ cursor < engine.page
    /\ inbox' = IF Len(inbox) = cursor THEN Append(inbox, Received) ELSE inbox
    /\ hold' = Holding("apply", cursor + 1, "applied")
    /\ UNCHANGED <<network, disk, observed, queue, heads, cursor, window,
                   engine, budget>>

\* The page is done: another page, or (after ten) what follows the pulls.
EndPage ==
    /\ engine.at = "item" /\ ~Locked
    /\ cursor = engine.page
    /\ \/ PullsDone
       \/ engine.phase = "pull" /\ GotoPhase("resume", "pull")
    /\ UNCHANGED <<network, durable, hold, budget>>

-----------------------------------------------------------------------------
(* sync_apply_pending and sync_finish *)

Newer(f, s, c) == IF heads[f].revision < s
                  THEN [heads EXCEPT ![f] = [revision |-> s, hash |-> c]]
                  ELSE heads

\* sync_ack: the operation is the revision of its sequence.
Acked(f, i, s) ==
    /\ heads' = Newer(f, s, queue[f][i].content)
    /\ queue' = [queue EXCEPT ![f][i].stage = "acked"]

\* Defect: the revision's operation id is not looked up in sync_jobs.
NobodysOwn(s) == FALSE
OwnRevision(s) == LET r == log[s] IN
    /\ r.by # Other
    /\ queue[r.file][r.by].stage \notin {"archived", "conflict"}

AlreadyApplied(s) == inbox[s].done \/ heads[log[s].file].revision >= s

\* Defect: only the outbox counts as local work.
OutboxOnly(f) == Outgoing(f) # {}
\* Local work that the revision would destroy: uploads not acknowledged, an
\* untracked file in its place, or a file that is not the last known revision.
LocalWork(f) ==
    \/ Outgoing(f) # {}
    \/ observed[f] = Absent /\ disk[f] # Absent
    \/ observed[f] # Absent
       /\ (heads[f].revision = 0 \/ heads[f].hash # disk[f])

Applying(s) == hold.step = "apply" /\ hold.seq = s
ToFinish(s, outcome) == hold' = Holding("finish", s, outcome)

\* The device's own revision, seen before or instead of the server's answer.
ApplyOwn(s) ==
    /\ Applying(s) /\ OwnRevision(s)
    /\ Acked(log[s].file, log[s].by, s)
    /\ ToFinish(s, "applied")
    /\ UNCHANGED <<network, disk, observed, cursor, window, inbox, engine,
                   budget>>

ApplyKnown(s) ==
    /\ Applying(s) /\ ~OwnRevision(s) /\ AlreadyApplied(s)
    /\ ToFinish(s, "applied")
    /\ UNCHANGED <<network, durable, engine, budget>>

\* sync_preserve_conflict: the conflict, and what it does to older conflicts
\* and to the file's jobs, in one transaction.
ApplyConflict(s) == LET f == log[s].file IN
    /\ Applying(s) /\ ~OwnRevision(s) /\ ~AlreadyApplied(s)
    /\ LocalWork(f)
    /\ inbox' = [t \in DOMAIN inbox |->
                   IF t = s /\ inbox[t].conflict = "none"
                   THEN [inbox[t] EXCEPT !.conflict = "open"]
                   ELSE IF t < s /\ t \in Open(f)
                   THEN [inbox[t] EXCEPT !.conflict = "superseded"]
                   ELSE inbox[t]]
    /\ queue' = [queue EXCEPT ![f] = [i \in DOMAIN @ |->
                   IF @[i].stage \in {"queued", "committing"}
                   THEN [@[i] EXCEPT !.stage = "conflict"] ELSE @[i]]]
    /\ ToFinish(s, "conflict")
    /\ UNCHANGED <<network, disk, observed, heads, cursor, window, engine,
                   budget>>

\* The journalled write or delete of a revision, with remote origin.
ApplyFile(s) == LET f == log[s].file IN
    /\ Applying(s) /\ ~OwnRevision(s) /\ ~AlreadyApplied(s)
    /\ ~LocalWork(f)
    /\ IF log[s].content = Absent /\ (observed[f] = Absent \/ disk[f] = Absent)
       THEN UNCHANGED <<disk, observed, queue, inbox>>
       ELSE /\ RemoteWrite(f, log[s].content)
            /\ inbox' = [inbox EXCEPT ![s].done = TRUE]
    /\ ToFinish(s, "applied")
    /\ UNCHANGED <<network, heads, cursor, window, engine, budget>>

\* Defect: sync_heads is left to sync_ack.
FinishWithoutHead(s) ==
    /\ hold.step = "finish" /\ hold.seq = s /\ cursor = s - 1
    /\ cursor' = s
    /\ inbox' = [inbox EXCEPT ![s].state = hold.outcome]
    /\ window' = IF window = s THEN 0 ELSE window
    /\ hold' = NoHold
    /\ UNCHANGED <<network, disk, observed, queue, heads, engine, budget>>

\* sync_finish: the cursor moves by one, with the head and the inbox state.
Finish(s) ==
    /\ hold.step = "finish" /\ hold.seq = s /\ cursor = s - 1
    /\ cursor' = s
    /\ heads' = Newer(log[s].file, s, log[s].content)
    /\ inbox' = [inbox EXCEPT ![s].state = hold.outcome]
    /\ window' = IF window = s THEN 0 ELSE window
    /\ hold' = NoHold
    /\ UNCHANGED <<network, disk, observed, queue, engine, budget>>

-----------------------------------------------------------------------------
(* push_one *)

\* sync_capture: every pending outbox entry gets its job.
Captured == [f \in Files |-> [i \in DOMAIN queue[f] |->
    IF queue[f][i].stage = "pending"
    THEN [queue[f][i] EXCEPT !.stage = "queued"] ELSE queue[f][i]]]

\* sync_capture and sync_next under one lock.
Capture ==
    /\ engine.at = "resume" /\ engine.phase = "push"
    /\ hold.step = "none" /\ Unsettled = {}
    /\ queue # Captured
    /\ queue' = Captured
    /\ UNCHANGED <<network, disk, observed, heads, cursor, window, inbox,
                   engine, hold, budget>>

Pick(f) ==
    /\ engine.at = "resume" /\ engine.phase = "push"
    /\ hold.step = "none" /\ Unsettled = {} /\ queue = Captured
    /\ Sendable(f) # {}
    /\ engine' = [engine EXCEPT !.at = "picked", !.file = f,
                                !.op = First(Sendable(f))]
    /\ UNCHANGED <<network, durable, hold, budget>>

NothingToPush ==
    /\ engine.at = "resume" /\ engine.phase = "push"
    /\ hold.step = "none" /\ Unsettled = {} /\ queue = Captured
    /\ \A f \in Files : Sendable(f) = {}
    /\ GotoPhase("resume", "last")
    /\ UNCHANGED <<network, durable, hold, budget>>

\* sync_commit_payload freezes the base once; then the commit is posted.
Frozen(job, f) == IF job.frozen THEN job
                  ELSE [job EXCEPT !.stage = "committing", !.frozen = TRUE,
                                   !.base = heads[f].revision]

Post(f, i) ==
    /\ engine.at = "picked" /\ ~Locked
    /\ engine.file = f /\ engine.op = i
    /\ queue[f][i].stage \notin {"archived", "conflict"}
    /\ queue' = [queue EXCEPT ![f][i] = Frozen(@, f)]
    /\ wire' = wire \cup {<<f, i>>}
    /\ reply' = "none"
    /\ Goto("sent")
    /\ UNCHANGED <<log, disk, observed, heads, cursor, window, inbox, hold,
                   budget>>

\* sync_ack of the answer, then the next job (at most twenty) or the last pull.
PushAcked(f, i) ==
    /\ engine.at = "sent" /\ reply = "accepted" /\ ~Locked
    /\ engine.file = f /\ engine.op = i
    /\ queue[f][i].stage \notin {"archived", "conflict"}
    /\ \E s \in Committed(f, i) : Acked(f, i, s)
    /\ reply' = "none"
    /\ \E phase \in {"push", "last"} : GotoPhase("resume", phase)
    /\ UNCHANGED <<log, wire, disk, observed, cursor, window, inbox, hold,
                   budget>>

\* REVISION_CONFLICT ends the cycle; the next one pulls what caused it.
PushRejected ==
    /\ engine.at = "sent" /\ reply = "rejected" /\ ~Locked
    /\ reply' = "none"
    /\ Goto("idle")
    /\ UNCHANGED <<log, wire, durable, hold, budget>>

-----------------------------------------------------------------------------
(* Decisions on conflicts *)

FreshCopy(g) == g \notin RemoteBorn /\ disk[g] = Absent /\ observed[g] = Absent
                /\ queue[g] = <<>>

\* sync_conflict_review, sync_resolve_reviewed: an open conflict on the current
\* head, not decided before.
Reviewable(s) == LET f == log[s].file IN
    s \in Open(f) /\ heads[f].revision = s /\ inbox[s].decision.choice = "none"

\* sync_resolve: the reviewed decision is durable before any file changes.  It
\* does not take the engine's gate.
Decide(s, choice, g) == LET f == log[s].file IN
    /\ ~Locked /\ Reviewable(s)
    /\ choice = "copy" => disk[f] # Absent /\ FreshCopy(g)
    /\ inbox' = [inbox EXCEPT ![s].decision =
                   [choice |-> choice, expected |-> disk[f],
                    live |-> observed[f] # Absent, copy |-> g,
                    copied |-> FALSE, committed |-> FALSE, op |-> 0,
                    seen |-> Len(queue[f])]]
    /\ hold' = Holding("decide", s, "conflict")
    /\ UNCHANGED <<network, disk, observed, queue, heads, cursor, window,
                   engine, budget>>

Deciding(s) == hold.step = "decide" /\ hold.seq = s
CurrentHead(s) == heads[log[s].file].revision = s
\* sync_check_review_paths: the file is still the one that was reviewed.
AsReviewed(s) == LET f == log[s].file  d == inbox[s].decision IN
    disk[f] = d.expected /\ (observed[f] # Absent) = d.live
NeedsCopy(s) == inbox[s].decision.choice = "copy" /\ ~inbox[s].decision.copied

DecideCopy(s) == LET d == inbox[s].decision IN
    /\ Deciding(s) /\ CurrentHead(s) /\ ~d.committed
    /\ NeedsCopy(s) /\ AsReviewed(s)
    /\ disk[d.copy] = Absent
    /\ LocalWrite(d.copy, d.expected)
    /\ inbox' = [inbox EXCEPT ![s].decision.copied = TRUE]
    /\ UNCHANGED <<network, heads, cursor, window, engine, hold, budget>>

\* Keeping the local file: it, or its deletion, becomes a new operation.
DecideLocal(s) == LET f == log[s].file IN
    /\ Deciding(s) /\ CurrentHead(s) /\ ~inbox[s].decision.committed
    /\ inbox[s].decision.choice = "local" /\ AsReviewed(s)
    /\ LocalWrite(f, inbox[s].decision.expected)
    /\ inbox' = [inbox EXCEPT ![s].decision.committed = TRUE,
                              ![s].decision.op = Len(queue[f]) + 1]
    /\ hold' = Holding("settle", s, "conflict")
    /\ UNCHANGED <<network, heads, cursor, window, engine, budget>>

\* Taking the incoming revision, after the copy of the local file if asked.
DecideRemote(s) == LET f == log[s].file IN
    /\ Deciding(s) /\ CurrentHead(s) /\ ~inbox[s].decision.committed
    /\ inbox[s].decision.choice \in {"remote", "copy"} /\ ~NeedsCopy(s)
    /\ AsReviewed(s)
    /\ IF log[s].content = Absent /\ disk[f] = Absent
       THEN UNCHANGED <<disk, observed, queue, inbox>>
       ELSE /\ RemoteWrite(f, log[s].content)
            /\ inbox' = [inbox EXCEPT ![s].decision.committed = TRUE]
    /\ hold' = Holding("settle", s, "conflict")
    /\ UNCHANGED <<network, heads, cursor, window, engine, budget>>

\* Defect: whether the decision's own operation was committed is not looked up.
ResumedAsDone(s) ==
    /\ Deciding(s) /\ CurrentHead(s)
    /\ hold' = Holding("settle", s, "conflict")
    /\ UNCHANGED <<network, durable, engine, budget>>
\* The file operation was committed before a stop: only the records are left.
DecideResumed(s) ==
    /\ Deciding(s) /\ CurrentHead(s) /\ inbox[s].decision.committed
    /\ hold' = Holding("settle", s, "conflict")
    /\ UNCHANGED <<network, durable, engine, budget>>

\* SYNC_CONFLICT_CHANGED or REVISION_CONFLICT: a resume fails its cycle.
DecideFails(s) == LET d == inbox[s].decision IN
    /\ Deciding(s)
    /\ \/ ~CurrentHead(s)
       \/ ~d.committed /\ ~AsReviewed(s)
       \/ ~d.committed /\ NeedsCopy(s) /\ disk[d.copy] # Absent
    /\ hold' = NoHold
    /\ IF engine.at = "resume" THEN Goto("idle") ELSE UNCHANGED engine
    /\ UNCHANGED <<network, durable, budget>>

\* Defect: the decision's own operation is archived with the others.
ArchivedAll(f, op) == [i \in DOMAIN queue[f] |->
    IF queue[f][i].stage = "acked" THEN queue[f][i]
    ELSE [queue[f][i] EXCEPT !.stage = "archived"]]
\* The file's other operations and jobs are archived.
Archived(f, op) == [i \in DOMAIN queue[f] |->
    IF i = op \/ queue[f][i].stage = "acked" THEN queue[f][i]
    ELSE [queue[f][i] EXCEPT !.stage = "archived"]]

\* The last transaction of sync_apply_resolution.
Settle(s) == LET f == log[s].file IN
    /\ hold.step = "settle" /\ hold.seq = s
    /\ queue' = [queue EXCEPT ![f] = Archived(f, inbox[s].decision.op)]
    /\ inbox' = [inbox EXCEPT ![s].conflict = "resolved"]
    /\ hold' = NoHold
    /\ UNCHANGED <<network, disk, observed, heads, cursor, window, engine,
                   budget>>

-----------------------------------------------------------------------------
(* Failures *)

\* A lost request or reply, a cancelled cycle, a failed download: the engine
\* gives up; a commit already sent may still reach the server.
GiveUp ==
    /\ budget.losses > 0
    /\ engine.at \in {"fetch", "item", "picked", "sent"} /\ ~Locked
    /\ \/ UNCHANGED wire
       \/ /\ engine.at = "sent"
          /\ wire' = wire \ {<<engine.file, engine.op>>}
    /\ reply' = "none"
    /\ Goto("idle")
    /\ budget' = [budget EXCEPT !.losses = @ - 1]
    /\ UNCHANGED <<log, durable, hold>>

Crash ==
    /\ budget.crashes > 0
    /\ engine.at # "idle" \/ hold.step # "none"
    /\ reply' = "none"
    /\ hold' = NoHold
    /\ Goto("idle")
    /\ budget' = [budget EXCEPT !.crashes = @ - 1]
    /\ UNCHANGED <<log, wire, durable>>

-----------------------------------------------------------------------------
Init ==
    /\ log = <<>> /\ wire = {} /\ reply = "none"
    /\ disk = [f \in Files |-> Absent]
    /\ observed = [f \in Files |-> Absent]
    /\ queue = [f \in Files |-> <<>>]
    /\ heads = [f \in Files |-> [revision |-> 0, hash |-> Absent]]
    /\ cursor = 0 /\ window = 0 /\ inbox = <<>>
    /\ engine = [at |-> "idle", phase |-> "pull", page |-> 0,
                 file |-> CHOOSE f \in Files : TRUE, op |-> 0]
    /\ hold = NoHold
    /\ budget = [edits |-> MaxEdits, externals |-> MaxExternals,
                 others |-> MaxOthers, losses |-> MaxLosses,
                 crashes |-> MaxCrashes]

Server == \/ \E f \in Files : \E i \in 1..Len(queue[f]) : Serve(f, i)

Apply == \E s \in 1..Len(inbox) :
            ApplyOwn(s) \/ ApplyKnown(s) \/ ApplyConflict(s) \/ ApplyFile(s)
            \/ Finish(s)

Pull == StartCycle \/ ResumeNext \/ ResumeDone \/ Drain \/ Fetch \/ Stage
        \/ EndPage

Push == \/ Capture \/ NothingToPush \/ PushRejected
        \/ \E f \in Files : Pick(f)
        \/ \E f \in Files : \E i \in 1..Len(queue[f]) :
              Post(f, i) \/ PushAcked(f, i)

Decision == \E s \in 1..Len(inbox) :
               DecideCopy(s) \/ DecideLocal(s) \/ DecideRemote(s)
               \/ DecideResumed(s) \/ DecideFails(s) \/ Settle(s)

Person == \/ \E f \in Files, c \in Hashes : Edit(f, c)
          \/ \E s \in 1..Len(inbox), choice \in Choices, g \in Files :
                Decide(s, choice, g)

Environment == \/ \E f \in Files, c \in Hashes :
                     ExternalEdit(f, c) \/ OtherCommit(f, c)
               \/ GiveUp \/ Crash

Next == Server \/ Apply \/ Pull \/ Push \/ Decision \/ Person \/ Environment

Spec == Init /\ [][Next]_vars

\* The host runs a cycle every few seconds and a held lock is given back; a
\* request that is not lost is answered.
FairSpec == Spec /\ WF_vars(Apply \/ Pull \/ Push \/ Decision) /\ WF_vars(Server)

-----------------------------------------------------------------------------
(* Properties *)

Own(s) == log[s].by # Other
\* A revision whose content this device has taken into account: applied, its
\* own, or decided by the person.
Reviewed(s) == inbox[s].state = "applied" \/ inbox[s].conflict = "resolved"

\* sync_finish and sync_ack: the cursor has passed exactly the revisions the
\* inbox finished, and the head of a file is its newest revision among those
\* and among the acknowledged operations.
HeadsTrackLog ==
    /\ cursor <= Len(log)
    /\ \A s \in 1..Len(inbox) : (s <= cursor) <=> (inbox[s].state # "pending")
    /\ \A f \in Files :
         heads[f].revision =
           Latest({s \in RevisionsOf(f) :
                     s <= cursor \/ (Own(s) /\ queue[f][log[s].by].stage = "acked")})

\* sync_next and sync_commit_payload: an operation is only ever sent on a base
\* that the device has applied, made itself, or had decided; so no upload
\* replaces a revision nobody here has dealt with.
BasesReviewed ==
    \A f \in Files : \A i \in 1..Len(queue[f]) :
        LET b == queue[f][i].base IN
        queue[f][i].frozen /\ b # 0 =>
            \/ Own(b) /\ queue[f][log[b].by].stage = "acked"
            \/ b <= cursor /\ Reviewed(b)

\* sync_apply_pending: the echo of an own operation, also one whose answer was
\* lost, is never reported as a conflict with itself.
NoSelfConflict == \A s \in 1..Len(inbox) : Own(s) => inbox[s].conflict = "none"

\* What discovery cannot see any more (the catalogue agrees with the disk) and
\* is not the head's content is on its way to the server or to the person.
EditsAccountedFor ==
    ~Locked => \A f \in Files :
        disk[f] = observed[f] /\ disk[f] # heads[f].hash =>
            \/ Outgoing(f) # {}
            \/ Open(f) # {}
            \/ \E s \in Pending : log[s].file = f

\* sync_apply_pending: outside a decision the engine only replaces or deletes
\* a file whose content the server's log has for it.
NeverOverwritesUnsynced ==
    [][hold.step = "apply" =>
         \A f \in Files : disk'[f] # disk[f] /\ disk[f] # Absent
                          /\ budget'.externals = budget.externals =>
             \E s \in RevisionsOf(f) : log[s].content = disk[f]]_vars

\* What the person chose is done. The local file is an operation of its own,
\* not sent yet; the incoming revision was written, unless something was written
\* after it, or was the deletion of a file already gone; a copy is an operation.
LocalKept(s) == LET f == log[s].file  d == inbox[s].decision IN
    /\ d.op \in 1..Len(queue[f])
    /\ queue[f][d.op].content = d.expected /\ queue[f][d.op].stage = "pending"
RevisionTaken(s) == LET f == log[s].file  d == inbox[s].decision IN
    \/ observed[f] = log[s].content
    \/ Len(queue[f]) > d.seen
    \/ log[s].content = Absent /\ d.expected = Absent
CopyKept(s) == LET d == inbox[s].decision IN
    \E i \in 1..Len(queue[d.copy]) : queue[d.copy][i].content = d.expected

\* sync_apply_resolution, sync_resume_resolutions: a conflict is closed only
\* when what the person chose is done, on the revision that is still the head,
\* wherever the decision was cut short, resumed, or met by edits and revisions;
\* closing it leaves the decision's own operation in the queue.
DecisionsDone ==
    [][\A s \in 1..Len(inbox) :
          inbox[s].conflict # "resolved" /\ inbox'[s].conflict = "resolved" =>
             /\ CurrentHead(s)
             /\ IF inbox[s].decision.choice = "local"
                THEN LocalKept(s) /\ LocalKept(s)' ELSE RevisionTaken(s)
             /\ inbox[s].decision.choice = "copy" => CopyKept(s)]_vars

\* sync_apply_resolution: a decision, also one resumed after a stop, archives
\* only operations that were there when the person took it. A resumed decision
\* does not keep to this (README, section 7).
DecisionsSpareLaterEdits ==
    [][hold.step = "settle" =>
         LET s == hold.seq  f == log[hold.seq].file IN
         \A i \in 1..Len(queue[f]) :
             queue'[f][i].stage = "archived" /\ queue[f][i].stage # "archived" =>
                 i <= inbox[s].decision.seen]_vars

\* sync_resolve, sync_resume_resolutions: a decision that was accepted is
\* eventually carried out. One that does not apply any more never is, and blocks
\* every cycle (README, section 7).
DecisionsComplete ==
    \A s \in 1..(MaxOthers + MaxEdits + MaxExternals) :
        (s \in Unsettled) ~> (s \notin Unsettled)

\* Once edits, failures and other devices are quiet, every file is what the
\* server has, or waits for a decision.
Converges ==
    <>[](\A f \in Files : disk[f] = ServerContent(f) \/ Open(f) # {})
=============================================================================

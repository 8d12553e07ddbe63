---------------------------- MODULE SyncBinding ----------------------------
(***************************************************************************)
(* How a vault comes to follow a remote one, and stops: sync_commands.rs,  *)
(* sync_initial.rs, sync_state.rs, sync_auth.rs, sync_retry.rs,            *)
(* sync_progress.rs, sync_scope.rs and the parts of sync_discovery.rs,     *)
(* sync_inbox.rs and sync_client.rs that a change of binding meets.        *)
(*                                                                         *)
(* The vault is bound to one remote at a time, by merging a snapshot the   *)
(* person was shown, by uploading to an empty remote or by downloading     *)
(* into an empty vault.  Unbinding archives the queue; another binding, to *)
(* the same remote or to another one, starts from the files as they are.   *)
(* One gate serialises login, preview, bind, logout and the cycles; unbind *)
(* and pause do not take it, they only cancel the cycle in progress.       *)
(*                                                                         *)
(* SyncEngine has one binding for ever and every step of its engine; here  *)
(* a file operation is one step, and decisions on conflicts are left out.  *)
(* A file keeps its path, so the identities that can meet at a path are    *)
(* the one made here and the ones of the remotes' other devices;           *)
(* file_aliases is left out.                                               *)
(***************************************************************************)
EXTENDS Naturals, Sequences, FiniteSets, FiniteSetsExt

CONSTANTS
    Paths,        \* paths of the vault
    Optional,     \* the ones the optional scope may leave out
    Contents,     \* file contents, named by their digest
    Absent,       \* the digest of no file
    Remotes,      \* remote vaults of the account
    Here,         \* origin of the identities made by this device
    PageSize,     \* revisions in a page of changes, or of the snapshot
    None,         \* no binding, no holder of the gate, ...
    MaxBindings,  \* bound: bindings made
    MaxEvents     \* bound: edits, other devices' commits, failures, commands

ASSUME ConstantsAssumption ==
    /\ IsFiniteSet(Paths) /\ IsFiniteSet(Remotes)
    /\ Optional \subseteq Paths
    /\ Absent \notin Contents
    /\ Here \notin Remotes
    /\ PageSize \in Nat \ {0}
    /\ MaxBindings \in Nat /\ MaxEvents \in Nat

VARIABLES
    log,        \* per remote: the server's revisions
    wire,       \* commits sent and not yet seen by the server
    peers,      \* another device of the account may commit
    session,    \* the saved session
    disk,       \* the vault directory
    row,        \* table files: the identity at each path
    observed,   \* table sync_observed, with files.deleted
    queue,      \* tables outbox and sync_jobs: work that is not acknowledged; operation
                \* ids grow with the rows, so their order is the order of the queue
    binding,    \* the active row of sync_bindings
    bindings,   \* how many rows sync_bindings has
    initial,    \* tables sync_initial, sync_initial_items
    window,     \* table sync_windows
    inbox,      \* table sync_inbox: the revision that is not applied yet
    heads,      \* table sync_heads of the active binding
    conflicts,  \* table sync_conflicts of the active binding: open ones
    paused,     \* table sync_preferences
    retry,      \* table sync_retry
    scope,      \* table sync_optional_scope
    preview,    \* what the person was shown
    gate,       \* who holds the gate, and where it is
    activity,   \* the panel's status of the binding
    inherited,  \* history: paths without a file when the vault was bound that an
                \* earlier observation says have one, and that have it again
                \* when the binding discovers
    ops,        \* operation ids used
    events      \* what is left of MaxEvents

server == <<log, wire, peers>>
files == <<disk, row, observed>>
merging == <<initial, window, inbox, heads, conflicts, inherited>>
state == <<binding, bindings, paused, retry, scope>>
vars == <<server, session, files, queue, merging, state, preview, gate,
          activity, ops, events>>

-----------------------------------------------------------------------------
(* Types *)

Hashes == Contents \cup {Absent}
Ids == (Remotes \cup {Here}) \X Paths
PathOf(f) == f[2]

\* by is the device's operation, 0 for another device's.
Revisions == [id: Ids, content: Hashes, by: Nat]
Commits == [remote: Remotes, op: Nat, id: Ids, content: Hashes, base: Nat]
\* "pending": outbox only.  "queued", "committing", "conflict": sync_jobs.
Jobs == [op: Nat, id: Ids, content: Hashes, base: Nat,
         stage: {"pending", "queued", "committing", "conflict"}]
Bindings == [id: Nat, remote: Remotes, cursor: Nat]
\* items: put revisions of the snapshot that are not merged yet.
Initials == [boundary: Nat, items: SUBSET Nat]
Retries == [halted: BOOLEAN, waiting: BOOLEAN]
\* What the fingerprint covers.
Previews == [remote: Remotes, local: [Paths -> Hashes], boundary: Nat,
             scope: BOOLEAN]
\* A bind waits for the remote's answer at "merge", "upload" or "download",
\* a cycle passes the other points.  seen: the remote's length in the answer.
Points == {"merge", "upload", "download", "checked", "handshake", "discover",
           "pull", "fetch", "item", "staged", "push", "upload_object",
           "commit", "sent"}
Holders == [at: Points, binding: Nat, remote: Remotes, seen: Nat, stale: BOOLEAN,
            retried: BOOLEAN, last: BOOLEAN, todo: SUBSET Nat, op: Nat,
            reply: {"none", "accepted", "rejected"}]

ASSUME NoneAssumption == None \notin Bindings \cup Initials \cup Holders

TypeOK ==
    /\ log \in [Remotes -> Seq(Revisions)]
    /\ wire \subseteq Commits
    /\ session \in {"absent", "fresh", "expired", "dead"}
    /\ disk \in [Paths -> Hashes]
    /\ row \in [Paths -> Ids] /\ \A p \in Paths : PathOf(row[p]) = p
    /\ observed \in [Ids -> Hashes]
    /\ queue \subseteq Jobs
    /\ binding # None => binding \in Bindings
    /\ initial # None => initial \in Initials
    /\ window \in Nat /\ inbox \in Nat /\ bindings \in Nat
    /\ ops \in Nat /\ events \in Nat
    /\ heads \in [Ids -> Nat]
    /\ conflicts \subseteq Paths /\ inherited \subseteq Paths
    /\ paused \in BOOLEAN /\ scope \in BOOLEAN /\ peers \in BOOLEAN
    /\ retry \in Retries
    /\ preview # None => preview \in Previews
    /\ gate # None => gate \in Holders
    /\ activity \in {"none", "running", "done"}

-----------------------------------------------------------------------------
(* The server, as the client relies on it *)

Latest(r, f, n) == Max({0} \cup {s \in 1..n : log[r][s].id = f})
ContentAt(r, s) == IF s = 0 THEN Absent ELSE log[r][s].content
Current(r, f) == ContentAt(r, Latest(r, f, Len(log[r])))
LiveAt(r, p) == {f \in (Remotes \cup {Here}) \X {p} : Current(r, f) # Absent}

\* A commit repeated with its operation id gets its first answer; a new one
\* needs the current base, and a path no other file has.
Known(m) == \E s \in 1..Len(log[m.remote]) : log[m.remote][s].by = m.op
Acceptable(m) ==
    /\ m.base = Latest(m.remote, m.id, Len(log[m.remote]))
    /\ m.content # Absent => LiveAt(m.remote, PathOf(m.id)) \subseteq {m.id}

Serve(m) ==
    LET accepted == Known(m) \/ Acceptable(m) IN
    /\ wire' = wire \ {m}
    /\ log' = IF accepted /\ ~Known(m)
              THEN [log EXCEPT ![m.remote] =
                      Append(@, [id |-> m.id, content |-> m.content, by |-> m.op])]
              ELSE log
    /\ gate' = IF gate # None /\ gate.at = "sent" /\ gate.op = m.op
               THEN [gate EXCEPT !.reply = IF accepted THEN "accepted" ELSE "rejected"]
               ELSE gate
    /\ UNCHANGED <<peers, session, files, queue, merging, state, preview,
                   activity, ops, events>>

Happens == events > 0 /\ events' = events - 1

\* A revision is staged and applied under one lock of the workspace.
Unlocked == IF gate = None THEN TRUE ELSE gate.at # "staged"

\* Another device commits: to the file at the path, or a file of its own.
OtherCommit(r, p, c) ==
    LET f == IF LiveAt(r, p) # {} THEN CHOOSE g \in LiveAt(r, p) : TRUE
             ELSE <<r, p>> IN
    /\ peers /\ Happens
    /\ Current(r, f) # c
    /\ log' = [log EXCEPT ![r] = Append(@, [id |-> f, content |-> c, by |-> 0])]
    /\ UNCHANGED <<wire, peers, session, files, queue, merging, state, preview,
                   gate, activity, ops>>

-----------------------------------------------------------------------------
(* The vault *)

\* sync_path_enabled.
Enabled(p) == scope \/ p \notin Optional
LocalPaths == {p \in Paths : Enabled(p) /\ disk[p] # Absent}
\* The catalogue has the file: path_for_id finds it.
Tracked(f) == row[PathOf(f)] = f /\ observed[f] # Absent

NewJob(n, f, c) == [op |-> n, id |-> f, content |-> c, base |-> 0,
                    stage |-> "pending"]
\* The files are taken in some order, and get operation ids of their own.
Order(S) == CHOOSE n \in [S -> 1..Cardinality(S)] : \A x, y \in S : n[x] = n[y] => x = y
Puts(S, n) == {NewJob(n + Order(S)[p], row[p], disk[p]) : p \in S}
Deletions(S, n) == {NewJob(n + Order(S)[f], f, Absent) : f \in S}

Edit(p, c) ==
    /\ Unlocked /\ c # disk[p] /\ Happens
    /\ disk' = [disk EXCEPT ![p] = c]
    /\ observed' = [observed EXCEPT ![row[p]] = c]
    /\ queue' = queue \cup {NewJob(ops + 1, row[p], c)}
    /\ ops' = ops + 1
    /\ UNCHANGED <<server, session, row, merging, state, preview, gate, activity>>

OutsideEdit(p, c) ==
    /\ c # disk[p] /\ Happens
    /\ disk' = [disk EXCEPT ![p] = c]
    /\ UNCHANGED <<server, session, row, observed, queue, merging, state,
                   preview, gate, activity, ops>>

-----------------------------------------------------------------------------
(* Login, logout and the saved session: sync_auth.rs *)

Free == gate = None

\* "dead": the server rotated the tokens and its answer was lost, or another
\* device revoked this one.
Expire ==
    /\ session = "fresh" /\ Happens
    /\ session' \in {"expired", "dead"}
    /\ UNCHANGED <<server, files, queue, merging, state, preview, gate,
                   activity, ops>>

\* A login of the account of the binding clears its retry decision.
Login ==
    /\ Free /\ session # "fresh"
    /\ session' = "fresh"
    /\ retry' = [halted |-> FALSE, waiting |-> FALSE]
    /\ activity' = "none"
    /\ UNCHANGED <<server, files, queue, merging, binding, bindings, paused,
                   scope, preview, gate, ops, events>>

\* client: an expired session is refreshed before it is used; the answer may
\* be lost.
Refresh ==
    /\ Free /\ session = "expired"
    /\ \/ session' = "fresh" /\ UNCHANGED events
       \/ session' = "dead" /\ Happens
    /\ UNCHANGED <<server, files, queue, merging, state, preview, gate,
                   activity, ops>>

\* cancel: the cycle in progress ends at its next tick.
Cancelled == IF gate = None THEN None
             ELSE IF gate.at = "checked" THEN gate
             ELSE [gate EXCEPT !.stale = TRUE]

\* sync_logout cancels, waits for the gate and erases the session.
Logout ==
    /\ Free /\ session = "fresh" /\ Happens
    /\ session' = "absent"
    /\ UNCHANGED <<server, files, queue, merging, state, preview, gate,
                   activity, ops>>

\* sync_revoke_device, of another device.
RevokeDevice ==
    /\ Free /\ session = "fresh" /\ binding # None
    /\ peers /\ Happens
    /\ peers' = FALSE
    /\ UNCHANGED <<log, wire, session, files, queue, merging, state, preview,
                   gate, activity, ops>>

-----------------------------------------------------------------------------
(* Preview and bind *)

Shown(r, n) == [remote |-> r, boundary |-> n, scope |-> scope,
                local |-> [p \in Paths |-> IF p \in LocalPaths THEN disk[p]
                                           ELSE Absent]]

Preview(r) ==
    /\ Free /\ session = "fresh" /\ binding = None
    /\ preview' = Shown(r, Len(log[r]))
    /\ preview' # preview
    /\ UNCHANGED <<server, session, files, queue, merging, state, gate,
                   activity, ops, events>>

Holder(at, r, n, b) == [at |-> at, binding |-> b, remote |-> r, seen |-> n,
                        stale |-> FALSE, retried |-> FALSE, last |-> FALSE,
                        todo |-> {}, op |-> 0, reply |-> "none"]

\* sync_bind asks the remote before it takes the workspace: a snapshot, or
\* whether it is empty, or whether it is there.
AskRemote(mode, r) ==
    /\ Free /\ session = "fresh" /\ binding = None
    /\ bindings < MaxBindings
    /\ mode = "upload" => log[r] = <<>>
    /\ gate' = Holder(mode, r, Len(log[r]), 0)
    /\ UNCHANGED <<server, session, files, queue, merging, state, preview,
                   activity, ops, events>>

NewBinding(r, cursor) == [id |-> bindings + 1, remote |-> r, cursor |-> cursor]

\* The binding's rows of the other tables do not exist yet.
FreshTables ==
    /\ bindings' = bindings + 1
    /\ window' = 0 /\ inbox' = 0 /\ conflicts' = {}
    /\ paused' = FALSE
    /\ retry' = [halted |-> FALSE, waiting |-> FALSE]
    /\ inherited' = {p \in Paths : disk[p] = Absent /\ observed[row[p]] # Absent}
    /\ gate' = None /\ preview' = None

\* The newest revisions of the snapshot that have content, and the ones at a path.
Items(r, n) == {s \in 1..n : /\ Latest(r, log[r][s].id, n) = s
                             /\ log[r][s].content # Absent}
ItemsAt(r, n, p) == {s \in Items(r, n) : PathOf(log[r][s].id) = p}
\* Files the snapshot has take its identity.
Adopted(r, n, p) == IF ItemsAt(r, n, p) = {} THEN row[p]
                    ELSE log[r][CHOOSE s \in ItemsAt(r, n, p) : TRUE].id
Identical(r, n) == {p \in LocalPaths :
                        \E s \in ItemsAt(r, n, p) : log[r][s].content = disk[p]}
Different(r, n) == LocalPaths \ Identical(r, n)
MergeJobs(r, n) == {NewJob(ops + Order(Different(r, n))[p], Adopted(r, n, p), disk[p]) :
                        p \in Different(r, n)}

\* sync_bind_initial, one transaction, after the fingerprint was compared
\* again.
BindMerge ==
    /\ gate # None /\ gate.at = "merge"
    /\ preview = Shown(gate.remote, gate.seen)
    /\ LET r == gate.remote
           n == gate.seen
       IN /\ binding' = NewBinding(r, IF Items(r, n) = {} THEN n ELSE 0)
          /\ initial' = IF Items(r, n) = {} THEN None
                        ELSE [boundary |-> n, items |-> Items(r, n)]
          /\ row' = [p \in Paths |-> IF p \in LocalPaths THEN Adopted(r, n, p) ELSE row[p]]
          /\ observed' = [f \in Ids |->
                LET p == PathOf(f) IN
                IF p \notin LocalPaths THEN observed[f]
                ELSE IF f = Adopted(r, n, p) THEN disk[p]
                ELSE IF f = row[p] THEN Absent ELSE observed[f]]
          /\ heads' = [f \in Ids |->
                LET s == Latest(r, f, n) IN
                IF s \in Items(r, n) /\ PathOf(f) \notin Identical(r, n) THEN 0 ELSE s]
          /\ queue' = MergeJobs(r, n)
          /\ ops' = ops + Cardinality(Different(r, n))
    /\ FreshTables
    /\ UNCHANGED <<server, session, disk, scope, activity, events>>

\* sync_bind_empty: every file is queued once, then captured for the binding.
\* The queue of an earlier binding is archived; on the first one, what was
\* written before stays queued.
Waiting(p) == \E j \in queue : j.id = row[p] /\ j.stage = "pending"
Carried == IF bindings > 0 THEN {} ELSE queue
\* Defect: a file whose content was observed is taken for queued.
UnqueuedIfUnseen == {p \in LocalPaths : observed[row[p]] # disk[p]}
Unqueued == {p \in LocalPaths : bindings > 0 \/ ~Waiting(p)}
ObservedNow(S) == [f \in Ids |-> IF PathOf(f) \in S /\ f = row[PathOf(f)]
                                 THEN disk[PathOf(f)] ELSE observed[f]]
\* sync_capture: the work of paths in scope becomes the binding's.
Captured(q) == {[j EXCEPT !.stage = IF @ = "pending" THEN "queued" ELSE @] : j \in q}
InScope(q) == {j \in q : j.stage # "pending" \/ Enabled(PathOf(j.id))}

BindUpload ==
    /\ gate # None /\ gate.at = "upload"
    /\ queue' = Captured(InScope(Carried \cup Puts(Unqueued, ops)))
    /\ ops' = ops + Cardinality(Unqueued)
    /\ observed' = ObservedNow(Unqueued)
    /\ binding' = NewBinding(gate.remote, 0)
    /\ initial' = None
    /\ heads' = [f \in Ids |-> 0]
    /\ FreshTables
    /\ UNCHANGED <<server, session, disk, row, scope, activity, events>>

\* The process stops while sync_bind_empty queues the files: it is not one
\* transaction.
BindUploadStops(S) ==
    /\ gate # None /\ gate.at = "upload"
    /\ Happens
    /\ S \subseteq Unqueued
    /\ queue' = Carried \cup Puts(S, ops)
    /\ ops' = ops + Cardinality(S)
    /\ observed' = ObservedNow(S)
    /\ gate' = None /\ preview' = None /\ activity' = "none"
    /\ UNCHANGED <<server, session, disk, row, merging, state>>

\* sync_bind_download.
BindDownload ==
    /\ gate # None /\ gate.at = "download"
    /\ LocalPaths = {}
    /\ queue' = {}
    /\ binding' = NewBinding(gate.remote, 0)
    /\ initial' = None
    /\ heads' = [f \in Ids |-> 0]
    /\ FreshTables
    /\ UNCHANGED <<server, session, files, scope, activity, ops, events>>

\* SYNC_PREVIEW_CHANGED, SYNC_RECONCILIATION_REQUIRED.
BindRefused ==
    /\ gate # None
    /\ \/ gate.at = "merge" /\ preview # Shown(gate.remote, gate.seen)
       \/ gate.at = "download" /\ LocalPaths # {}
    /\ gate' = None
    /\ UNCHANGED <<server, session, files, queue, merging, state, preview,
                   activity, ops, events>>

\* sync_unbind: cancel, then one transaction that archives the binding and
\* the outbox.
Unbind ==
    /\ Unlocked /\ binding # None /\ Happens
    /\ gate' = Cancelled
    /\ binding' = None /\ queue' = {}
    /\ initial' = None /\ window' = 0 /\ inbox' = 0 /\ conflicts' = {}
    /\ heads' = [f \in Ids |-> 0]
    /\ paused' = FALSE /\ inherited' = {}
    /\ retry' = [halted |-> FALSE, waiting |-> FALSE]
    /\ UNCHANGED <<server, session, files, bindings, scope, preview, activity,
                   ops>>

\* sync_pause: resuming clears the retry decision; the status goes.
Pause ==
    /\ Unlocked /\ binding # None /\ Happens
    /\ gate' = Cancelled
    /\ paused' = ~paused
    /\ retry' = IF paused THEN [halted |-> FALSE, waiting |-> FALSE] ELSE retry
    /\ activity' = "none"
    /\ UNCHANGED <<server, session, files, queue, merging, binding, bindings,
                   scope, preview, ops>>

SetScope ==
    /\ binding = None /\ Happens
    /\ scope' = ~scope
    /\ UNCHANGED <<server, session, files, queue, merging, binding, bindings,
                   paused, retry, preview, gate, activity, ops>>

-----------------------------------------------------------------------------
(* The cycle: run and cycle of sync_commands.rs *)

Running(at) == gate # None /\ gate.at = at
InCycle == gate # None /\ gate.at \notin {"merge", "upload", "download", "checked"}
\* check_binding, at every access to the workspace.
Held == binding # None /\ binding.id = gate.binding
Goto(at) == gate' = [gate EXCEPT !.at = at]

\* The binding, whether it is paused and, for an automatic run, whether it
\* may be tried again are read before the epoch.
Run(manual) ==
    /\ Free /\ binding # None /\ ~paused
    /\ manual \/ ~(retry.halted \/ retry.waiting)
    /\ gate' = Holder("checked", binding.remote, 0, binding.id)
    /\ UNCHANGED <<server, session, files, queue, merging, state, preview,
                   activity, ops, events>>

Launch ==
    /\ Running("checked")
    /\ Goto("handshake")
    /\ activity' = "running"
    /\ UNCHANGED <<server, session, files, queue, merging, state, preview, ops,
                   events>>

\* retry_at lies at most an hour ahead.
Elapse ==
    /\ retry.waiting /\ Free
    /\ retry' = [retry EXCEPT !.waiting = FALSE]
    /\ UNCHANGED <<server, session, files, queue, merging, binding, bindings,
                   paused, scope, preview, gate, activity, ops, events>>

\* Activity::finish; the status may have been removed meanwhile.
Finished == IF activity = "running" THEN "done" ELSE activity

\* Success and failure are recorded only for the binding of the run.
EndRun(result) ==
    /\ gate' = None
    /\ activity' = Finished
    /\ retry' = IF result = "cancelled" \/ ~Held THEN retry
                ELSE [halted |-> result = "halted", waiting |-> result # "ok"]
    /\ UNCHANGED <<server, files, queue, merging, binding, bindings, paused,
                   scope, preview, ops>>

\* The tick finds the epoch moved or the binding gone, or an access does.
RunCancelled ==
    /\ InCycle /\ Unlocked /\ (gate.stale \/ ~Held)
    /\ EndRun("cancelled")
    /\ UNCHANGED <<session, events>>

AtNetwork == InCycle /\ gate.at \in {"handshake", "fetch", "item", "upload_object",
                                     "commit", "sent"}

\* An error of the network or of the server, a quota, locked credentials.
RunFails ==
    /\ AtNetwork /\ Happens
    /\ \E result \in {"failed", "halted"} : EndRun(result)
    /\ UNCHANGED session

\* authenticated: an answer of 401 renews the session once and starts the
\* work again; a second one, or a session that cannot be renewed, halts.
Unauthorized ==
    /\ AtNetwork /\ gate.at # "sent" /\ session # "fresh"
    /\ \/ /\ session = "expired" /\ ~gate.retried
          /\ session' = "fresh"
          /\ gate' = [gate EXCEPT !.at = "handshake", !.retried = TRUE,
                                  !.last = FALSE, !.todo = {}]
          /\ UNCHANGED <<server, files, queue, merging, state, preview,
                         activity, ops, events>>
       \/ /\ session = "expired" /\ gate.retried
          /\ EndRun("halted") /\ UNCHANGED <<session, events>>
       \/ /\ session \in {"absent", "dead"}
          /\ EndRun("halted") /\ UNCHANGED <<session, events>>

Authorized == session = "fresh"

Handshake ==
    /\ Running("handshake") /\ Authorized
    /\ Goto("discover")
    /\ UNCHANGED <<server, session, files, queue, merging, state, preview,
                   activity, ops, events>>

\* sync_discover: the deletions and then the puts the disk shows against
\* sync_observed, whatever binding observed it.
Vanished == {f \in Ids : /\ observed[f] # Absent /\ Enabled(PathOf(f))
                         /\ ~(row[PathOf(f)] = f /\ disk[PathOf(f)] # Absent)}
Changed == {p \in LocalPaths : observed[row[p]] # disk[p]}

Discover ==
    /\ Running("discover") /\ Held
    /\ queue' = queue \cup Deletions(Vanished, ops)
                      \cup Puts(Changed, ops + Cardinality(Vanished))
    /\ ops' = ops + Cardinality(Vanished) + Cardinality(Changed)
    /\ observed' = [f \in Ids |->
          IF f \in Vanished THEN Absent
          ELSE IF PathOf(f) \in Changed /\ row[PathOf(f)] = f THEN disk[PathOf(f)]
          ELSE observed[f]]
    /\ inherited' = {p \in inherited : row[p] \notin Vanished}
    /\ Goto("pull")
    /\ UNCHANGED <<server, session, disk, row, initial, window, inbox, heads,
                   conflicts, state, preview, activity, events>>

\* The first revisions of a set, in the order of their sequence.
Page(S) == {s \in S : Cardinality({t \in S : t <= s}) <= PageSize}

\* pull_page: first what was staged and not applied; then the snapshot's items
\* while an initial merge is pending, else a page of changes.
Pull ==
    /\ Running("pull") /\ Held
    /\ IF inbox # 0 THEN Goto("staged")
       ELSE IF initial # None
       THEN gate' = [gate EXCEPT !.at = "item", !.todo = Page(initial.items)]
       ELSE Goto("fetch")
    /\ UNCHANGED <<server, session, files, queue, merging, state, preview,
                   activity, ops, events>>

\* The boundary of the window of changes: the one that was stored, else the
\* head the server answers.
Boundary(r) == IF window # 0 THEN window ELSE Len(log[r])

Fetch ==
    /\ Running("fetch") /\ Authorized /\ Held
    /\ LET r == gate.remote
           end == Boundary(r)
           page == Page(binding.cursor + 1 .. end)
       IN \/ /\ page # {}
             /\ window' = end
             /\ gate' = [gate EXCEPT !.at = "item", !.todo = page]
             /\ UNCHANGED <<server, session, files, queue, initial, inbox, heads,
                            conflicts, inherited, state, preview, activity, ops, events>>
          \/ /\ page = {} /\ ~gate.last
             /\ Goto("push")
             /\ UNCHANGED <<server, session, files, queue, merging, state,
                            preview, activity, ops, events>>
          \/ /\ page = {} /\ gate.last
             /\ EndRun("ok") /\ UNCHANGED <<session, events>>

\* Revisions are taken in the order of their sequence.
NextItem == Min(gate.todo)

\* The object of a put in scope is downloaded, then sync_stage makes the
\* revision durable; sync_apply_pending follows under the same lock.
Stage ==
    /\ Running("item") /\ gate.todo # {} /\ Authorized /\ Held
    /\ inbox' = NextItem
    /\ gate' = [gate EXCEPT !.at = "staged", !.todo = @ \ {NextItem}]
    /\ UNCHANGED <<server, session, files, queue, initial, window, heads,
                   conflicts, inherited, state, preview, activity, ops, events>>

\* The cycle pulls until a page is empty, ten pages at most; a window that is
\* still open then ends it.
PageDone ==
    /\ Running("item") /\ gate.todo = {} /\ Held
    /\ \/ /\ ~gate.last
          /\ \/ Goto("pull")
             \/ window = 0 /\ Goto("push")
          /\ UNCHANGED <<server, session, files, queue, merging, state,
                         preview, activity, ops, events>>
       \/ /\ gate.last \/ window # 0
          /\ EndRun("ok") /\ UNCHANGED <<session, events>>

-----------------------------------------------------------------------------
(* sync_apply_pending and sync_finish *)

\* Defect: the first merged file moves the cursor to the snapshot's boundary.
FinishMergeEarly(s) ==
    /\ binding' = [binding EXCEPT !.cursor = IF initial = None THEN s
                                             ELSE initial.boundary]
    /\ initial' = None
    /\ window' = IF window = s THEN 0 ELSE window
    /\ inbox' = 0
\* The cursor follows the applied revision; during an initial merge it moves
\* once, to the snapshot's boundary, with the last item.
MoveCursor(s) ==
    LET left == initial.items \ {s} IN
    /\ IF initial = None
       THEN binding' = [binding EXCEPT !.cursor = s] /\ UNCHANGED initial
       ELSE IF left = {}
       THEN /\ binding' = [binding EXCEPT !.cursor = initial.boundary]
            /\ initial' = None
       ELSE initial' = [initial EXCEPT !.items = left] /\ UNCHANGED binding
    /\ window' = IF window = s THEN 0 ELSE window
    /\ inbox' = 0

Newer(f, s) == IF heads[f] < s THEN [heads EXCEPT ![f] = s] ELSE heads
Finish(s) == MoveCursor(s) /\ heads' = Newer(log[gate.remote][s].id, s)

Own(s) == {j \in queue : j.op = log[gate.remote][s].by /\ j.stage # "conflict"}
Queued(f) == \E j \in queue : j.id = f
HeadContent(f) == ContentAt(gate.remote, heads[f])
\* Local work the revision would destroy.
LocalWork(f) ==
    \/ Queued(f)
    \/ ~Tracked(f) /\ disk[PathOf(f)] # Absent
    \/ Tracked(f) /\ (heads[f] = 0 \/ HeadContent(f) # disk[PathOf(f)])

Settled == UNCHANGED <<server, session, inherited, bindings, paused, retry, scope, preview,
                       activity, ops, events>>

\* Out of scope, the device's own, or known: only the tables move.
ApplyNothing(s) ==
    LET f == log[gate.remote][s].id IN
    /\ \/ ~Enabled(PathOf(f)) \/ Own(s) # {} \/ heads[f] >= s
    /\ queue' = IF Enabled(PathOf(f)) THEN queue \ Own(s) ELSE queue
    /\ UNCHANGED <<files, conflicts>>

\* sync_preserve_conflict.
ApplyConflict(s) ==
    LET f == log[gate.remote][s].id IN
    /\ Enabled(PathOf(f)) /\ Own(s) = {} /\ heads[f] < s
    /\ LocalWork(f)
    /\ conflicts' = conflicts \cup {PathOf(f)}
    /\ queue' = {IF PathOf(j.id) = PathOf(f) /\ j.stage # "pending"
                 THEN [j EXCEPT !.stage = "conflict"] ELSE j : j \in queue}
    /\ UNCHANGED files

ApplyRemote(s) ==
    LET f == log[gate.remote][s].id
        c == log[gate.remote][s].content IN
    /\ Enabled(PathOf(f)) /\ Own(s) = {} /\ heads[f] < s
    /\ ~LocalWork(f)
    /\ disk' = [disk EXCEPT ![PathOf(f)] = c]
    /\ row' = [row EXCEPT ![PathOf(f)] = IF c = Absent THEN @ ELSE f]
    /\ observed' = [observed EXCEPT ![f] = IF c # Absent \/ Tracked(f) THEN c ELSE @]
    /\ UNCHANGED <<queue, conflicts>>

Apply ==
    /\ Running("staged")
    /\ ApplyNothing(inbox) \/ ApplyConflict(inbox) \/ ApplyRemote(inbox)
    /\ Finish(inbox)
    /\ Goto("item")
    /\ Settled

-----------------------------------------------------------------------------
(* push_one *)

\* sync_next: the oldest job that is not part of an open conflict.
Sendable(q) == {j \in q : /\ j.stage \in {"queued", "committing"}
                          /\ PathOf(j.id) \notin conflicts}
Oldest(q) == CHOOSE j \in q : \A k \in q : j.op <= k.op

\* Nothing is pushed while the initial merge is pending.
Push ==
    /\ Running("push") /\ Held
    /\ IF initial # None
       THEN /\ gate' = [gate EXCEPT !.at = "pull", !.last = TRUE]
            /\ UNCHANGED queue
       ELSE LET q == Captured(InScope(queue))
                j == Oldest(Sendable(q))
            IN /\ queue' = q
               /\ gate' = IF Sendable(q) = {}
                          THEN [gate EXCEPT !.at = "pull", !.last = TRUE]
                          ELSE [gate EXCEPT !.op = j.op, !.at =
                                  IF j.stage = "committing" \/ j.content = Absent
                                  THEN "commit" ELSE "upload_object"]
    /\ UNCHANGED <<server, session, files, merging, state, preview, activity,
                   ops, events>>

Job == CHOOSE j \in queue : j.op = gate.op
\* check_job: the job is still the binding's, and not superseded.
CheckJob == Held /\ \E j \in queue : j.op = gate.op /\ j.stage # "conflict"

UploadObject ==
    /\ Running("upload_object") /\ Authorized /\ CheckJob
    /\ Goto("commit")
    /\ UNCHANGED <<server, session, files, queue, merging, state, preview,
                   activity, ops, events>>

\* sync_commit_payload freezes the base once; the request leaves.
Commit ==
    /\ Running("commit") /\ Authorized /\ CheckJob
    /\ LET base == IF Job.stage = "committing" THEN Job.base ELSE heads[Job.id] IN
       /\ queue' = (queue \ {Job}) \cup {[Job EXCEPT !.stage = "committing", !.base = base]}
       /\ wire' = wire \cup {[remote |-> gate.remote, op |-> Job.op, id |-> Job.id,
                              content |-> Job.content, base |-> base]}
    /\ gate' = [gate EXCEPT !.at = "sent", !.reply = "none"]
    /\ UNCHANGED <<log, peers, session, files, merging, state, preview, activity,
                   ops, events>>

\* Where the server has the operation.
Sequence(op) == CHOOSE s \in 1..Len(log[gate.remote]) : log[gate.remote][s].by = op

\* sync_ack.
Ack ==
    /\ Running("sent") /\ gate.reply = "accepted" /\ CheckJob
    /\ heads' = Newer(Job.id, Sequence(gate.op))
    /\ queue' = queue \ {Job}
    /\ gate' = [gate EXCEPT !.at = "push", !.op = 0, !.reply = "none"]
    /\ UNCHANGED <<server, session, files, initial, window, inbox, conflicts,
                   inherited, state, preview, activity, ops, events>>

\* REVISION_CONFLICT or PATH_CONFLICT: the next cycle pulls first.
Rejected ==
    /\ Running("sent") /\ gate.reply = "rejected"
    /\ EndRun("failed")
    /\ UNCHANGED <<session, events>>

-----------------------------------------------------------------------------

Crash ==
    /\ Happens
    /\ gate' = None /\ preview' = None /\ activity' = "none"
    /\ UNCHANGED <<server, session, files, queue, merging, state, ops>>

\* A remote vault is empty, or other devices have filled it; one at most is.
PathsInOrder == CHOOSE s \in [1..Cardinality(Paths) -> Paths] :
                    \A p \in Paths : \E i \in 1..Cardinality(Paths) : s[i] = p
Filled(r, c) == [i \in 1..Cardinality(Paths) |->
                    [id |-> <<r, PathsInOrder[i]>>, content |-> c, by |-> 0]]

Init ==
    /\ \E S \in {{}} \cup {{r} : r \in Remotes}, c \in Contents :
          log = [r \in Remotes |-> IF r \in S THEN Filled(r, c) ELSE <<>>]
    /\ wire = {} /\ peers = TRUE
    /\ session = "absent"
    /\ disk = [p \in Paths |-> Absent]
    /\ row = [p \in Paths |-> <<Here, p>>]
    /\ observed = [f \in Ids |-> Absent]
    /\ queue = {}
    /\ binding = None /\ bindings = 0 /\ initial = None /\ window = 0 /\ inbox = 0
    /\ heads = [f \in Ids |-> 0] /\ conflicts = {} /\ inherited = {}
    /\ paused = FALSE /\ retry = [halted |-> FALSE, waiting |-> FALSE]
    /\ scope = FALSE /\ preview = None /\ gate = None /\ activity = "none"
    /\ ops = 0 /\ events = MaxEvents

Person ==
    \/ \E p \in Paths, c \in Hashes : Edit(p, c) \/ OutsideEdit(p, c)
    \/ Login \/ Logout \/ RevokeDevice \/ Unbind \/ Pause \/ SetScope
    \/ \E r \in Remotes : Preview(r) \/ \E mode \in {"merge", "upload", "download"} :
                                            AskRemote(mode, r)
    \/ Run(TRUE)

Binding == BindMerge \/ BindUpload \/ BindDownload \/ BindRefused

Cycle ==
    \/ Launch \/ RunCancelled \/ Unauthorized \/ Handshake \/ Discover \/ Pull
    \/ Fetch \/ Stage \/ PageDone \/ Apply \/ Push \/ UploadObject
    \/ Commit \/ Ack \/ Rejected

Environment ==
    \/ \E m \in wire : Serve(m)
    \/ \E r \in Remotes, p \in Paths, c \in Hashes : OtherCommit(r, p, c)
    \/ \E S \in SUBSET Paths : BindUploadStops(S)
    \/ Expire \/ Refresh \/ RunFails \/ Crash

Next == Person \/ Binding \/ Cycle \/ Run(FALSE) \/ Elapse \/ Environment

Spec == Init /\ [][Next]_vars

-----------------------------------------------------------------------------
(* Properties *)

\* What the active binding believes of a file is a revision of that file in
\* the log of its own remote, and nothing the cursor passed was skipped: not
\* when the initial merge stops half-way, not when answers to an earlier
\* binding arrive late.
CursorAndHeads ==
    binding # None =>
        LET r == binding.remote IN
        /\ \A f \in Ids : heads[f] # 0 => /\ heads[f] <= Len(log[r])
                                          /\ log[r][heads[f]].id = f
        /\ \A s \in 1..binding.cursor : heads[log[r][s].id] >= s

\* Every local file or deletion in scope that differs from what its binding
\* knows is queued, in conflict, or will be discovered; across unbinding,
\* binding again to another remote and crashes.
Believed(f) == ContentAt(binding.remote, heads[f])
Kept(p) ==
    \/ Believed(row[p]) = disk[p]
    \/ observed[row[p]] # disk[p]
    \/ p \in conflicts
    \/ \E j \in queue : j.id = row[p] /\ j.content = disk[p]
LocalWorkKept ==
    binding # None => \A p \in Paths : Enabled(p) => Kept(p) \/ p \in inherited
=============================================================================

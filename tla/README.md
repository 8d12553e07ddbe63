# OpenNexus verification project

TLA+ models of the parts of OpenNexus that must stay right when processes stop,
messages get lost and several actors change one vault: the write-ahead journal
and the sync engine, the installation and execution of extensions, experiment runs
and the import of their results, the mobile drafts and session, the credential
vault, and the host that serves the window and Core. TLC checks small instances of
every module; TLAPS proves, for every instance, the invariants of the journal, the
sync engine and the binding around it, the installation and execution of extensions, experiment runs and the
import of their results, the mobile drafts and session, the credential vault and the host.

Sources are under `src/frontend/src-tauri/src/` (the host, Rust) and
`src/backend/app/` (the backend, Python) unless a path says otherwise.

## 1. The system

A vault is a directory of notes. The desktop or mobile *host* owns it: one
process holds an exclusive lock, one `Workspace` behind a mutex, and a SQLite
database in `.ainote/`. The user interface and the Python *backend* (agents,
chat, indexing) reach the vault only through host commands. Other programs edit
the directory at any time. A *sync server* (another program; only its client is
in this repository) keeps a log of revisions per vault, shared with other devices.

| Component | State it keeps | Operations | Interacts with | What is hard | What makes it correct |
|---|---|---|---|---|---|
| Workspace journal (`workspace.rs`) | tables `files`, `operations`, `journal`, `file_ops`, `outbox`, `sync_observed`; the directory; `.ainote/trash` | write, rename, delete, replay of a known operation id, recover, open, scan, read | everything that touches a file | a stop between file change and transaction, failing calls, external edits | an operation id takes effect once; upload queue and receipts agree; recovery completes what was accepted; nothing is lost |
| Watcher and identities (`workspace_watch*.rs`, `workspace_identity.rs`) | hints, file-system ids per row | mark, reconcile | journal | events late or lost, files moved outside | an identity follows its file |
| Payload store (`payloads.rs`) | spooled contents by digest | put, open | journal, sync | - | bytes match their digest |
| Sync state (`sync_state.rs`) | `sync_bindings`, `sync_jobs`, `sync_heads`, `sync_preferences`, `sync_optional_scope` | capture, next, commit_payload, ack, bind, unbind, pause | journal, cycle | lost answers, late answers | a base is frozen once and was dealt with; heads follow the log |
| Sync inbox (`sync_inbox.rs`) | `sync_windows`, `sync_inbox`, `sync_conflicts`, the cursor | set_boundary, stage, apply_pending, preserve_conflict, finish | journal, sync state | a stop between two transactions, edits while a page is in flight | in order, exactly once; local work is never overwritten |
| Discovery (`sync_discovery.rs`) | `sync_observed` | discover | journal, outbox | renames and swaps made outside | every local change reaches the outbox |
| Review and resolution (`sync_review.rs`, `sync_resolution.rs`) | `sync_resolutions` | review, resolve, apply_resolution, resume_resolutions | inbox, journal | runs outside the cycle's gate, resumed after a stop | a decision is carried out as reviewed and destroys nothing later |
| Sync cycle (`sync_commands.rs`, `sync_client.rs`) | gate, epoch, where the cycle is | cycle, pull_page, push_one, cancel | all of sync | lock given up around every await | converges |
| Initial merge (`sync_initial.rs`) | previewed snapshot, `sync_initial` rows | preview, bind_initial | inbox | a stop half-way, a stale preview | the cursor waits for the whole snapshot |
| Retry, progress (`sync_retry.rs`, `sync_progress.rs`) | failures, retry_at, halted | fail, clear, attempts | cycle | a halted binding | a transient failure is retried |
| Sync scope, account, TLS, end-to-end prototype | configuration | - | cycle | - | - |
| Mobile session (`mobile_sync_session.rs`, `mobile_sync_foreground.rs`, ...) | auth intents, scopes, selection, lease generation | prepare_*, received_*, reconcile, on_start/on_stop, lease, check | sync | a stop between send and receipt, background transitions | an intent authorises one first send; a lease never becomes current again |
| Mobile drafts (`mobile_drafts.rs`, `mobile_workspace.rs`, ...) | drafts, save intents | checkout, persist, prepare_save, observe_save, cancel_save, apply_save | journal | late receipts | newer typing survives an older receipt |
| Experiment store, runner, import (`experiment_*.rs`) | runs, inputs, outputs, reservations | prepare, approve, claim, running, cancel, finish, recover, import | journal, sandbox | cancel against completion, restart, expiry | a run is claimed once and ends once |
| Experiment cleanup (`experiment_cleanup*.rs`) | one obligation row | stages of one cleanup | runner | a stop between two stages | released only with proof |
| Extension transactions (`extension_transaction.rs`, ...) | `extension_active`, `extension_transactions`, `extension_uninstalls` | switch, finish, recover, rollback, uninstall | permits | a stop during the health check | slots are all old or all new |
| Permits, revocation (`extension_permit.rs`, `extension_revocation.rs`) | generations, leases, epochs | issue, verify, lease, revoke, invalidate_all | extensions, credentials | revocation against use | no use after revocation |
| Credentials, session lock (`credentials.rs`, `session_lock.rs`) | the unlocked key, snapshot, ownership, the journal of an import | unlock, lock, put, delete, change password, backup, restore, import, clean up | permits, sync | lock against unlock in progress, two hosts, a stop inside an import | locked stays locked; no secret is lost |
| Host, Core and their requests (`main.rs`, `core.rs`, `request_lifecycle.rs`, `workspace_broker.rs`, `records.rs`, `recent.rs`) | the open vault, 64 slots, the Core process, receipts of records | prepare, claim, cancel, run, switch vault, start and stop Core, put and delete records | journal, backend | late calls after a switch, calls left in a dead Core's pipe, retries | a change is made once, in the vault it was asked for |
| Agent runtime, collaboration, schedules (`agent/`, `services/task_agent_schedule.py`) | runs, permission tickets, budgets, groups | create_run, resolve_permission, extend_budget, cancel, approve, run_due | host, tools | awaits between check and use, restart | a ticket is answered once; groups end |
| Note, chat, retrieval, providers, export, extensions (backend), sidecar, UI, scripts | - | - | - | - | request-response code, adapters, presentation |

`PROJECT.json` lists every component with its modelling status and the
hazards, each at the line where it bites.

## 2. Plan

Done: the journal with its abstract specification and proofs; the sync engine
with its proofs in three layers; the binding's life around it; then one module per
component of the host that keeps state shared between actors or across a crash:
extensions (two modules and an abstract specification), experiments (two), mobile
(two), credentials, the host itself; proofs for every module.

Next, in this order:

1. Paths in the sync engine: renames, two identities on one path; module
   `DiscoveryOrder` for `order_discovered_puts` against a reference definition;
   `IdentityReconcile` for `reconcile_file_identities`.
2. Moves and deletions of whole directories in the journal (`workspace.rs`).
3. The backend: `AgentRun`, `Collaboration`, the claim of a due schedule.

Composition. Components meet at promises: `SyncEngine`, `SyncBinding`,
`MobileDrafts` and `CoreHost` use a journalled file operation as one step, which is what
`OperationLedger` promises and `WorkspaceJournal` is proved to keep. `ExperimentImport`
models the journal row and its recovery itself, because its own rows change in the
journal's transaction. `ExtensionInstall` publishes and stops instances as one step;
`ExtensionRuntime` opens up the life of one instance. `SyncBinding` reduces the cycle
of `SyncEngine` to what meets a change of the binding.

## 3. Modules

| Module | Content |
|---|---|
| `WorkspaceJournal` | the journal, its properties, the inductive invariant `JournalInv` |
| `OperationLedger` | what the journal promises: each id accepted once, settled once, its upload queued in the settling step |
| `WorkspaceJournalProofs` | theorems about the journal |
| `SyncEngine` | one device synchronising one bound vault |
| `SyncEngineProofs` | theorems about heads (`SyncInv`), about conflicts and bases (`ReviewInv`), about local edits (`EditInv`) and about decisions (`DecisionInv`) |
| `SyncBinding` | login, binding, initial merge, pause, unbinding and binding again, around cycles |
| `SyncBindingProofs` | theorems about what the tables say of the bound remote (`Following`) and about local work (`Working`) |
| `ExtensionInstall` | the extension store and the installing worker: from a download to a published instance |
| `GroupCatalogue` | what a group switch promises: the pointers of a group change together or not at all |
| `ExtensionRuntime` | one sandboxed extension process against locking, unlocking and revocation |
| `ExperimentRun` | experiment runs, their approvals, the worker and its durable cleanup obligation |
| `ExperimentImport` | import of experiment outputs into the vault through the write journal |
| `MobileDrafts` | drafts, editors and save intents over the vault's journal |
| `MobileAuth` | the mobile session coordinator and its auth intents |
| `CredentialVault` | two hosts on one credential vault, and the import of the old store |
| `CoreHost` | requests, vault switches, records and the supervision of Core |
| `ExtensionProofs` | theorems about `ExtensionInstall` and `ExtensionRuntime` |
| `MobileProofs` | theorems about `MobileAuth` and `MobileDrafts` |
| `ExperimentProofs` | theorems about `ExperimentRun` and `ExperimentImport` |
| `CredentialVaultProofs`, `CoreHostProofs` | theorems about these modules |
| `MC...` | one for each: symmetry and constants for TLC |

Definitions whose comment starts with "Defect:" are not part of any
specification. They are plausible bugs of the code, used to check that the
properties can tell a right implementation from a wrong one. `MaxEvents`, `MaxStarts`,
`MaxCrashes`, `MaxIncidents`, `MaxMishaps` and the like are bounds of the model, and have no
counterpart in the code. Two modules about which one module of proofs speaks share no
names: hence `InstanceSpec` of `ExtensionRuntime`, `DraftingSpec` of `MobileDrafts` and
`ImportingSpec` of `ExperimentImport`.

### 3.1 WorkspaceJournal

State: the directory (`disk`, `trash`) and the tables (`files`, `operations`,
`request`, `journal`, `receipt`, `outbox`, `observed`); `hints` and `host` are what
the process holds in memory and loses when it stops.

An operation goes through separately interruptible steps, one action each:

- `SubmitWrite` (`write_source`) or `SubmitMove` (`prepare_file_op_with_id`): the
  checks and the transaction that makes the intent durable. `Reidentified` gives
  the updates by which a remote identity takes a tombstone's path; they are made
  before the transaction, and stay when the operation is then refused.
- `CheckWrite`, `ReplaceFile`, `CommitWrite` (`apply_stored_journal`).
- `CheckMove`, `CopyToTarget`, `RemoveSource`, `CommitMove` (`apply_file_op`).
- `ApplyFails`: the errors these calls return for the state they find.
- `Resubmit` (a known operation id), `Open`, `RecoverNext`, `RecoverDone` (`open`,
  `recover`), `Scan`, `Read`.
- `Crash`, `Fault` (any call of an application fails), `ExternalEdit`.

Digests stand for contents. A `files.path` that a tombstone yields is `Retired`.
A scan keeps the identity of each path and gives new paths new identities.

### 3.2 SyncEngine

State: the server's `log`, commits on the `wire` and the awaited `reply`; the
vault (`disk`, `observed`); per file the `queue` of operations (tables `outbox` and
`sync_jobs`); `heads`, `cursor`, `window`, `inbox` (with conflicts and decisions);
`engine`, the point of the cycle, and `hold`, the work in progress under the lock.

The engine gives up the workspace lock around each await, and the model has a step
for each stretch between two awaits or two transactions:

- `StartCycle` (discovery), `ResumeNext`, `ResumeDone`, `Drain`, `Fetch`, `Stage`,
  `EndPage`: `cycle` and `pull_page`;
- `ApplyOwn`, `ApplyKnown`, `ApplyConflict`, `ApplyFile`, then `Finish`: the branches
  of `sync_apply_pending` and `sync_finish`, in separate transactions;
- `Capture`, `Pick`, `NothingToPush`, `Post`, `PushAcked`, `PushRejected`: `push_one`;
- `Decide`, then `DecideCopy`, `DecideLocal`, `DecideRemote`, `DecideResumed`,
  `DecideFails`, `Settle`: `sync_resolve`, `sync_apply_resolution`;
- `Edit`, `ExternalEdit`, `OtherCommit`, `GiveUp` (a lost request or answer, a failed
  download, a cancelled cycle; the commit may still arrive), `Crash`.

The server is external: `Serve` and `OtherCommit` are what the client relies on. A
commit is accepted on the current head of its file, and a repeated operation id
gets its first answer.

### 3.3 SyncBinding

State: per remote a `log`; the rows of `sync_bindings` (`binding`, `bindings`), `sync_initial`,
`sync_windows`, `sync_inbox`, `sync_heads`, `sync_conflicts`, `sync_preferences` (`paused`),
`sync_retry`, `sync_optional_scope`; the catalogue and `sync_observed` as in `SyncEngine`;
`gate`, who holds the gate and at which point. `queue` is a set: operation ids are numbers that
grow with the rows, so their order is the order of the tables. Where the code walks through
files to queue them, `Order` gives these some order.

- `Login`, `Refresh`, `Expire`, `Logout`, `RevokeDevice`: the session; `Preview`, then
  `AskRemote` and one of `BindMerge`, `BindUpload`, `BindDownload`, `BindRefused`: the preview that was
  shown is compared with the snapshot of the server and the files under the lock; a merge gives
  files the identity the snapshot has at their path (`Adopted`), takes equal ones as synchronised
  (`Identical`) and queues the others (`MergeJobs`);
- `Unbind`, `Pause`, `SetScope` do not take the gate, they cancel the cycle;
- `Run`, `Launch`, `Elapse`, `Handshake`, `Discover`, `Fetch`, `Stage`, `Apply`, `Finish`, `PageDone`, `Job`,
  `CheckJob`, `UploadObject`, `Commit`, `Ack`, `Rejected`, `RunFails`, `RunCancelled`: a cycle between its
  awaits, with the retry row it leaves. Each step after an await compares the
  binding it started with (`Held`), as the code does.

### 3.4 ExtensionInstall, GroupCatalogue

State: the store (`objects`, `staged`, `prepared`, `trusted`, `blocked`), the pointers
`active` (`extension_active`), `txns` (`extension_transactions`), `confirmed`; in memory the
worker `act` with the activation lock, the instances and what each slot publishes.

- `StageCheck`, `StoreObject`, `RecordStage`, `Prepare`, `Preview`: from the download to a review;
- `LockPlan`, `CheckOnline`, `Switch` (`confirm_reviewed`, `switch`), then `StopOld`,
  `PredecessorGone`, `StartTarget`, `TargetReady`, `CommitGroup` or `ActivationFails`, `UndoStarted`,
  `RestorePointers` (`finish_reviewed`); `Rollback`, `RepeatConfirm`, `RetryActivation`;
- `BeginEnable` ... `PublishLoaded` (`extension_enable`), `Disable`, `Uninstall` and `RemovePointer`,
  `LeaveVault`, `LockCredentials`, `Withdraw`, `Restart` with recovery.

`GroupCatalogue` sees a pointer per slot and the fate of each group: a group is
opened with the old targets remembered, and closed by keeping all new or all old
ones. The mapping reads a pending pointer as the group's.

### 3.5 ExtensionRuntime

State: `generation` and `permit` (`extension_permit.rs`), the credential epoch (`signal`,
`unlocked`, `unlocking`), the instance thread `w` with its phase, container, grants and
process, the MCP `session`, `tickets`, the channels `queue` and `frames`, `reviews`.

`LaunchActions` are the steps of `run` up to `ResumeThread` and `OpenSession`, `SessionActions` the turns
of `serve`, `CleanupActions` the releases; `HostActions` the commands that start, call,
stop, revoke, lock (`Revoke`, `StopInstances`, `JoinAll`, `Signal`, `LockBroker` are the five stretches of
`lock_credentials`) and unlock. `Environment` is the server process and the watch threads.

### 3.6 ExperimentRun, ExperimentImport

`runs`, `reviews` are `experiment_runs` and `experiment_agent_reviews`; `obligation` and `lease` the one
row of the cleanup journal and who may work on it; `runner`, `owner`, `worker`, `native` the
process. `Prepare` ... `Forget` are the store's operations, `BeginStart`, `Claim`, `Spawn` the start,
`PrepareActions` the steps of the worker up to `Resume`, each with the note it writes before it
makes something, `RunActions` its end, in the order in which it releases; `RecoverCleanup`
the reviewed recovery. The directory of the sources is the one thing that is made first
(`MakeFolder`) and noted after (`RecordSources`): `nameless` counts the directories, still empty,
that no row names. The result of a run may fail to be stored (`Finish`, `Spawn`): the run
is then in `unstored` and stays as it is until the vault is opened again, and a worker that
ended with such an error (`broken`) aborts the close that joins it (`Close`).

In `ExperimentImport`, `imports` are `experiment_imports` and its items, `journal` and `receipts` the
journal rows of the items' writes. `ImportNext` accepts the next file. Its write looks at the
file (`ReadFile`; what it found is `current`) and replaces it in a step of its own (`PutFile`), with
writes of other programs in between (`ExternalEdit`); `Commit` commits (`complete_write` runs
in the transaction of the write), `Conflict` ends a write that does not fit, `WriteFails`
leaves it at any point, `Reopen` recovers after `VaultCrash`. `unseen` has the files whose
content the application never looked at.

### 3.7 MobileDrafts, MobileAuth

`drafts`, `frozen` are the tables of the drafts' database (`frozen` has the three kinds of
intents), `vault`, `operations` those of the workspace, `assets` the images it has; an intent for an
image that is there already is answered without an operation (`HasImage`). A command that is cut between the two databases is an
action that does the first half only (`CarryOut` with its receipt missing). `Observe` reads
a receipt later.

In `MobileAuth`, `intents`, `current`, `selected`, `choices`, `rejected` are the tables of the auth
journal and `secrets` the platform's store. A request is `Submit`ted, waits for the gate,
begins (`Recover`, `Cancel`, `Choose`, `Begin`, `Resume`, `Authorize`), sends (`Send`), and what
comes back is `Accept`, `Rejected`, `LoggedOut`, `TransportFails`; `Lifecycle` is onStart/onStop, which
ends every lease. The server is external (`Grant`).

### 3.8 CredentialVault

On disk: `vault` (stronghold.v1), `auto` (auto-unlock.dpapi), `copies`, and the files of an
import: `source`, `key`, `owner`, `journal`, `backup`. Per host: `session`, `op` (the operation that
holds the mutex), `waiting`. `Load`, `Check`, `Enable` are the stretches of `unlock`; `Put`, `Delete`,
`MoveMany`, `ChangePassword`, `Backup`, `Restore` one persisted change each; `Import...` and `Cleanup...`
one action per durable step; `SessionLock` bumps the epoch without waiting.

### 3.9 CoreHost

`workspace`, `recent`, `disk`, `receipts`: the open vault, the list, the records. `procs`, `session`,
`starter`, `failures`, `waiting`, `closed`: the supervisor (`core.rs`). `entries`, `expired`:
`request_lifecycle.rs`. A request is prepared by the window (`Prepare`), claimed with the vault
that is open (`Call`, `Stream`), waits for a session (`GetSession`, `Start`, `Boot`, `Ready`), is sent,
is handled in Core (`Handle`), which calls back over the pipe (`rpc`, `Dispatch`), and is answered
or given up. `Choose`, `Open` switch the vault; `ProcessEnds`, `Reap`, `Poll`, `Exit` end processes.

## 4. Runs

| Run | Bounds | Shows |
|---|---|---|
| `journal_crash` | 2 operations, 2 paths, 3 identities, 2 contents; 1 crash, 1 failed call, 1 external edit | uploads follow receipts, the catalogue follows the disk, deleted content is kept; it implements `OperationLedger` |
| `sync_crash` | 2 files, one born elsewhere, 2 contents, page size 1; 1 edit, 1 external edit, 2 revisions of others, 1 loss, 1 crash, all choices | heads, bases, no self-conflict, nothing overwritten, and a closed conflict has its decision done, also when the decision was cut and resumed |
| `sync_decisions` | the same with page size 2, 2 edits, no external edit, loss or crash; fair | no local edit is forgotten; the vault converges |
| `sync_binding` | 2 paths, one optional, 2 remotes, 2 bindings, 3 events | the cursor and the heads through binding again and merging half-way; local work is kept |
| `extension_install` | 2 slots, 3 packages of which two share a slot and one needs the other slot's, 2 operations, 2 instances, 1 event | groups are atomic, pointers are backed, what executes is installed |
| `extension_runtime` | 1 process, 2 tickets, channels of 1, 2 events; fair | leases, reviews, revocation, locking |
| `experiment_run` | 2 runs, 2 approvals, 2 events; fair | approval of what executes, resources owed, runs settle unless a result cannot be stored |
| `experiment_import` | 2 imports of 2 outputs, one to a new path, 2 events, outside edits between look and replacement | recovery, truthful records, nothing replaced that the application had seen and the plan had not |
| `mobile_drafts` | 2 drafts, 2 editors, 2 intents, 2 files and paths, 1 image, 3 texts, 2 events | no text lost, no unseen version overwritten, intents tell what happened |
| `mobile_auth` | 2 scopes, 3 operations, 1 choice, 1 waiting request, 5 events | the active session is the server's latest, disconnected means erased |
| `credential_vault` | 2 hosts, 2 ids, 2 values, 1 password besides the hosts' secrets, 4 events | served from disk, no secret lost, a lock wins |
| `core_host` | 2 vaults, 2 requests and a stream, 1 write, 1 delete, 1 preference, 2 starts, 2 events | a change once, in its vault, not after a cancellation; one Core |

An *event* is a crash, a fault, a lost message, a stop, a withdrawal, a switch and the
like: whatever the environment does against the program. `MaxEvents` (`MaxIncidents` of
`ExtensionRuntime`, `MaxMishaps` of `MobileDrafts`) bounds them all
together, so any single one meets any point of the program, and pairs of them where
it is two or more; ordinary operations do not count.

Why the bounds are enough for the cases of interest. Two operations on two paths make
a journal operation meet another one's path, tombstone and trash; three identities
let one path change its owner; two contents make a write replace something else
than it writes (with a fourth identity, and deadlock checked, the run holds as
well). For sync, two revisions of others and one own operation give every order of conflict, superseded
conflict, echo and late commit; two contents tell kept work from replaced work; a
page of one revision leaves a window open over several pages. Two remotes and two
bindings are the first, its end and the return to the same or another one. Two
packages in one slot and one in another make a group that is switched, one slot of
which can fail. Two tickets queue behind one another in a channel of one. Two hosts
are needed for the lock file, and a third would add nothing: one holds it, all others
are refused alike. Three sign-in operations are two logins or a login with its refresh,
and one that overtakes them. Two requests race for one record, and the stream adds
the case of a cancellation before the start.

Symmetry is used only in runs without liveness properties, over model values that no
definition orders or names (the MC modules say which).

Deadlock is checked in the runs of the sync engine. The other modules stop where
the bounded world does: all operation ids are used, a scan needs an identity
more than there are, no event is left, and nobody is required to type, install or ask
for anything more.

The properties, by what they would catch:

- `OutboxMatchesReceipts`, `ImplementsLedger`: an upload lost, doubled or queued for an
  operation that did not happen; `CatalogueMatchesDisk`: the catalogue drifting from
  the directory; `DeletedContentKept`: a delete that destroys its content;
- `HeadsTrackLog`: a revision skipped, finished twice, or a head set back; `BasesReviewed`: an
  upload that silently replaces a revision nobody dealt with; `NoSelfConflict`: an own
  operation, its answer lost, reported as another device's; `NeverOverwritesUnsynced`,
  `EditsAccountedFor`: a local change overwritten or forgotten; `DecisionsDone`: a
  conflict closed on half a decision, or on a decision that was overtaken; `Converges`: a
  cycle that never ends;
- `CursorAndHeads`: a file the merge never reached being passed, a head of another remote;
  `LocalWorkKept`: an edit lost with the queue of an earlier binding;
- `AtomicGroups`: half a group left by a stop or a failed health check; `PointersAreBacked`: a
  pointer without its package; `ExecutingIsInstalled`: a process of an undone switch;
- `LeasesMeanUnlocked`, `RevokedProcessEnds`: work after the lock; `CallsWereReviewed`: a call whose
  contract or process changed after its review; `LockCompletes`: threads waiting for the
  credentials that wait for them;
- `ExecutionIsApproved`: one approval used twice or by another version; `ResourcesAreOwed`: a
  container, grant or process nobody would clean up, a nameless directory of the sources excepted while it is empty;
  `RunsSettle`: a run left `running` although its result was stored;
- `RecoverySucceeds`: a record that changed so that recovery refuses its write; `OutcomeTold`:
  a record that disagrees with the files; `ReplacesOnlyReviewed`: newer content
  replaced although the application had seen it;
- `SavedMeansStored`, `TextsSurvive`, `NoSilentOverwrite`: late receipts against newer typing;
  `IntentsTellTheTruth`: an intent given up that was carried out, or committed and was not;
- `ActiveIsLatest`: a session the server replaced; `DisconnectedIsErased`: a secret that returns;
  `NewestRequestWins`: an older request that changes the identity;
- `ServesCommitted`: memory that differs from the disk after a failure; `SecretsRecoverable`: a
  clean-up before the secrets are safe; `RevocationWins`: an unlock that ends after the lock;
- `StaysInVault`: a late call of Core that writes to the vault opened since; `ExactlyOnce`: a
  retry that repeats a change; `CancelledNeverRuns`: a cancellation that came before its
  request and is forgotten; `OneCore`: a second Core next to one that is not gone.

The modules state further properties, which were explored on the same or smaller
instances and are not part of a run: the type invariants `TypeOK` (`InstanceTypeOK`,
`DraftTypeOK`), and
`UploadsOrdered`, `PathsUnique`, `IdleIsSettled`, `IdentityKept`, `NothingToRediscover`,
`PendingMatchesGroup`, `ReleasedInOrder`, `TicketsSettle`, `RunsEndOnce`, `CloseCompletes`, `ImportsSettle`,
`NeverResent`, `SelectionIsCurrent`, `CleanupResumes`. Those that the code does not
keep, `DecisionsSpareLaterEdits` and `DecisionsComplete` among them, are in section 7. `UploadsOrdered`, `PathsUnique`, `PendingMatchesGroup`, `ReleasedInOrder`,
`NeverResent`, `SelectionIsCurrent`, `RunsEndOnce` and the type
invariants of the journal, the sync engine, the binding, `ExtensionRuntime`, `MobileDrafts` and the
host are proved; for the other modules the proofs state the types they need (section 6).

Two runs leave out instances on which a property is known to fail (section 7):
`sync_decisions` has no external edits and no crash, and in `experiment_import` no write to
the path that was new (`FreshPaths`) fails (`FaultPaths`).

## 5. Fairness

Weak fairness is assumed only of steps the program takes by itself; losses, faults and
crashes are bounded, and no user, other program or other device has to do anything.

- `SyncEngine!FairSpec`: the engine's own steps, and the server answering.
  `main.rs:1548-1555` runs a cycle every five seconds, a failed cycle backs off for at most
  an hour (`sync_retry.rs`), and the codes that halt a binding (login, quota, protocol) are
  not produced by anything modelled. A lock scope ends because it contains no await.
- `ExtensionRuntime!Fairness`: the instance thread, its turns and deadlines, the watch threads,
  the end of the output of an ended process, and the remaining stretches of a command
  that has begun (locking, joining, unlocking). Threads are scheduled by the operating
  system; the deadlines are the code's own.
- `ExperimentRun!Fairness`: a started run is claimed and spawned, the worker thread goes on,
  a close waits in its join. The limits of a run end its process, so the worker's wait ends.
- `ExperimentImport!ImportingFairness` and `WorkspaceJournal!FairSpec` (`Apply`, `Recover`, `Open`): a call runs to
  its end under the mutex; used by properties that are not part of a run.

## 6. What is proved

Every theorem holds for all values of the constants that satisfy the named
assumptions of the module: special values such as `None` or `Absent` are not also
ordinary ones, bounds are naturals, tables are functions on their sets. Sets may be
infinite, except where a module names an assumption that they are not. Each safety property follows from an inductive invariant; where the
property is not inductive itself, the invariant says what the program relies on.

**Journal** (`WorkspaceJournalProofs`), from

    JournalInv == TypeOK /\ CallInProgress /\ TrashPrepared
                  /\ OutboxMatchesReceipts /\ DeletedContentKept

- `TypeCorrect`, `OutboxCorrect`: a commit settles an operation that is pending, so its
  outbox row is new: this is what `CallInProgress` adds;
- `DeletesKeepContent`: the commit of a delete relies on its check and copy steps having
  put the content into the trash, also when they ran before a stop: `TrashPrepared`;
- `CatalogueCorrect`: `CatalogueMatchesDisk` speaks of an idle host. `Served` extends it to
  the points within a call and a replay, where an operation that is half done excuses the
  paths it touches (`Requested`: only those), and drops it while the vault is closed,
  opening or recovering, because a scan ends the opening (`ScanLists`: it describes all);
- `PathsStayUnique`, `UploadsStayOrdered`: a commit gives its row a free path and the next
  revision, and rows never go back (`RowsAdvance`), so what was sent is older (`Sent`);
- `JournalImplementsLedger`: step simulation under the mapping status = operations,
  origin = request.origin, uploads = non-empty outbox rows.

**Sync engine** (`SyncEngineProofs`), first layer, from

    SyncInv == TypeOK /\ Positions /\ OwnOps /\ AckedInLog /\ HeadsLatest

- `SyncTypeCorrect` needs `Positions` (every inbox entry is a revision of the log) and
  `OwnOps` (an own revision names an operation of its queue);
- `HeadsFollowLog`: the head of a file is the newest revision
  among those the cursor passed and those acknowledged. `sync_finish` adds the
  revision at `cursor + 1`, `sync_ack` the revision of its operation; both keep the
  larger of old head and new revision (`LatestGrows`), so their order does not matter.
  Others' commits add to the log but not to the dealt revisions, because the cursor
  is at most the old length and an acknowledged operation is already in the log
  (`AckedInLog`), at one place (`OwnOps`).

Second layer: `ReviewInv == Records /\ Work`, inductive relative to
`SyncInv`.

- `OwnWorkNeverConflicts`: `sync_apply_pending` recognises an
  own revision by its job, unless the job was given up meanwhile. That must be excluded:
  a job is only given up when another revision of its file arrives (`ApplyConflict`) or is
  decided (`Settle`), its base is then older than a revision of the log, and the server
  refuses the commit even if it is still on its way (`RefusedWire`). A commit the server
  took is `committing` or `acked` (`OwnStages`) and sits on all earlier revisions of its file
  (`OwnBases`), so a conflict is only ever another device's (`ConflictLife`);
- `UploadsOnReviewedBases`: a base is frozen as the head of a
  file without open conflicts (`PickedIsClear`). The head's conflict, if it had one, is not
  superseded (then a later one is open or the head is newer: `Superseded`), so it is
  resolved. The base stays reviewed since applied, resolved and acknowledged are final.
  The lock is free between picking and posting; nothing can open a conflict there because
  only the engine itself applies revisions (`ApplyWork`: it is at `drain` or `item` then);
- `UnsyncedIsSpared`: the engine compares a file with its head before it replaces it, so
  what matters is that the head's content is in the log, also when the head came from an
  answer (`HeadContents`, which needs `OwnContents`: the log has what the job froze).

Third layer: `EditInv == Calm /\ PickedFirst /\ AppliedNow /\ DecidedNow /\ \A f : FileInv(f)`,
under the hypothesis `Undisturbed` (no external edit, no crash). With external edits the
property fails (section 7, item 5), and the hypothesis is what the run `sync_decisions` assumes;
lost requests and answers, cancelled cycles, other devices and edits at any point are in.

- `EditsAreAccountedFor`: the hard case is the acknowledgement that ends the last outgoing
  operation of a file. As operations end in order (`InOrder`) this is the newest one, so it
  has the disk's content (`NewestIsDisk`); and as the head has every revision up to it
  behind itself (`HeadComplete`), and this one was not, the head becomes this one. A
  conflict that takes an operation off the queue is shown (`ConflictShown`). A decision that
  replaces the file is, without a stop, carried out in the piece of work in which it was
  taken (`DecidedNow`).

Fourth layer: `DecisionInv`, inductive relative to `SyncInv` and `ReviewInv`, without that hypothesis: external edits,
crashes and resumed decisions are in.

- `DecisionsDoneHolds`: a decision whose operation is committed and whose conflict is still open
  is under the lock, or the cycle has not got past resuming it (`Held`), so no later revision
  of its file is applied and its revision stays the head; and what its operation left
  (`Outcome`) stays, because nothing but the engine's own push takes an operation off the
  queue, and nothing pushes while it is open (`Carried`). A copy that was noted is queued
  (`DecisionFacts`). The last transaction runs on just that (`Settling`).

**Binding** (`SyncBindingProofs`), under `ConstantsAssumption` (finitely many paths and remotes:
the code counts and numbers files) and `NoneAssumption`; first layer, from

    Following == Gates /\ Taken /\ Tables /\ Operations /\ Owned /\ Answered

- `CursorAndHeadsHold`: a run that holds the gate works for the binding that is active, or for one
  that is gone, and then no step of it changes a table (`Gates`). What a page still has to take
  is, with what is staged, everything up to its end (`Taken`), so the cursor passes nothing;
  during an initial merge a head is the newest revision of the snapshot or that revision is an
  item (`Merging`), so with the last item the cursor may go to the boundary. An
  acknowledgement sets a head to where the server has the operation: that this is a revision
  of the same file, in the log of the bound remote, is `Owned`: an id stands for one job
  (`Operations`), is sent to the remote of its binding only, and a job that was sent is not
  in the queue of a later binding, which starts from new ids;
- `BindingTypesHold`: what is found by `CHOOSE` (an order of files, the newest revision, the
  oldest job) exists; the same lemmas serve both layers.

Second layer: `Working == OneLive /\ Stages /\ SentFirst /\ Turn /\ Ahead /\ Described /\ Agreed`,
inductive relative to the first.

- `LocalWorkKeptHolds`: the newest queued work of a file has the content that was observed
  (`Described`), and a file without work is observed as the binding believes it (`Agreed`); what
  was not observed, `Discover` finds. The hard steps: an acknowledgement takes a job off the queue
  and moves the head to it, which is right because the work of a file is sent in its order
  (`SentFirst`, `Turn`) and what was sent is ahead of the heads until then (`Ahead`); a merge gives
  files new identities, one per path because no remote ever has two living files at one
  (`OneLive`); a conflict stops the work of its path only (`Stages`). Paths in `inherited`
  (section 7, item 9) are excepted until the binding has discovered them, in the proof as in
  the property.

**Installation** (`ExtensionProofs`), from `StoreInv == Rows /\ PendingMatchesGroup /\
Backed /\ Working` for the tables and `InstallInv == StoreInv /\ Handles /\ Attempt /\ Current`
with the processes.

- `PointersAreBackedHolds`: also the package a slot would go back to is stored and
  prepared (`Backed`). Needs that a pending pointer has a group that is unfinished
  and of which it is a member (`PendingMatchesGroup`);
- `AtomicGroupsHolds`: `Spec => AtomicGroups`, the refinement of `GroupCatalogue`. Each action maps to
  opening a group, keeping it, undoing it, setting a pointer outside groups, or a stutter;
- `ExecutingIsInstalledHolds`: every process is of an endpoint, just started by the worker, or
  the one it waits for (`Handles`), in the slots already replaced only the group's
  packages run (`Current`), and the worker starts one per slot (`Attempt`).

**A running extension** (`ExtensionProofs`), from `LaunchInv == HostTypes /\ w \in Threads /\
SessionTypes /\ LeaseInv /\ ReleaseInv /\ ReviewInv`. The actions are sorted first, by how the
instance moves through its phases (`InstanceStep`), how the credentials change (`CredentialStep`) and
what becomes of the reviews (`ReviewStep`); each part is then shown for each kind of step.

- `LeasesMeanUnlockedHolds`: an epoch that a launch or its network broker has is at most the
  current one, and while it is the current one, the credentials were unlocked in it
  (`LeaseInv`). This is not inductive by itself: a launch reads the epoch in one step and
  tests the lock in the next (`TakeLease`, `BindCredential`, `Build`), with an unlock of another thread in
  between excluded only because the launch then holds the credentials (`Holding`);
- `CallsWereReviewedHolds`: a pending review belongs to the epoch of its session and was never
  sent; a confirmed call waits with its review taken off the list (`ReviewInv`). Every other
  step of the session takes pending reviews away and adds none (`Narrower`): that is what a
  changed catalogue, an abort and an end have in common;
- `ReleasedInOrderHolds`: the phases of a thread say what it holds (`ReleaseInv`), through every
  failure of a launch and of the cleanup itself;
- `InstanceTypesHold`: the channels keep their capacity.

**Runs** (`ExperimentProofs`), from `RunInv == Types /\ Owned /\ Executing /\ Approvals /\
Owed /\ NotedBefore /\ Strays`. The forty or so actions are sorted into eleven kinds of steps
first (`StepsAre`: who claims, prepares, ends, is down or recovers), and each part of the invariant is
shown for each kind.

- `ExecutionIsApprovedHolds`: a record in use keeps its approval whatever the user does (`Kept`),
  since the one who works on it is registered and owns the execution (`Owned`), so the
  process and the record still agree after the last check (`Executing`). Approvals are
  numbered; a number belongs to one run, and one that a run may still use, or that the
  worker was claimed with, is not spent (`Approvals`), also after an expiry, a refusal or a
  restart, which all give it up;
- `ResourcesAreOwedHolds`: the worker's place says what it has noted (`NotedBefore`), and nobody else
  touches the row then: the lease and the row are there until the cleanup is complete
  (`Owned`), and a recovery needs the lease. A recovery removes all that is named, and no
  process is left by then. A directory that is made is noted in the worker's next step or an
  event came in between (`Strays`), so of the nameless ones there are no more than events;
- `RunsEndOnceHolds`: every record moves as `Moves` says or is approved (`RecordsMove`), so a final
  record is at most forgotten.

**Import** (`ExperimentProofs`), from `ImportInv == ImportTypeOK /\ Rows /\ Outcomes /\ Identities /\ Looks`.

- `OutcomeToldHolds`: an item is committed exactly if its write has a receipt, and the state
  of the import follows from its items (`Outcomes`); at most one write is accepted and not
  carried out, and its import was confirmed (`Rows`);
- `ReplacesOnlyReviewedHolds`: the digest is compared with what the look at the file found, and the
  replacement comes later. In between the mutex keeps the application from the file, so
  what was found is still there or another program has written since (`Looks`);
- `RecoverySucceedsHolds`: under the hypothesis that no write to a path that was new fails
  (`FaultPaths` and `FreshPaths` are disjoint), as in the run; section 7, item 7 is why. The
  further invariant is `KeepsIdentity`: the path of an accepted write has the planned identity.

**Mobile session** (`MobileProofs`), from `AuthInv == StateTypes /\ Journal /\ Sessions /\ Requests`.

- `ActiveIsLatestHolds`, `DisconnectedIsErasedHolds`: the store only has sessions the server
  granted, under the device that logged in; what was replaced is current no more, so no
  late answer for it is stored, and a disconnected device has no current operation
  that would bring one (`Sessions`, `Disconnected`);
- `SentOnceHolds`: an intent is sent once, and the selection is a current operation;
- `NewestRequestWinsHolds`: a lease ends with the arrival of a newer request (`Asked`), and all
  that changes an identity checks it.

**Mobile drafts** (`MobileProofs`), from `DraftInv == DraftTypes /\ NotesInv /\ DraftsInv /\ IntentsInv /\
SavesInv /\ OutcomesInv /\ ViewsInv /\ OneAtATime /\ Unique(drafts)`. What any action may do to a
draft, an intent with its operation, an editor and a note is said once (`DraftMove`); every action
is such a move (`NextMoves`), and every move keeps the invariant (`MoveKeeps`). The two action properties
follow from the move alone.

- `SavedMeansStoredHolds`: a receipt acknowledges the generation it was frozen with. That the
  draft then has the frozen text, or text typed over it, holds because a prepared save
  keeps its draft (`SavesInv`): one save or image at a time (`OneAtATime`), no deletion or
  reading from the disk while there is one, and typing only adds generations;
- `TextsSurviveHolds`: what replaces a draft's text was typed in an editor that had it, which an
  editor with the lease does (`ViewsInv`), or is read from the disk when the draft is clean;
- `NoSilentOverwriteHolds`: the text of a save was typed over the version it expects
  (`IntentsInv`), and an operation is accepted and recovered only over that version;
- `IntentsTellTheTruthHolds`: an intent that was cancelled or rejected never had an operation, and one
  that is committed has a committed one, or its image was in the vault when it was applied
  (`OutcomesInv`); `DraftsTypeOK`: the unique columns and partial indexes hold.

**Credentials** (`CredentialVaultProofs`), from `VaultInv == Types /\ Held /\ Directory /\ Recoverable`.

- `ServesCommittedHolds`: only the holder of the lock file has the vault open or opens it, and
  has in memory what is on disk (`Held`), through failed writes and restores;
- `SecretsRecoverableHolds`: one host at a time moves the old store, while its vault is open or
  once an owner file says what was moved (`Directory`); what is owned, or was just verified, is
  kept in the vault or in a copy of it (`Recoverable`), so a clean-up has nothing to lose;
- `RevocationWinsHolds`: the step that opens a vault compares the epoch.

**Host** (`CoreHostProofs`), from `HostInv == TypeOK /\ Lifetimes /\ Supervised /\ Receipted /\ Answered
/\ Dismissed`.

- `OneCoreHolds`: a living process group is the session's or the one that is starting, and
  these exclude each other (`Supervised`);
- `StaysInVaultHolds`, `ExactlyOnceHolds`: a request that names a vault was made while it was open; an
  operation has a receipt exactly if it was applied, once, in a vault it was asked for in
  (`Receipted`), and who reports a change has seen its receipt (`Answered`);
- `CancelledNeverRunsHolds`: a request cancelled early has lost its reservation and is
  not sent yet (`Dismissed`), and sending claims the reservation.

Only model-checked: everything under fairness (liveness is out of the prover's reach). The
properties of section 7 do not hold. Every other property of a run, each safety
invariant and action property and both refinements, is a theorem.

## 7. Where the code does less than it says

Disagreements between the code and its own comments and tests, each found on the
instance given. They are not runs; the property named is stated in the module and
TLC violates it on that instance.

1. A rename onto a path whose file another program deleted, before a scan noticed,
   cannot commit (`files.path` is UNIQUE, `workspace.rs:1454`) and is not settled as a conflict
   either; every later open fails on it. `workspace.rs:580`: once accepted, recovery must
   complete the intent. (`RecoveryCompletesIntents`; 1 operation, 1 crash, 1 external edit, fair.)
2. Between the digest check (`workspace.rs:811`) and the replacement (`:833`) or removal
   (`:1435`) an external edit is overwritten. `workspace.rs:1`: never overwrites external
   modifications. (`NeverOverwritesExternalEdits`; the instance of `journal_crash`.) An import replaces its
   file in the same way: `ReplacesOnlyReviewed` exempts, by the history variable `unseen`, what
   another program wrote after the look; without the exemption TLC violates it on the
   instance of `experiment_import`.
3. A decision resumed after a stop archives an edit made since (`sync_resolution.rs:377`); it
   is never uploaded. `sync_review.rs:417`: only the decision's own phases may change the
   reviewed paths. (`DecisionsSpareLaterEdits`; 1 file, here as in 4 and 5 one that was born
   elsewhere, 2 edits, 2 revisions of others, 1 crash.)
4. An edit made after a decision was stored makes the decision fail for ever
   (`sync_resolution.rs:120`), and with it every pull and push. `:82`: a slip must not leave an
   inapplicable resolution. (`DecisionsComplete`; 1 file, 1 edit, 1 external edit, 2 revisions
   of others, fair.)
5. After a decision for a deletion of a file that is already gone (`sync_resolution.rs:273`),
   restoring the old bytes is not discovered: the snapshot `sync_discovery.rs:1` compares with
   still has them. (`EditsAccountedFor`; 1 file, 2 external edits, 2 revisions of others.)
6. Removing an extension stops and joins its instances and then removes the pointer
   (`extension_commands.rs:378`) without the lock that enabling holds: an enable under way
   publishes a new instance in between, and the pointer goes under it.
   `extension_transaction.rs:249`: the pointer is removed after the instance has stopped.
   (`RemovedPackagesAreStopped`; the instance of `extension_install`.) `ExecutingIsInstalled` therefore
   speaks of behaviours before the first removal.
7. An import to a path that never had a file plans a new identity. When its write fails
   after the file was put in place, a scan catalogues the file under an identity of its own,
   and `complete_write` (`experiment_import.rs:593`) refuses the journal row from then on, which
   fails every recovery and open. Again `workspace.rs:580`. (`RecoverySucceeds`; the instance of
   `experiment_import` with `FaultPaths` = both paths.)
8. A start of the host fails when the stored system secret does not open the vault
   (`main.rs:1413` passes the error on), which a change of password whose last step failed
   leaves behind; the test `b03_unrecoverable_store_does_not_block_local_editing`
   (`credentials.rs:1744`) says a vault that cannot be opened does not block local editing.
   (`Startable`; the instance of `credential_vault`.)
9. A file that had no local copy when the vault was bound, but an old row in
   `sync_observed`, and that is restored with the observed bytes is not uploaded:
   `sync_observed` is not keyed by the binding, while `sync_state.rs:77` says that binding again
   starts from the current snapshot. `LocalWorkKept` exempts these paths by the history variable
   `inherited`; without the exemption TLC violates it on the instance of `sync_binding`.
10. A run whose result cannot be stored stays `running`, without a thread, until the vault is
   opened again: the worker's closure returns the error of `finish_outputs`
   (`experiment_runner.rs:503-530`), and a failed spawn ignores it (`:542`). The next close then
   fails with the worker's error although the worker is gone (`:568-571`), and succeeds when it
   is repeated. `RunsSettle` exempts these runs by the history variable `unstored`; without the
   exemption TLC violates it on the instance of `experiment_run`.
11. The directory of the sources is created before the journal names it
   (`experiment_sources.rs:48-55`), while the comment there has the root recorded before bytes are
   copied or granted: no bytes are lost, but a stop in between leaves an empty directory
   that no cleanup finds. `ResourcesAreOwed` counts these (`NamelessAreFew`); that there are none is
   violated on the instance of `experiment_run`.

## 8. Not modelled

`PROJECT.json` gives the status of every component. Out of all modules: cryptography, parsing
and archive formats, operating-system isolation, HTTP, logging, presentation, adapters to
external services. The backend is not modelled yet (plan, item 3). In the modules:

- `WorkspaceJournal`: operations on whole directories, renames that differ only in case,
  hard links and disk identities, durability of the file system itself under power loss.
- `SyncEngine`: renames and path collisions, upload chunks. The ten pages and twenty pushes of
  a cycle are "some number".
- `SyncBinding`: decisions on conflicts (they are `SyncEngine`'s), `file_aliases`, the details of an
  attempt, patterns of the scope. At most one remote is filled at the start. A pause that
  arrives between the check and the start of a manual run (`sync_commands.rs:536-545`) does
  not stop that run; a refresh whose answer is lost ends the session until the next login:
  both are in the model and contradict no comment.
- `ExtensionInstall`: import of the legacy store, catalogue views. `ExtensionRuntime`: one slot; of its
  instances the latest; the claims of a permit and the contents of a call are one test.
- `ExperimentRun`: quotas and the age of an approval are nondeterministic; the identity checks
  before a release are one test that may fail. An obligation that stopped in phase
  `creating` is never recovered by the code (it refuses, and so does every later run); this
  is in the model, as is the directory of section 7, item 11.
- `ExperimentImport`: quotas are nondeterministic; after a partial import the remaining items stay pending.
- `MobileDrafts`: export, canvas documents. Renames need a destination without a catalogue row.
  A save that ended as a conflict can neither be retried nor discarded in the code, its
  text stays and can be copied to a new draft; the model has this. Images are not deleted.
- `MobileAuth`: `prepare_*` on a known id, `recover_expected` and a repeated erase, which only
  the library API reaches; requests that only read. An epoch is the set of leases that
  survive it.
- `CredentialVault`: key derivation and formats. When `move_many` moves two ids to one, which value
  remains is nondeterministic. A clean-up that was authorised cannot be finished after
  a change of password, as the code has it.
- `CoreHost`: the validation of records and the inventory of Core's bundle are tests with one
  outcome; links and aliases of note records, the length of the recent list, storage
  location, export, update checks (`core_update.rs` is not used by the host). Core is assumed to
  read its pipe or to end: the reader thread holds the lock `Session::drop` waits for while it
  writes (`core.rs:173`). A crash of the host itself, and what its Core does then, is left out.
  The last start of the bound keeps its process.

-------------------------- MODULE WorkspaceJournal --------------------------
(***************************************************************************)
(* The write-ahead journal of one vault: workspace.rs.                     *)
(*                                                                         *)
(* A Workspace owns the vault directory (an exclusive OS lock, one Mutex)  *)
(* and a SQLite database.  An operation (write, rename, delete) is first   *)
(* made durable as a pending intent, then applied to the file system, then *)
(* committed in one transaction that also files its outbox entry.  Other   *)
(* programs edit the same directory at any time; the process may stop at   *)
(* any step; a system call or a commit may fail and leave the intent       *)
(* pending while the process goes on.                                      *)
(*                                                                         *)
(* Contents stand for their SHA-256 digests, file ids and operation ids    *)
(* for UUIDs.  Rows of `journal' and `file_ops' always carry the state     *)
(* written to `operations' in the same transaction, so `operations' alone  *)
(* holds it here; a journal row exists while its operation is unsettled.   *)
(***************************************************************************)
EXTENDS Naturals, FiniteSets

CONSTANTS
    Ops,        \* operation ids
    FileIds,    \* file identities
    Paths,      \* vault-relative paths of supported files
    Contents,   \* file contents, named by their digest
    Absent,     \* the digest "" of a file that does not exist
    NoPath,     \* the path of a row that does not exist, or no destination
    Retired,    \* .ainote/retired/<id>, where a tombstone yields its path
    NoId,       \* no identity
    NoOp,       \* no operation in progress
    MaxCrashes, \* bound: process stops
    MaxFaults,  \* bound: failed system calls or transactions
    MaxEdits    \* bound: changes other programs make to the vault

ASSUME ConstantsAssumption ==
    /\ Absent \notin Contents
    /\ NoPath \notin Paths /\ Retired \notin Paths /\ NoPath # Retired
    /\ NoId \notin FileIds
    /\ NoOp \notin Ops
    /\ MaxCrashes \in Nat /\ MaxFaults \in Nat /\ MaxEdits \in Nat

VARIABLES
    disk,       \* the vault directory: path -> content
    trash,      \* .ainote/trash/<operation id>
    files,      \* table files: identity -> row
    operations, \* table operations: state per operation id
    request,    \* the fingerprinted request of each operation
    journal,    \* journal.file_id of a write
    receipt,    \* operations.result
    outbox,     \* table outbox
    observed,   \* table sync_observed
    hints,      \* paths the file watcher or a commit marked for rescan
    host,       \* what the process is doing
    budget      \* remaining crashes, faults and external edits

vars == <<disk, trash, files, operations, request, journal, receipt, outbox,
          observed, hints, host, budget>>

-----------------------------------------------------------------------------
(* Types *)

Hashes == Contents \cup {Absent}
Places == Paths \cup {Retired, NoPath}
States == {"none", "pending", "committed", "conflict"}
Kinds == {"none", "write", "rename", "delete"}
Origins == {"local", "remote"}
Steps == {"none", "check", "replace", "copy", "remove", "commit"}

Rows == [path: Places, hash: Hashes, revision: Nat, deleted: BOOLEAN]
NoRow == [path |-> NoPath, hash |-> Absent, revision |-> 0, deleted |-> TRUE]

Requests == [kind: Kinds, path: Places, dest: Places, expected: Hashes,
             digest: Hashes, origin: Origins]
NoRequest == [kind |-> "none", path |-> NoPath, dest |-> NoPath,
              expected |-> Absent, digest |-> Absent, origin |-> "local"]

Receipts == [file: FileIds \cup {NoId}, path: Places, hash: Hashes,
             revision: Nat, deleted: BOOLEAN]
NoReceipt == [file |-> NoId, path |-> NoPath, hash |-> Absent,
              revision |-> 0, deleted |-> TRUE]

Sends == [kind: {"none", "put", "delete"}, file: FileIds \cup {NoId},
          path: Places, hash: Hashes, revision: Nat]
NoSend == [kind |-> "none", file |-> NoId, path |-> NoPath, hash |-> Absent,
           revision |-> 0]

Sightings == [path: Places, hash: Hashes, deleted: BOOLEAN]
NoSighting == [path |-> NoPath, hash |-> Absent, deleted |-> TRUE]

Hosts == [mode: {"closed", "opening", "idle", "calling", "replaying"},
          op: Ops \cup {NoOp}, step: Steps]
At(mode, op, step) == [mode |-> mode, op |-> op, step |-> step]
Closed == At("closed", NoOp, "none")
Idle == At("idle", NoOp, "none")

TypeOK ==
    /\ disk \in [Paths -> Hashes]
    /\ trash \in [Ops -> Hashes]
    /\ files \in [FileIds -> Rows]
    /\ operations \in [Ops -> States]
    /\ request \in [Ops -> Requests]
    /\ journal \in [Ops -> FileIds \cup {NoId}]
    /\ receipt \in [Ops -> Receipts]
    /\ outbox \in [Ops -> Sends]
    /\ observed \in [FileIds -> Sightings]
    /\ hints \in SUBSET Paths
    /\ host \in Hosts
    /\ budget \in [crashes: Nat, faults: Nat, edits: Nat]

-----------------------------------------------------------------------------
(* Reading the catalogue *)

\* Workspace::entry: the row at a path, live or tombstone (path is UNIQUE).
RowsAt(p) == {id \in FileIds : files[id].path = p}
LiveAt(p) == {id \in RowsAt(p) : ~files[id].deleted}
Unused == {id \in FileIds : files[id].path = NoPath
                            /\ \A op \in Ops : journal[op] # id}

\* Where a rename or delete puts the content it takes from its source.
Moves(op) == request[op].kind \in {"rename", "delete"}
TargetContent(op) == IF request[op].kind = "rename"
                     THEN disk[request[op].dest] ELSE trash[op]

PendingMoves == {op \in Ops : operations[op] = "pending" /\ Moves(op)}
PendingWrites == {op \in Ops : operations[op] = "pending" /\ ~Moves(op)}

-----------------------------------------------------------------------------
(* Leaving a call *)

\* An error other than RECOVERY_CONFLICT: the call fails, and so does open().
Abandon == host' = IF host.mode = "opening" THEN Closed ELSE Idle
\* RECOVERY_CONFLICT or success: recover() goes on with the next intent.
NextIntent == host' = IF host.mode = "calling" THEN Idle
                      ELSE At(host.mode, NoOp, "none")
Goto(step) == host' = [host EXCEPT !.step = step]

-----------------------------------------------------------------------------
(* Accepting an operation *)

\* A remote identity may take the path of a tombstone, and a tombstone of that
\* identity returns to the path.  These updates precede the transaction.
Reidentified(p, ident) ==
    LET taken == {id \in RowsAt(p) : files[id].deleted /\ id # ident}
        free == RowsAt(p) \subseteq taken
    IN  [id \in FileIds |->
            IF id \in taken THEN [files[id] EXCEPT !.path = Retired]
            ELSE IF free /\ id = ident /\ files[id].path # NoPath
                                        /\ files[id].deleted
            THEN [files[id] EXCEPT !.path = p]
            ELSE files[id]]

\* PATH_CONFLICT: the identity lives elsewhere, or another one lives here.
IdentityBlocked(p, ident) ==
    \/ \E id \in LiveAt(p) : id # ident
    \/ /\ files[ident].path \notin {NoPath, p}
       /\ ~files[ident].deleted

Accepted(op, req) ==
    /\ operations' = [operations EXCEPT ![op] = "pending"]
    /\ request' = [request EXCEPT ![op] = req]
    /\ host' = At("calling", op, "check")

\* write_source with an unknown operation id.  A refusal (authorisation, an
\* experiment rule, PATH_CONFLICT, a failed payload store) keeps the tombstone
\* updates that came before it.
SubmitWrite(op, p, c, origin, ident) ==
    LET req == [kind |-> "write", path |-> p, dest |-> NoPath,
                expected |-> disk[p], digest |-> c, origin |-> origin]
        named == IF ident = NoId THEN files ELSE Reidentified(p, ident)
        owners == {id \in FileIds : named[id].path = p}
    IN  /\ host = Idle
        /\ operations[op] = "none"
        /\ files' = named
        /\ \/ /\ ident # NoId
              /\ UNCHANGED <<operations, request, host, journal>>
           \/ /\ ident # NoId => ~IdentityBlocked(p, ident)
              /\ \E id \in IF owners # {} THEN owners
                           ELSE IF ident # NoId THEN {ident} ELSE Unused :
                    journal' = [journal EXCEPT ![op] = id]
              /\ Accepted(op, req)
        /\ UNCHANGED <<disk, trash, receipt, outbox, observed, hints, budget>>

\* prepare_file_op_with_id with an unknown operation id.
SubmitMove(op, kind, p, q, origin) ==
    LET req == [kind |-> kind, path |-> p,
                dest |-> IF kind = "rename" THEN q ELSE NoPath,
                expected |-> disk[p], digest |-> disk[p], origin |-> origin]
    IN  /\ host = Idle
        /\ operations[op] = "none"
        /\ kind = "rename" => disk[q] = Absent
        /\ disk[p] # Absent
        /\ RowsAt(p) # {}
        /\ Accepted(op, req)
        /\ UNCHANGED <<disk, trash, files, journal, receipt, outbox, observed,
                       hints, budget>>

\* The same operation id and fingerprint again: recover(), then answer from
\* the receipt.  Another fingerprint is refused and changes nothing.
Resubmit(op) ==
    /\ host = Idle
    /\ operations[op] # "none"
    /\ host' = At("replaying", NoOp, "none")
    /\ UNCHANGED <<disk, trash, files, operations, request, journal, receipt,
                   outbox, observed, hints, budget>>

-----------------------------------------------------------------------------
(* Applying an accepted intent *)

Settle(op, state) ==
    operations' = [operations EXCEPT ![op] = state]

\* Defect: remote operations are queued for upload too.
EnqueueRemoteToo(op, send) == outbox' = [outbox EXCEPT ![op] = send]

\* INSERT INTO outbox, for operations of local origin only.
Enqueue(op, send) ==
    outbox' = IF request[op].origin = "remote" THEN outbox
              ELSE [outbox EXCEPT ![op] = send]

\* The sync_observed row that tells sync_discover what is already accounted for.
Observe(id, row) ==
    observed' = [observed EXCEPT ![id] = [path |-> row.path, hash |-> row.hash,
                                          deleted |-> row.deleted]]

\* operations.result, answered to every later replay of the same id.
Answer(op, id, row) ==
    receipt' = [receipt EXCEPT ![op] =
                   [file |-> id, path |-> row.path, hash |-> row.hash,
                    revision |-> row.revision, deleted |-> row.deleted]]

\* apply_stored_journal up to the file replacement.
CheckWrite(op) ==
    LET req == request[op]
        current == disk[req.path]
    IN  /\ host.op = op /\ host.step = "check" /\ req.kind = "write"
        /\ \/ /\ current \notin {req.expected, req.digest}
              /\ Settle(op, "conflict")
              /\ NextIntent
           \/ /\ current \in {req.expected, req.digest}
              /\ Goto(IF current = req.digest THEN "commit" ELSE "replace")
              /\ UNCHANGED operations
        /\ UNCHANGED <<disk, trash, files, request, journal, receipt, outbox,
                       observed, hints, budget>>

\* temp.persist(&target): an atomic replacement, whatever is there by now.
ReplaceFile(op) ==
    /\ host.op = op /\ host.step = "replace"
    /\ disk' = [disk EXCEPT ![request[op].path] = request[op].digest]
    /\ Goto("commit")
    /\ UNCHANGED <<trash, files, operations, request, journal, receipt, outbox,
                   observed, hints, budget>>

\* The transaction that ends apply_stored_journal.
CommitWrite(op) ==
    LET req == request[op]
        owners == RowsAt(req.path)
        id == journal[op]
    IN  /\ host.op = op /\ host.step = "commit" /\ req.kind = "write"
        /\ disk[req.path] # Absent
        /\ owners # {} \/ files[id].path = NoPath
        /\ \E owner \in IF owners # {} THEN owners ELSE {id} :
             LET row == [path |-> req.path, hash |-> req.digest,
                         revision |-> files[owner].revision + 1,
                         deleted |-> FALSE]
             IN  /\ files' = [files EXCEPT ![owner] = row]
                 /\ Answer(op, owner, row)
                 /\ Enqueue(op, [kind |-> "put", file |-> owner,
                                 path |-> row.path, hash |-> row.hash,
                                 revision |-> row.revision])
                 /\ Observe(id, row)
        /\ hints' = hints \cup {req.path}
        /\ Settle(op, "committed")
        /\ NextIntent
        /\ UNCHANGED <<disk, trash, request, journal, budget>>

\* apply_file_op up to the first change of the file system.
CheckMove(op) ==
    LET req == request[op]
        clash == \/ disk[req.path] \notin {Absent, req.expected}
                 \/ TargetContent(op) \notin {Absent, req.expected}
    IN  /\ host.op = op /\ host.step = "check" /\ Moves(op)
        /\ RowsAt(req.path) # {}
        /\ \/ clash /\ Settle(op, "conflict") /\ NextIntent
           \/ ~clash /\ Goto("copy") /\ UNCHANGED operations
        /\ UNCHANGED <<disk, trash, files, request, journal, receipt, outbox,
                       observed, hints, budget>>

\* Defect: a delete goes straight to removing its source.
CopyRenamesOnly(op) ==
    /\ host.op = op /\ host.step = "copy"
    /\ disk' = IF request[op].kind = "delete" THEN disk
               ELSE [disk EXCEPT ![request[op].dest] = request[op].expected]
    /\ Goto("remove")
    /\ UNCHANGED <<trash, files, operations, request, journal, receipt, outbox,
                   observed, hints, budget>>

\* persist_noclobber of the spooled payload, unless the target exists by now.
CopyToTarget(op) ==
    LET req == request[op]
    IN  /\ host.op = op /\ host.step = "copy"
        /\ IF req.kind = "delete"
           THEN /\ trash' = [trash EXCEPT ![op] = IF @ = Absent THEN req.expected
                                                  ELSE @]
                /\ UNCHANGED disk
           ELSE /\ disk' = [disk EXCEPT ![req.dest] = IF @ = Absent
                                                THEN req.expected ELSE @]
                /\ UNCHANGED trash
        /\ Goto("remove")
        /\ UNCHANGED <<files, operations, request, journal, receipt, outbox,
                       observed, hints, budget>>

\* fs::remove_file(source) if it exists, whatever it holds by now.
RemoveSource(op) ==
    /\ host.op = op /\ host.step = "remove"
    /\ disk' = [disk EXCEPT ![request[op].path] = Absent]
    /\ Goto("commit")
    /\ UNCHANGED <<trash, files, operations, request, journal, receipt, outbox,
                   observed, hints, budget>>

\* The catalogue row of a moved file: a rename keeps the deleted flag, a delete
\* keeps the path.
MovedRow(op, id) ==
    IF request[op].kind = "rename"
    THEN [files[id] EXCEPT !.path = request[op].dest, !.revision = @ + 1]
    ELSE [files[id] EXCEPT !.deleted = TRUE, !.revision = @ + 1]

\* Renaming onto a path: tombstones there retire; a live row there violates
\* the UNIQUE constraint.
RetiredFor(op, moved) ==
    {id \in RowsAt(request[op].dest) : /\ request[op].kind = "rename"
                                       /\ files[id].deleted /\ id # moved}
UniqueBroken(op, moved) ==
    /\ request[op].kind = "rename"
    /\ \E id \in LiveAt(request[op].dest) : id # moved

\* The transaction that ends apply_file_op.
CommitMove(op) ==
    LET req == request[op]
    IN  /\ host.op = op /\ host.step = "commit" /\ Moves(op)
        /\ req.kind = "rename" => disk[req.dest] # Absent
        /\ \E id \in RowsAt(req.path) :
             LET row == MovedRow(op, id)
             IN  /\ ~UniqueBroken(op, id)
                 /\ files' = [i \in FileIds |->
                        IF i = id THEN row
                        ELSE IF i \in RetiredFor(op, id)
                        THEN [files[i] EXCEPT !.path = Retired]
                        ELSE files[i]]
                 /\ Answer(op, id, row)
                 /\ Enqueue(op,
                        [kind |-> IF req.kind = "rename" THEN "put" ELSE "delete",
                         file |-> id, path |-> row.path,
                         hash |-> IF req.kind = "rename" THEN row.hash ELSE Absent,
                         revision |-> row.revision])
                 /\ Observe(id, row)
        /\ hints' = hints \cup ({req.path, req.dest} \cap Paths)
        /\ Settle(op, "committed")
        /\ NextIntent
        /\ UNCHANGED <<disk, trash, request, journal, budget>>

\* Errors the database or the file system gives for the state they are in:
\* FILE_NOT_FOUND for a move whose row is gone, a constraint violation, or a
\* target that vanished before its metadata was read.
ApplyFails(op) ==
    LET req == request[op]
    IN  /\ host.op = op
        /\ \/ host.step \in {"check", "commit"} /\ Moves(op) /\ RowsAt(req.path) = {}
           \/ /\ host.step = "commit" /\ Moves(op)
              /\ \/ req.kind = "rename" /\ disk[req.dest] = Absent
                 \/ \E id \in RowsAt(req.path) : UniqueBroken(op, id)
           \/ /\ host.step = "commit" /\ req.kind = "write"
              /\ \/ disk[req.path] = Absent
                 \/ RowsAt(req.path) = {} /\ files[journal[op]].path # NoPath
        /\ Abandon
        /\ UNCHANGED <<disk, trash, files, operations, request, journal, receipt,
                       outbox, observed, hints, budget>>

-----------------------------------------------------------------------------
(* Scanning: refresh_snapshot(true) and reconcile_file_identities, for files
   other programs edit, create and delete in place. *)

NewPaths == {p \in Paths : disk[p] # Absent /\ LiveAt(p) = {}}
FreshIds == {f \in [NewPaths -> Unused] :
                \A p, q \in NewPaths : f[p] = f[q] => p = q}

Scanned(fresh) ==
    [id \in FileIds |->
        LET row == files[id]
            named == {p \in NewPaths : fresh[p] = id}
        IN  IF named # {}
            THEN [path |-> CHOOSE p \in named : TRUE,
                  hash |-> disk[CHOOSE p \in named : TRUE],
                  revision |-> 1, deleted |-> FALSE]
            ELSE IF row.path \in NewPaths THEN [row EXCEPT !.path = Retired]
            ELSE IF row.deleted \/ row.path \notin Paths THEN row
            ELSE IF disk[row.path] = Absent
            THEN [row EXCEPT !.deleted = TRUE, !.revision = @ + 1]
            ELSE [row EXCEPT !.hash = disk[row.path],
                             !.revision = IF row.hash = disk[row.path]
                                          THEN @ ELSE @ + 1]]

ScanFiles == /\ \E fresh \in FreshIds : files' = Scanned(fresh)
             /\ hints' = {}

Scan ==
    /\ host = Idle
    /\ ScanFiles
    /\ UNCHANGED <<disk, trash, operations, request, journal, receipt, outbox,
                   observed, host, budget>>

\* Workspace::read: a path the snapshot does not know is scanned first; a known
\* one takes the digest just read.
Read(p) ==
    /\ host = Idle
    /\ disk[p] # Absent
    /\ \/ LiveAt(p) = {} /\ ScanFiles
       \/ /\ \E id \in LiveAt(p) :
                /\ files[id].hash # disk[p]
                /\ files' = [files EXCEPT ![id].hash = disk[p],
                                          ![id].revision = @ + 1]
          /\ UNCHANGED hints
    /\ UNCHANGED <<disk, trash, operations, request, journal, receipt, outbox,
                   observed, host, budget>>

-----------------------------------------------------------------------------
(* Opening the vault and recovering *)

Open ==
    /\ host = Closed
    /\ host' = At("opening", NoOp, "none")
    /\ UNCHANGED <<disk, trash, files, operations, request, journal, receipt,
                   outbox, observed, hints, budget>>

Recovering == host.mode \in {"opening", "replaying"} /\ host.op = NoOp

\* recover(): every pending rename and delete, then every pending write.
RecoverNext(op) ==
    /\ Recovering
    /\ op \in IF PendingMoves # {} THEN PendingMoves ELSE PendingWrites
    /\ host' = At(host.mode, op, "check")
    /\ UNCHANGED <<disk, trash, files, operations, request, journal, receipt,
                   outbox, observed, hints, budget>>

\* Defect: the vault is served without the scan that follows recovery.
RecoverDoneUnscanned ==
    /\ Recovering
    /\ PendingMoves \cup PendingWrites = {}
    /\ host' = Idle
    /\ UNCHANGED <<disk, trash, files, operations, request, journal, receipt,
                   outbox, observed, hints, budget>>

RecoverDone ==
    /\ Recovering
    /\ PendingMoves \cup PendingWrites = {}
    /\ host' = Idle
    /\ \/ host.mode = "opening" /\ ScanFiles
       \/ host.mode = "replaying" /\ UNCHANGED <<files, hints>>
    /\ UNCHANGED <<disk, trash, operations, request, journal, receipt, outbox,
                   observed, budget>>

-----------------------------------------------------------------------------
(* The environment *)

\* The process stops; memory is lost, the vault and the database are not.
Crash ==
    /\ budget.crashes > 0
    /\ host # Closed
    /\ host' = Closed
    /\ hints' = {}
    /\ budget' = [budget EXCEPT !.crashes = @ - 1]
    /\ UNCHANGED <<disk, trash, files, operations, request, journal, receipt,
                   outbox, observed>>

\* A system call or a transaction fails: the call returns, the intent stays.
Fault ==
    /\ budget.faults > 0
    /\ host.op # NoOp
    /\ Abandon
    /\ budget' = [budget EXCEPT !.faults = @ - 1]
    /\ UNCHANGED <<disk, trash, files, operations, request, journal, receipt,
                   outbox, observed, hints>>

\* Another program writes or deletes a file of the vault.
ExternalEdit(p, h) ==
    /\ budget.edits > 0
    /\ disk[p] # h
    /\ disk' = [disk EXCEPT ![p] = h]
    /\ hints' = IF host = Closed THEN hints ELSE hints \cup {p}
    /\ budget' = [budget EXCEPT !.edits = @ - 1]
    /\ UNCHANGED <<trash, files, operations, request, journal, receipt, outbox,
                   observed, host>>

-----------------------------------------------------------------------------
Init ==
    /\ disk \in [Paths -> Hashes]
    /\ trash = [op \in Ops |-> Absent]
    /\ files = [id \in FileIds |-> NoRow]
    /\ operations = [op \in Ops |-> "none"]
    /\ request = [op \in Ops |-> NoRequest]
    /\ journal = [op \in Ops |-> NoId]
    /\ receipt = [op \in Ops |-> NoReceipt]
    /\ outbox = [op \in Ops |-> NoSend]
    /\ observed = [id \in FileIds |-> NoSighting]
    /\ hints = {}
    /\ host = Closed
    /\ budget = [crashes |-> MaxCrashes, faults |-> MaxFaults, edits |-> MaxEdits]

Submit ==
    \E op \in Ops :
        \/ \E p \in Paths, c \in Contents :
              \/ SubmitWrite(op, p, c, "local", NoId)
              \/ \E id \in FileIds : SubmitWrite(op, p, c, "remote", id)
        \/ \E p, q \in Paths, kind \in {"rename", "delete"}, origin \in Origins :
              SubmitMove(op, kind, p, q, origin)
        \/ Resubmit(op)

Apply(op) ==
    \/ CheckWrite(op) \/ ReplaceFile(op) \/ CommitWrite(op)
    \/ CheckMove(op) \/ CopyToTarget(op) \/ RemoveSource(op) \/ CommitMove(op)
    \/ ApplyFails(op)

Recover == (\E op \in Ops : RecoverNext(op)) \/ RecoverDone

Environment ==
    \/ Crash
    \/ Fault
    \/ \E p \in Paths, h \in Hashes : ExternalEdit(p, h)

Next ==
    \/ Submit
    \/ \E op \in Ops : Apply(op)
    \/ Scan
    \/ \E p \in Paths : Read(p)
    \/ Open
    \/ Recover
    \/ Environment

Spec == Init /\ [][Next]_vars

\* The process runs the call it is in, and a closed vault is opened again.
FairSpec ==
    /\ Spec
    /\ WF_vars(\E op \in Ops : Apply(op))
    /\ WF_vars(Recover)
    /\ WF_vars(Open)

-----------------------------------------------------------------------------
(* Properties *)

\* No call has failed and no other program has interfered: only crashes so far.
Undisturbed == budget.faults = MaxFaults /\ budget.edits = MaxEdits

Touches(op, p) == p \in {request[op].path, request[op].dest}

\* An outbox entry exists exactly for the committed local operations, and
\* names the file, path and revision of the receipt: a crash between the file
\* replacement and the transaction neither loses nor invents an upload, and a
\* remote write is never sent back (apply_stored_journal, apply_file_op).
OutboxMatchesReceipts ==
    \A op \in Ops :
        LET sent == outbox[op] IN
        /\ sent.kind # "none" <=> /\ operations[op] = "committed"
                                 /\ request[op].origin = "local"
        /\ sent.kind # "none" =>
              /\ sent.file = receipt[op].file
              /\ sent.path = receipt[op].path
              /\ sent.revision = receipt[op].revision
              /\ sent.hash = IF sent.kind = "put" THEN receipt[op].hash
                             ELSE Absent

\* The uploads of one file carry distinct revisions, so their order can be
\* recovered from the outbox (revision=files.revision+1 in every commit).
UploadsOrdered ==
    \A a, b \in Ops :
        /\ outbox[a].kind # "none" /\ outbox[b].kind # "none"
        /\ a # b /\ outbox[a].file = outbox[b].file
        => outbox[a].revision # outbox[b].revision

\* No two rows hold the same vault path: the identity and tombstone updates
\* keep files.path UNIQUE without ever relying on the constraint to fire.
PathsUnique ==
    \A i, j \in FileIds :
        files[i].path = files[j].path /\ files[i].path \in Paths => i = j

\* When no call runs, the catalogue describes the directory on every path no
\* hint marks and no unfinished or conflicting operation touches.
CatalogueMatchesDisk ==
    host = Idle =>
        \A p \in Paths :
            \/ p \in hints
            \/ \E op \in Ops : /\ operations[op] \in {"pending", "conflict"}
                              /\ Touches(op, p)
            \/ /\ disk[p] = Absent <=> LiveAt(p) = {}
               /\ \A id \in LiveAt(p) : files[id].hash = disk[p]

\* Recovery precedes every other call: whenever the process stopped, an idle
\* host has no pending intent unless a call failed or a file was taken away
\* under it (open() and the replay of a known id recover first).
IdleIsSettled ==
    host = Idle /\ Undisturbed
    => \A op \in Ops : operations[op] # "pending"

\* A write commits under the identity its journal row reserved, whenever the
\* process stopped in between, so the vault and the server keep naming a file
\* alike (write_with_identity).
IdentityKept ==
    Undisturbed => \A op \in Ops :
        operations[op] = "committed" /\ request[op].kind = "write"
        => receipt[op].file = journal[op]

\* What the journal committed is what sync_discover compares with: while only
\* crashes interfere there is nothing to rediscover, so no committed operation,
\* remote ones above all, is sent again as a local change.
NothingToRediscover ==
    host = Idle /\ Undisturbed =>
        \A id \in FileIds :
            (\E op \in Ops : receipt[op].file = id)
            => /\ observed[id].deleted = files[id].deleted
               /\ ~files[id].deleted => /\ observed[id].hash = files[id].hash
                                       /\ observed[id].path = files[id].path

\* A committed delete leaves the deleted content in the trash, even when the
\* source changed or the process stopped between the copy and the removal.
DeletedContentKept ==
    \A op \in Ops :
        operations[op] = "committed" /\ request[op].kind = "delete"
        => trash[op] = request[op].expected

\* workspace.rs:1 says recovery never overwrites an external modification: a
\* step of the host changes a file only if it holds what the operation
\* expects, or what it writes. The code does not keep this: another program
\* may edit between check and replacement (README, section 7).
NeverOverwritesExternalEdits ==
    [][\A op \in Ops, p \in Paths :
          host.op = op /\ disk'[p] # disk[p] /\ budget' = budget
          => disk[p] \in {Absent, request[op].expected, request[op].digest}]_vars

\* Once accepted, recovery must complete an intent (write_operation_guarded): an
\* intent that is pending while the vault opens is committed or reported as a
\* conflict, however often the process stops. With external edits the code does
\* not keep this, nor OpenSucceeds: a rename may be stuck (README, section 7).
RecoveryCompletesIntents ==
    \A op \in Ops :
        operations[op] = "pending" /\ host.mode = "opening"
        ~> operations[op] \in {"committed", "conflict"}

\* A closed vault can be opened again, whatever the process was doing when it
\* stopped.
OpenSucceeds == host = Closed ~> host = Idle

\* The journal implements the ledger: status, origin and queued uploads of
\* every operation change together, in the transaction that settles it.
Uploads == {op \in Ops : outbox[op].kind # "none"}
Origin == [op \in Ops |-> request[op].origin]
Ledger == INSTANCE OperationLedger
          WITH status <- operations, origin <- Origin, uploads <- Uploads
ImplementsLedger == Ledger!LedgerSpec

-----------------------------------------------------------------------------
(* What makes the invariants above inductive *)

\* The call in progress works on a pending intent; only a write replaces a file;
\* a write has a vault path and has reserved an identity.
CallInProgress ==
    /\ host.op # NoOp => operations[host.op] = "pending"
    /\ host.op = NoOp <=> host.step = "none"
    /\ host.step = "replace" => request[host.op].kind = "write"
    /\ host.step \in {"copy", "remove"} => Moves(host.op)
    /\ \A op \in Ops : request[op].kind = "write" =>
          journal[op] \in FileIds /\ request[op].path \in Paths

\* Past its check a delete finds nothing but its own content in the trash, and
\* past its copy it finds that content there.
TrashPrepared ==
    host.step # "none" /\ request[host.op].kind = "delete" =>
        /\ host.step = "copy" =>
              trash[host.op] \in {Absent, request[host.op].expected}
        /\ host.step \in {"remove", "commit"} =>
              trash[host.op] = request[host.op].expected

JournalInv ==
    /\ TypeOK
    /\ CallInProgress
    /\ TrashPrepared
    /\ OutboxMatchesReceipts
    /\ DeletedContentKept
=============================================================================

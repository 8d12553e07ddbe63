--------------------------- MODULE CredentialVault ---------------------------
(***************************************************************************)
(* The credential broker of the desktop host (credentials.rs), its session *)
(* monitor (session_lock.rs), the system unlock secret                     *)
(* (credential_autounlock.rs), the commands of main.rs that use them, and  *)
(* the import of the old Python store with its clean-up.                   *)
(*                                                                         *)
(* Several host processes share one data directory.  In each, the broker   *)
(* sits behind a mutex; an operation that takes several steps on disk is   *)
(* op[h], and the mutex is free when op[h] = None.  The session monitor    *)
(* and the lock command do not wait for the mutex: they bump an epoch that *)
(* was remembered when the unlock began.  Epochs are only compared for     *)
(* equality with a remembered one, so a flag, stale, stands for the        *)
(* comparison.  The key of a vault is derived from a password and a salt   *)
(* drawn for that password: a salt identifies a key.                       *)
(***************************************************************************)
EXTENDS Naturals, FiniteSets

CONSTANTS
    Hosts,        \* host processes started on one data directory
    Ids,          \* credential ids
    Values,       \* secrets
    Passwords,    \* passwords a user may type
    Environments, \* whether the old key comes from the environment
    None,
    MaxEvents     \* bound on crashes, faults and the commands that change a file

ASSUME EnvironmentsAssumption == Environments \subseteq BOOLEAN

Secrets == [Ids -> Values \cup {None}]
Keys == Passwords \cup Hosts        \* a system secret is named after its host

Snapshots == [pw : Keys, salt : Nat, recs : Secrets]
Sessions == [pw : Keys, salt : Nat, recs : Secrets, stale : BOOLEAN]
States == {"backed_up", "copied", "verified", "switched",
           "cleanup_authorized", "cleanup_confirmed"}
StateFiles == [state : States, source : Secrets, env : BOOLEAN]

ASSUME NoneIsAbsent ==
    /\ None \notin Hosts
    /\ None \notin Snapshots /\ None \notin Sessions /\ None \notin StateFiles

VARIABLES
    vault,    \* stronghold.v1: None or the snapshot [pw, salt, recs]
    auto,     \* auto-unlock.dpapi: None or a password
    copies,   \* exported backups and pre-restore copies
    source,   \* the old credentials.json: None or its secrets
    key,      \* whether the old master.key is in its directory
    owner,    \* .opennexus-owner.json in the old directory
    journal,  \* migration-state/<id>.json
    backup,   \* migration-backups/<id>: the source and the key it is sealed with
    holder,   \* the host that holds stronghold.v1.lock, or None
    up,       \* the host has finished its start-up
    session,  \* the unlocked vault in memory
    op,       \* the operation that holds the mutex
    waiting,  \* a lock command waits for the mutex
    salts,    \* salts drawn so far
    touched,  \* history: ids the user changed since they were imported
    events

disk == <<vault, auto, copies, source, key, owner, journal, backup, salts, touched>>
vars == <<disk, holder, up, session, op, waiting, events>>

Empty == [i \in Ids |-> None]

(* A random system secret: drawn at most once by each host (SaveSecret). *)
Secret(h) == h

Snapshot(p, s, r) == [pw |-> p, salt |-> s, recs |-> r]

(* A new installation, or one whose vault a user opened with a password     *)
(* before there was a system secret.                                        *)
Init ==
    /\ \/ vault = None /\ salts = 0
       \/ \E p \in Passwords : vault = Snapshot(p, 1, Empty) /\ salts = 1
    /\ auto = None /\ copies = {}
    /\ source \in [Ids -> Values] /\ key = TRUE
    /\ owner = None /\ journal = None /\ backup = None
    /\ holder = None /\ touched = {} /\ events = 0
    /\ up = [h \in Hosts |-> FALSE]
    /\ session = [h \in Hosts |-> None]
    /\ op = [h \in Hosts |-> None]
    /\ waiting = [h \in Hosts |-> FALSE]

Event == events < MaxEvents /\ events' = events + 1

(* is_locked and session(): the epoch is that of the unlock. *)
Unlocked(h) == IF session[h] = None THEN FALSE ELSE ~session[h].stale

Idle(h) == up[h] /\ op[h] = None

(* lock(): the session is cleared and the lock file released. *)
Locks(h) ==
    /\ session' = [session EXCEPT ![h] = None]
    /\ holder' = IF holder = h THEN None ELSE holder

At(h, step) == IF op[h] = None THEN FALSE ELSE op[h].step = step
Goes(h, step) == op' = [op EXCEPT ![h].step = step]
Ends(h) == op' = [op EXCEPT ![h] = None]

-----------------------------------------------------------------------------
(* Start-up and unlock *)

Unlocking(p, starting) ==
    [step |-> "load", pw |-> p, snap |-> None, stale |-> FALSE, starting |-> starting]

(* unlock(): the previous session goes, the lock file must be free.  A host *)
(* that finds the file held while it starts ends, without any effect.       *)
BeginUnlock(h, p, starting) ==
    /\ holder \in {None, h}
    /\ holder' = h
    /\ session' = [session EXCEPT ![h] = None]
    /\ op' = [op EXCEPT ![h] = Unlocking(p, starting)]

(* setup: ensure_system_unlock reads the secret; without one it leaves an   *)
(* existing vault locked, and draws a secret for a new vault.               *)
Start(h) ==
    /\ ~up[h] /\ op[h] = None
    /\ UNCHANGED <<disk, waiting, events>>
    /\ \/ auto # None /\ BeginUnlock(h, auto, TRUE) /\ UNCHANGED up
       \/ /\ auto = None /\ vault # None
          /\ up' = [up EXCEPT ![h] = TRUE]
          /\ UNCHANGED <<holder, session, op>>
       \/ /\ auto = None /\ vault = None
          /\ op' = [op EXCEPT ![h] = [Unlocking(Secret(h), TRUE) EXCEPT !.step = "save"]]
          /\ UNCHANGED <<holder, session, up>>

(* The secret is stored before the vault that it opens is created. *)
SaveSecret(h) ==
    /\ At(h, "save")
    /\ auto' = Secret(h)
    /\ \/ BeginUnlock(h, Secret(h), TRUE)
       \/ holder \notin {None, h} /\ Ends(h) /\ UNCHANGED <<holder, session>>
    /\ UNCHANGED <<vault, copies, source, key, owner, journal, backup, salts, touched,
                   up, waiting, events>>

(* credentials_unlock *)
Unlock(h, p) ==
    /\ Idle(h)
    /\ BeginUnlock(h, p, FALSE)
    /\ UNCHANGED <<disk, up, waiting, events>>

(* An unlock that fails leaves the vault locked; a host whose start-up      *)
(* unlock fails does not start.                                             *)
UnlockFails(h) == Ends(h) /\ Locks(h) /\ UNCHANGED up

(* load_snapshot checks the password; a missing vault is created. *)
Load(h) ==
    /\ At(h, "load")
    /\ \/ /\ vault # None
          /\ IF vault.pw = op[h].pw
             THEN /\ op' = [op EXCEPT ![h].step = "check", ![h].snap = vault]
                  /\ UNCHANGED <<holder, session, up>>
             ELSE UnlockFails(h)
          /\ UNCHANGED <<vault, salts, events>>
       \/ /\ vault = None
          /\ vault' = Snapshot(op[h].pw, salts + 1, Empty)
          /\ salts' = salts + 1
          /\ op' = [op EXCEPT ![h].step = "check", ![h].snap = vault']
          /\ UNCHANGED <<holder, session, up, events>>
       \/ /\ vault = None /\ Event
          /\ UnlockFails(h) /\ UNCHANGED <<vault, salts>>
    /\ UNCHANGED <<auto, copies, source, key, owner, journal, backup, touched, waiting>>

SessionOf(snap) ==
    [pw |-> snap.pw, salt |-> snap.salt, recs |-> snap.recs, stale |-> FALSE]

(* Defect: the epoch is not compared again. *)
DefectCheck(h) ==
    /\ At(h, "check")
    /\ session' = [session EXCEPT ![h] = SessionOf(op[h].snap)]
    /\ IF op[h].starting THEN up' = [up EXCEPT ![h] = TRUE] /\ Ends(h)
                         ELSE op' = [op EXCEPT ![h].step = "enable"] /\ UNCHANGED up
    /\ UNCHANGED <<disk, holder, waiting, events>>

(* The epoch is compared after the key derivation: a signal wins. *)
Check(h) ==
    /\ At(h, "check")
    /\ UNCHANGED <<disk, waiting, events>>
    /\ IF op[h].stale THEN UnlockFails(h) ELSE
        /\ session' = [session EXCEPT ![h] = SessionOf(op[h].snap)]
        /\ UNCHANGED holder
        /\ IF op[h].starting THEN up' = [up EXCEPT ![h] = TRUE] /\ Ends(h)
                             ELSE op' = [op EXCEPT ![h].step = "enable", ![h].snap = None]
                                  /\ UNCHANGED up

(* enable_system_unlock, after an unlock or a change of password. *)
Enable(h) ==
    /\ At(h, "enable") /\ Ends(h)
    /\ \/ Unlocked(h) /\ auto' = op[h].pw /\ UNCHANGED events
       \/ Unlocked(h) /\ UNCHANGED auto /\ Event
       \/ ~Unlocked(h) /\ UNCHANGED <<auto, events>>
    /\ UNCHANGED <<vault, copies, source, key, owner, journal, backup, salts, touched,
                   holder, up, session, waiting>>

-----------------------------------------------------------------------------
(* Locking *)

(* A bump of the epoch: by the session monitor, or by lock_credentials      *)
(* before it waits for the mutex.                                           *)
Signalled(h) ==
    /\ session' = IF session[h] = None THEN session
                  ELSE [session EXCEPT ![h].stale = TRUE]
    /\ op' = IF At(h, "load") \/ At(h, "check")
             THEN [op EXCEPT ![h].stale = TRUE] ELSE op

SessionLock(h) ==
    /\ up[h]
    /\ Signalled(h)
    /\ UNCHANGED <<disk, holder, up, waiting, events>>

LockCommand(h) ==
    /\ up[h] /\ ~waiting[h]
    /\ Signalled(h)
    /\ waiting' = [waiting EXCEPT ![h] = TRUE]
    /\ UNCHANGED <<disk, holder, up, events>>

LockNow(h) ==
    /\ waiting[h] /\ op[h] = None
    /\ Locks(h)
    /\ waiting' = [waiting EXCEPT ![h] = FALSE]
    /\ UNCHANGED <<disk, up, op, events>>

(* The thread of setup that drops a revoked session every 200 ms. *)
Reap(h) ==
    /\ Idle(h) /\ session[h] # None /\ ~Unlocked(h)
    /\ Locks(h)
    /\ UNCHANGED <<disk, up, op, waiting, events>>

-----------------------------------------------------------------------------
(* Records: memory is changed, then the snapshot replaced; after any error  *)
(* the vault is locked.                                                     *)

Persists(h, r) ==
    /\ vault' = Snapshot(session[h].pw, session[h].salt, r)
    /\ session' = [session EXCEPT ![h].recs = r]
    /\ UNCHANGED holder

(* Defect: an error keeps the changed memory. *)
DefectStore(h, r, ids) ==
    /\ Event
    /\ \/ Persists(h, r) /\ touched' = touched \cup ids
       \/ /\ session' = [session EXCEPT ![h].recs = r]
          /\ UNCHANGED <<vault, touched, holder>>
    /\ UNCHANGED <<auto, copies, source, key, owner, journal, backup, salts, up, op, waiting>>

Store(h, r, ids) ==
    /\ Event
    /\ \/ Persists(h, r) /\ touched' = touched \cup ids
       \/ Locks(h) /\ UNCHANGED <<vault, touched>>
    /\ UNCHANGED <<auto, copies, source, key, owner, journal, backup, salts, up, op, waiting>>

Put(h, i, v) ==
    /\ Idle(h) /\ Unlocked(h)
    /\ Store(h, [session[h].recs EXCEPT ![i] = v], {i})

(* credentials.delete and credentials.delete_many *)
Delete(h, ids) ==
    /\ Idle(h) /\ Unlocked(h)
    /\ Store(h, [i \in Ids |-> IF i \in ids THEN None ELSE session[h].recs[i]], ids)

(* credentials.move_many: ids that hold a value move to f of them; a target *)
(* with another value, or that is itself moved, refuses the whole request,  *)
(* and a refusal locks the vault.                                           *)
Moved(r, f) == {i \in DOMAIN f : r[i] # None}
Movable(r, f) ==
    \A i \in Moved(r, f) :
        /\ r[f[i]] \in {None, r[i]}
        /\ f[i] = i \/ f[i] \notin Moved(r, f)
AfterMove(r, f) ==
    LET M == Moved(r, f) IN
    {n \in [Ids -> Values \cup {None}] : \A i \in Ids :
        IF \E j \in M : f[j] = i THEN n[i] \in {r[j] : j \in {j \in M : f[j] = i}}
        ELSE n[i] = IF i \in M THEN None ELSE r[i]}

MoveMany(h, f) ==
    /\ Idle(h) /\ Unlocked(h)
    /\ LET r == session[h].recs IN
       IF Movable(r, f)
       THEN \E n \in AfterMove(r, f) : Store(h, n, Moved(r, f) \cup {f[i] : i \in Moved(r, f)})
       ELSE Event /\ Locks(h) /\ UNCHANGED <<disk, up, op, waiting>>

(* change_password seals every record under a new key; an error keeps the   *)
(* old session and changes nothing.                                         *)
ChangePassword(h, p) ==
    /\ Idle(h) /\ Unlocked(h) /\ Event
    /\ vault' = Snapshot(p, salts + 1, session[h].recs)
    /\ salts' = salts + 1
    /\ session' = [session EXCEPT ![h] = SessionOf(vault')]
    /\ op' = [op EXCEPT ![h] = [Unlocking(p, FALSE) EXCEPT !.step = "enable"]]
    /\ UNCHANGED <<auto, copies, source, key, owner, journal, backup, touched,
                   holder, up, waiting>>

Backup(h) ==
    /\ Idle(h) /\ Unlocked(h) /\ Event
    /\ copies' = copies \cup {vault}
    /\ UNCHANGED <<vault, auto, source, key, owner, journal, backup, salts, touched,
                   holder, up, session, op, waiting>>

(* Defect: the replaced snapshot is not kept. *)
DefectRestore(h, c) ==
    /\ Idle(h) /\ ~Unlocked(h) /\ Event
    /\ holder \in {None, h} /\ Locks(h)
    /\ vault' = c
    /\ UNCHANGED <<auto, copies, source, key, owner, journal, backup, salts, touched,
                   up, op, waiting>>

(* restore: only while locked, under the lock file, which is given back; the *)
(* replaced snapshot is kept, then a failure may still keep the old vault.   *)
Restore(h, c) ==
    /\ Idle(h) /\ ~Unlocked(h) /\ Event
    /\ holder \in {None, h} /\ Locks(h)
    /\ copies' = IF vault = None THEN copies ELSE copies \cup {vault}
    /\ vault' \in {c, vault}
    /\ UNCHANGED <<auto, source, key, owner, journal, backup, salts, touched,
                   up, op, waiting>>

-----------------------------------------------------------------------------
(* Import of the old store *)

(* .migration.lock is held by an import, a clean-up, or the old store. *)
Migrating == {"backed_up", "copy", "copied", "verify", "own", "switch", "authorize",
              "source", "key", "backup", "record", "confirm"}
DirectoryFree == \A h \in Hosts : \A s \in Migrating : ~At(h, s)

State(s, o) == [state |-> s, source |-> o.source, env |-> o.env]
SameMigration(a, b) == a.source = b.source /\ a.env = b.env

(* The Python store refuses to work once an owner file exists. *)
LegacyPut(i, v) ==
    /\ source # None /\ owner = None /\ DirectoryFree /\ Event
    /\ source' = [source EXCEPT ![i] = v]
    /\ UNCHANGED <<vault, auto, copies, key, owner, journal, backup, salts, touched,
                   holder, up, session, op, waiting>>

Compatible(h) ==
    \A i \in Ids : session[h].recs[i] \in {None, source[i]} \/ source[i] = None

BackupOf(h, o) == [source |-> o.source, salt |-> session[h].salt, whole |-> TRUE]

(* Everything is read and compared before the first write, the backup. *)
Import(h, env) ==
    /\ Idle(h) /\ Unlocked(h) /\ DirectoryFree /\ Event
    /\ source # None /\ (key \/ env) /\ Compatible(h)
    /\ owner # None => owner = [state |-> "switched", source |-> source, env |-> env]
    /\ op' = [op EXCEPT ![h] = [step |-> "backed_up", source |-> source, env |-> env]]
    /\ backup' = BackupOf(h, op'[h])
    /\ UNCHANGED <<vault, auto, copies, source, key, owner, journal, salts, touched,
                   holder, up, session, waiting>>

(* A step that writes one of the two state files. *)
WritesJournal(h, state) ==
    /\ journal' = State(state, op[h])
    /\ UNCHANGED <<vault, auto, copies, source, key, owner, backup, salts, touched,
                   holder, up, session, waiting, events>>
WritesOwner(h, state) ==
    /\ owner' = State(state, op[h])
    /\ UNCHANGED <<vault, auto, copies, source, key, journal, backup, salts, touched,
                   holder, up, session, waiting, events>>

ImportBackedUp(h) == At(h, "backed_up") /\ WritesJournal(h, "backed_up") /\ Goes(h, "copy")

Imported(r, o) == [i \in Ids |-> IF o.source[i] = None THEN r[i] ELSE o.source[i]]

ImportCopy(h) ==
    /\ At(h, "copy") /\ Goes(h, "copied")
    /\ Persists(h, Imported(session[h].recs, op[h]))
    /\ touched' = {i \in touched : op[h].source[i] = None}
    /\ UNCHANGED <<auto, copies, source, key, owner, journal, backup, salts,
                   up, waiting, events>>

ImportCopied(h) == At(h, "copied") /\ WritesJournal(h, "copied") /\ Goes(h, "verify")

(* The committed snapshot is opened again, the source read again. *)
Verified(h) == Imported(vault.recs, op[h]) = vault.recs /\ source = op[h].source
ImportVerify(h) ==
    /\ At(h, "verify") /\ Verified(h)
    /\ WritesJournal(h, "verified") /\ Goes(h, "own")

ImportOwn(h) == At(h, "own") /\ WritesOwner(h, "switched") /\ Goes(h, "switch")
ImportSwitch(h) == At(h, "switch") /\ WritesJournal(h, "switched") /\ Ends(h)

(* An error of the first step is only reported; later ones lock the vault. *)
ImportFails(h) ==
    /\ \E s \in {"backed_up", "copy", "copied", "verify", "own", "switch"} : At(h, s)
    /\ Event /\ Ends(h)
    /\ IF At(h, "backed_up") THEN UNCHANGED <<session, holder>> ELSE Locks(h)
    /\ UNCHANGED <<disk, up, waiting>>

-----------------------------------------------------------------------------
(* Clean-up of the old store *)

(* verify_migration_backup *)
Readable(h) == backup.whole /\ backup.source = owner.source /\ backup.salt = session[h].salt

(* The checks of cleanup_fernet, on what the user confirmed: owner.source. *)
CleanupAllowed(h) ==
    /\ owner # None /\ journal # None
    /\ owner.state \in {"switched", "cleanup_authorized"}
    /\ SameMigration(journal, owner)
    /\ journal.state \in {"switched", "cleanup_authorized", "cleanup_confirmed"}
    /\ IF backup = None THEN owner.state # "switched" ELSE Readable(h)
    /\ IF source = None THEN owner.state # "switched" ELSE source = owner.source
    /\ backup = None => source = None /\ (owner.env \/ ~key)

Cleanup(h) ==
    /\ Idle(h) /\ Unlocked(h) /\ DirectoryFree /\ CleanupAllowed(h)
    /\ LET o == [step |-> "authorize", source |-> owner.source, env |-> owner.env] IN
       IF owner.state = "switched"
       THEN /\ owner' = State("cleanup_authorized", o)
            /\ op' = [op EXCEPT ![h] = o]
       ELSE /\ op' = [op EXCEPT ![h] = [o EXCEPT !.step = "source"]]
            /\ UNCHANGED owner
    /\ UNCHANGED <<vault, auto, copies, source, key, journal, backup, salts, touched,
                   holder, up, session, waiting, events>>

CleanupAuthorized(h) ==
    At(h, "authorize") /\ WritesJournal(h, "cleanup_authorized") /\ Goes(h, "source")

CleanupSource(h) ==
    /\ At(h, "source") /\ Goes(h, "key")
    /\ source' = None
    /\ UNCHANGED <<vault, auto, copies, key, owner, journal, backup, salts, touched,
                   holder, up, session, waiting, events>>

CleanupKey(h) ==
    /\ At(h, "key") /\ Goes(h, "backup")
    /\ key' = (key /\ op[h].env)
    /\ UNCHANGED <<vault, auto, copies, source, owner, journal, backup, salts, touched,
                   holder, up, session, waiting, events>>

(* remove_dir_all may remove one of the two files and fail. *)
CleanupBackup(h) ==
    /\ At(h, "backup")
    /\ \/ backup' = None /\ Goes(h, "record") /\ UNCHANGED events
       \/ /\ backup # None /\ Event
          /\ backup' = [backup EXCEPT !.whole = FALSE] /\ Ends(h)
    /\ UNCHANGED <<vault, auto, copies, source, key, owner, journal, salts, touched,
                   holder, up, session, waiting>>

CleanupRecord(h) ==
    At(h, "record") /\ WritesJournal(h, "cleanup_confirmed") /\ Goes(h, "confirm")
CleanupConfirm(h) ==
    At(h, "confirm") /\ WritesOwner(h, "cleanup_confirmed") /\ Ends(h)

CleanupFails(h) ==
    /\ \E s \in {"authorize", "source", "key", "backup", "record", "confirm"} : At(h, s)
    /\ Event /\ Ends(h)
    /\ UNCHANGED <<disk, holder, up, session, waiting>>

-----------------------------------------------------------------------------
(* The process ends, at any step; the file locks go with it. *)
Crash(h) ==
    /\ up[h] \/ op[h] # None
    /\ Event /\ Ends(h) /\ Locks(h)
    /\ up' = [up EXCEPT ![h] = FALSE]
    /\ waiting' = [waiting EXCEPT ![h] = FALSE]
    /\ UNCHANGED disk

ImportStep(h) ==
    \/ ImportBackedUp(h) \/ ImportCopy(h) \/ ImportCopied(h) \/ ImportVerify(h)
    \/ ImportOwn(h) \/ ImportSwitch(h)
CleanupStep(h) ==
    \/ CleanupAuthorized(h) \/ CleanupSource(h) \/ CleanupKey(h) \/ CleanupBackup(h)
    \/ CleanupRecord(h) \/ CleanupConfirm(h)
UnlockStep(h) == SaveSecret(h) \/ Load(h) \/ Check(h) \/ Enable(h)

Next ==
    \/ \E h \in Hosts :
        \/ Start(h) \/ UnlockStep(h) \/ Crash(h)
        \/ SessionLock(h) \/ LockCommand(h) \/ LockNow(h) \/ Reap(h)
        \/ \E p \in Passwords : Unlock(h, p) \/ ChangePassword(h, p)
        \/ \E i \in Ids, v \in Values : Put(h, i, v)
        \/ \E ids \in (SUBSET Ids) \ {{}} : Delete(h, ids)
        \/ \E ids \in (SUBSET Ids) \ {{}} : \E f \in [ids -> Ids] : MoveMany(h, f)
        \/ Backup(h) \/ \E c \in copies : Restore(h, c)
        \/ \E env \in Environments : Import(h, env)
        \/ ImportStep(h) \/ ImportFails(h)
        \/ Cleanup(h) \/ CleanupStep(h) \/ CleanupFails(h)
    \/ \E i \in Ids, v \in Values : LegacyPut(i, v)

Spec == Init /\ [][Next]_vars

-----------------------------------------------------------------------------
IsSnapshot(s) == s.pw \in Keys /\ s.salt \in 1..salts /\ s.recs \in Secrets
IsState(s) == s.state \in States /\ s.source \in Secrets /\ s.env \in Environments

(* TypeOK: what the files, the lock file and the brokers may hold; only the  *)
(* holder of the lock file has a session or is between load and check.       *)
TypeOK ==
    /\ vault # None => IsSnapshot(vault)
    /\ auto \in Keys \cup {None}
    /\ \A c \in copies : IsSnapshot(c)
    /\ source # None => source \in Secrets
    /\ key \in BOOLEAN
    /\ owner # None => IsState(owner)
    /\ journal # None => IsState(journal)
    /\ backup # None => backup.source \in Secrets /\ backup.salt \in 1..salts
    /\ holder \in Hosts \cup {None}
    /\ \A h \in Hosts :
        /\ session[h] # None => IsSnapshot(session[h]) /\ holder = h
        /\ At(h, "load") \/ At(h, "check") => holder = h
    /\ touched \subseteq Ids /\ events \in 0..MaxEvents

(* ServesCommitted: a broker that answers requests answers from what is on   *)
(* disk, whatever failed before and whatever other hosts did ("never serve   *)
(* uncommitted memory after a disk failure", credentials.rs put).            *)
ServesCommitted ==
    \A h \in Hosts : Idle(h) /\ Unlocked(h) =>
        session[h] = [SessionOf(vault) EXCEPT !.stale = FALSE]

(* SecretsRecoverable: a secret of the old store, once its file is removed,  *)
(* is in the vault or in a kept copy of it, unless the user has changed it   *)
(* since; crashes, restores and repeated imports included.                   *)
SecretsRecoverable ==
    owner # None /\ source = None =>
        \A i \in Ids :
            \/ owner.source[i] = None \/ i \in touched
            \/ \E s \in copies \cup ({vault} \ {None}) : s.recs[i] = owner.source[i]

(* CleanupResumes: a clean-up that stopped anywhere after it was authorised  *)
(* can be taken up again, while the sealed key can still be opened.          *)
CleanupResumes ==
    \A h \in Hosts :
        /\ Idle(h) /\ Unlocked(h) /\ DirectoryFree
        /\ IF owner = None THEN FALSE ELSE owner.state = "cleanup_authorized"
        /\ IF backup = None THEN TRUE ELSE Readable(h)
        => CleanupAllowed(h)

Revoked(h) ==
    \/ session[h] # None /\ ~Unlocked(h)
    \/ IF At(h, "load") \/ At(h, "check") THEN op[h].stale ELSE FALSE

(* RevocationWins: once the session monitor or the lock command has spoken,   *)
(* nothing that was under way makes the vault answer again: neither the key   *)
(* derivation it overtook nor an import, a change of password or an error.    *)
RevocationWins ==
    [][\A h \in Hosts : Revoked(h) => ~Unlocked(h)']_vars

(* Startable: when no host runs, the next one can start: the vault is absent *)
(* or left locked for want of a system secret, or the secret opens it. The   *)
(* code does not keep this: after a change of password whose last step       *)
(* failed the old secret stays (README, section 7).                          *)
Startable ==
    (\A h \in Hosts : ~up[h] /\ op[h] = None) =>
        vault = None \/ auto = None \/ auto = vault.pw

=============================================================================

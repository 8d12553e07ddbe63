------------------------ MODULE CredentialVaultProofs ------------------------
(***************************************************************************)
(* Proofs about CredentialVault, for any hosts, credentials and passwords. *)
(***************************************************************************)
EXTENDS CredentialVault, TLAPS

\* The operations that keep the mutex over several steps: an unlock or the end
\* of a change of password, and an import or a clean-up of the old store.
Unlocks == [step : {"save", "load", "check", "enable"}, pw : Keys,
            snap : Snapshots \cup {None}, stale : BOOLEAN, starting : BOOLEAN]
Migrations == [step : Migrating, source : Secrets, env : BOOLEAN]
Importing == {"backed_up", "copy", "copied", "verify", "own", "switch"}
Cleaning == {"authorize", "source", "key", "backup", "record", "confirm"}

Types ==
    /\ vault \in Snapshots \cup {None} /\ auto \in Keys \cup {None}
    /\ copies \subseteq Snapshots /\ salts \in Nat
    /\ source \in Secrets \cup {None}
    /\ owner \in StateFiles \cup {None}
    /\ session \in [Hosts -> Sessions \cup {None}]
    /\ op \in [Hosts -> Unlocks \cup Migrations \cup {None}]

\* Only the holder of the lock file has the vault open or is opening it, and what
\* it has in memory is what is on disk.
Held ==
    \A h \in Hosts :
        /\ session[h] # None =>
              /\ holder = h /\ vault # None
              /\ session[h].pw = vault.pw /\ session[h].salt = vault.salt
              /\ session[h].recs = vault.recs
        /\ At(h, "load") \/ At(h, "check") => holder = h /\ session[h] = None
        /\ At(h, "check") => vault # None /\ op[h].snap = vault

Migrates(h) == \E s \in Migrating : At(h, s)
Imports(h) == \E s \in Importing : At(h, s)
Cleans(h) == \E s \in Cleaning : At(h, s)

\* One host at a time moves the old store; the vault is open while it imports,
\* and what it moves is what the owner file says, once there is one.
Directory ==
    /\ \A h, k \in Hosts : Migrates(h) /\ Migrates(k) => h = k
    /\ \A h \in Hosts :
          /\ Imports(h) => session[h] # None
          /\ Cleans(h) => owner # None
          /\ Migrates(h) /\ owner # None => op[h].source = owner.source

\* Each of these secrets is in the vault or in a copy of it, or was changed since.
Kept(secrets) ==
    \A i \in Ids :
        \/ secrets[i] = None \/ i \in touched
        \/ \E s \in copies \cup ({vault} \ {None}) : s.recs[i] = secrets[i]

\* What is owned is kept, and so is what was just verified.
Recoverable ==
    /\ owner # None => Kept(owner.source)
    /\ \A h \in Hosts : At(h, "own") => Kept(op[h].source)

VaultInv == Types /\ Held /\ Directory /\ Recoverable

-----------------------------------------------------------------------------
(* The operation of a host. *)

LEMMA OperationIs ==
    ASSUME Types, NEW h \in Hosts, NEW s, At(h, s)
    PROVE  /\ op[h] # None /\ op[h].step = s
           /\ s \in Migrating => op[h] \in Migrations
           /\ s \notin Migrating => op[h] \in Unlocks /\ s \in {"save", "load", "check", "enable"}
<1>1. op[h] \in Unlocks \cup Migrations /\ op[h] # None /\ op[h].step = s
  BY DEF Types, At
<1>2. op[h] \in Unlocks => s \in {"save", "load", "check", "enable"}
  BY <1>1 DEF Unlocks
<1>3. op[h] \in Migrations => s \in Migrating
  BY <1>1 DEF Migrations
<1> QED
  BY <1>1, <1>2, <1>3 DEF Migrating

\* Only the operation of h moves, and only to one of these steps, or it ends.
Moves(h, steps) ==
    /\ op' \in [Hosts -> Unlocks \cup Migrations \cup {None}]
    /\ \A k \in Hosts : k # h => op'[k] = op[k]
    /\ \A s : At(h, s)' => s \in steps
    /\ \A k \in Hosts : k # h => \A s : At(k, s)' <=> At(k, s)

LEMMA Becomes ==
    ASSUME Types, NEW h \in Hosts, NEW x \in Unlocks \cup Migrations, op' = [op EXCEPT ![h] = x]
    PROVE  Moves(h, {x.step}) /\ op'[h] = x
  BY DEF Types, Moves, At

LEMMA EndsMoves ==
    ASSUME Types, NEW h \in Hosts, Ends(h)
    PROVE  Moves(h, {})
  BY DEF Types, Moves, At, Ends

LEMMA GoesMoves ==
    ASSUME Types, NEW h \in Hosts, NEW old \in Migrating, At(h, old),
           NEW step \in Migrating, Goes(h, step)
    PROVE  Moves(h, {step}) /\ op'[h].source = op[h].source
<1>1. op[h] \in Migrations
  BY OperationIs
<1>2. /\ [op[h] EXCEPT !.step = step] \in Migrations
      /\ [op[h] EXCEPT !.step = step].step = step
      /\ [op[h] EXCEPT !.step = step].source = op[h].source
  BY <1>1 DEF Migrations
<1>3. op' = [op EXCEPT ![h] = [op[h] EXCEPT !.step = step]]
  BY DEF Goes
<1> QED
  BY <1>2, <1>3, Becomes

LEMMA StaysMoves ==
    ASSUME Types, NEW h \in Hosts, UNCHANGED op, NEW steps, \A s : At(h, s) => s \in steps
    PROVE  Moves(h, steps)
  BY DEF Types, Moves, At

LEMMA UnlockingIs ==
    ASSUME NEW p \in Keys, NEW starting \in BOOLEAN
    PROVE  /\ Unlocking(p, starting) \in Unlocks /\ Unlocking(p, starting).step = "load"
           /\ [Unlocking(p, starting) EXCEPT !.step = "save"] \in Unlocks
           /\ [Unlocking(p, starting) EXCEPT !.step = "save"].step = "save"
           /\ [Unlocking(p, starting) EXCEPT !.step = "enable"] \in Unlocks
           /\ [Unlocking(p, starting) EXCEPT !.step = "enable"].step = "enable"
  BY DEF Unlocking, Unlocks

\* A snapshot is never None, and neither is the vault it opens.
LEMMA SnapshotIs ==
    ASSUME NEW p \in Keys, NEW n \in Nat, NEW r \in Secrets
    PROVE  /\ Snapshot(p, n, r) \in Snapshots /\ Snapshot(p, n, r) # None
           /\ SessionOf(Snapshot(p, n, r)) \in Sessions
<1>1. Snapshot(p, n, r) \in Snapshots
  BY DEF Snapshot, Snapshots
<1>2. SessionOf(Snapshot(p, n, r)) \in Sessions
  BY DEF Snapshot, SessionOf, Sessions
<1> QED
  BY <1>1, <1>2, NoneIsAbsent

\* What the vault is opened with is the snapshot.
LEMMA SessionIs ==
    ASSUME NEW snap \in Snapshots
    PROVE  /\ SessionOf(snap) \in Sessions /\ SessionOf(snap) # None /\ snap # None
           /\ SessionOf(snap).pw = snap.pw /\ SessionOf(snap).salt = snap.salt
           /\ SessionOf(snap).recs = snap.recs /\ SessionOf(snap).stale = FALSE
<1>1. /\ SessionOf(snap) \in Sessions
      /\ SessionOf(snap).pw = snap.pw /\ SessionOf(snap).salt = snap.salt
      /\ SessionOf(snap).recs = snap.recs /\ SessionOf(snap).stale = FALSE
  BY DEF Snapshots, SessionOf, Sessions
<1> QED
  BY <1>1, NoneIsAbsent

\* The open vault of a host: what changing its records or its epoch makes of it.
LEMMA OpenIs ==
    ASSUME NEW x \in Sessions, NEW r \in Secrets
    PROVE  /\ x.pw \in Keys /\ x.salt \in Nat /\ x.recs \in Secrets
           /\ [x EXCEPT !.recs = r] \in Sessions /\ [x EXCEPT !.recs = r] # None
           /\ [x EXCEPT !.recs = r].recs = r /\ [x EXCEPT !.recs = r].stale = x.stale
           /\ [x EXCEPT !.recs = r].pw = x.pw /\ [x EXCEPT !.recs = r].salt = x.salt
<1>1. [x EXCEPT !.recs = r] \in Sessions
  BY DEF Sessions
<1> QED
  BY <1>1, NoneIsAbsent DEF Sessions

LEMMA FlaggedIs ==
    ASSUME NEW x \in Sessions
    PROVE  /\ [x EXCEPT !.stale = TRUE] \in Sessions /\ [x EXCEPT !.stale = TRUE] # None
           /\ [x EXCEPT !.stale = TRUE].stale /\ [x EXCEPT !.stale = TRUE].recs = x.recs
           /\ [x EXCEPT !.stale = TRUE].pw = x.pw /\ [x EXCEPT !.stale = TRUE].salt = x.salt
<1>1. [x EXCEPT !.stale = TRUE] \in Sessions
  BY DEF Sessions
<1> QED
  BY <1>1, NoneIsAbsent DEF Sessions

-----------------------------------------------------------------------------
(* What the actions do to the mutex of a host. *)

\* A step of an unlock.
LEMMA UnlockMoves ==
    ASSUME Types, NEW h \in Hosts
    PROVE  /\ \A p \in Keys, b \in BOOLEAN : BeginUnlock(h, p, b) => Moves(h, {"load"})
           /\ SaveSecret(h) => Moves(h, {"load"})
           /\ Start(h) => Moves(h, {"load", "save"})
           /\ Load(h) => Moves(h, {"check"})
           /\ Check(h) => Moves(h, {"enable"})
           /\ Enable(h) => Moves(h, {})
<1>1. ASSUME NEW p \in Keys, NEW b \in BOOLEAN, BeginUnlock(h, p, b)
      PROVE  Moves(h, {"load"})
  BY <1>1, UnlockingIs, Becomes DEF BeginUnlock
<1>2. ASSUME SaveSecret(h)
      PROVE  Moves(h, {"load"})
  <2>1. Secret(h) \in Keys
    BY DEF Secret, Keys
  <2>2. CASE Ends(h)
    BY <2>2, EndsMoves DEF Moves
  <2> QED
    BY <1>1, <1>2, <2>1, <2>2 DEF SaveSecret
<1>3. ASSUME Start(h)
      PROVE  Moves(h, {"load", "save"})
  <2>1. CASE auto # None /\ BeginUnlock(h, auto, TRUE)
    <3>1. auto \in Keys
      BY <2>1 DEF Types
    <3>2. Moves(h, {"load"})
      BY <1>1, <2>1, <3>1
    <3> QED
      BY <3>2 DEF Moves
  <2>2. CASE UNCHANGED op /\ op[h] = None
    BY <2>2, StaysMoves DEF At
  <2>3. CASE op' = [op EXCEPT ![h] = [Unlocking(Secret(h), TRUE) EXCEPT !.step = "save"]]
    <3>1. Secret(h) \in Keys
      BY DEF Secret, Keys
    <3>2. Moves(h, {"save"})
      BY <2>3, <3>1, UnlockingIs, Becomes
    <3> QED
      BY <3>2 DEF Moves
  <2> QED
    BY <1>3, <2>1, <2>2, <2>3 DEF Start
<1>4. ASSUME Load(h)
      PROVE  Moves(h, {"check"})
  <2>1. op[h] \in Unlocks
    BY <1>4, OperationIs DEF Load, Migrating
  <2>2. CASE Ends(h)
    BY <2>2, EndsMoves DEF Moves
  <2>3. ASSUME NEW snap \in Snapshots, op' = [op EXCEPT ![h].step = "check", ![h].snap = snap]
        PROVE  Moves(h, {"check"})
    <3>1. /\ [op[h] EXCEPT !.step = "check", !.snap = snap] \in Unlocks
          /\ [op[h] EXCEPT !.step = "check", !.snap = snap].step = "check"
      BY <2>1 DEF Unlocks
    <3>2. op' = [op EXCEPT ![h] = [op[h] EXCEPT !.step = "check", !.snap = snap]]
      BY <2>3
    <3> QED
      BY <3>1, <3>2, Becomes
  <2>4. op[h].pw \in Keys /\ salts + 1 \in Nat /\ Empty \in Secrets
    BY <2>1 DEF Unlocks, Types, Empty, Secrets
  <2>5. Snapshot(op[h].pw, salts + 1, Empty) \in Snapshots
    BY <2>4, SnapshotIs
  <2> QED
    BY <1>4, <2>2, <2>3, <2>5 DEF Load, UnlockFails, Types
<1>5. ASSUME Check(h)
      PROVE  Moves(h, {"enable"})
  <2>1. op[h] \in Unlocks
    BY <1>5, OperationIs DEF Check, Migrating
  <2>2. CASE Ends(h)
    BY <2>2, EndsMoves DEF Moves
  <2>3. CASE op' = [op EXCEPT ![h].step = "enable", ![h].snap = None]
    <3>1. /\ [op[h] EXCEPT !.step = "enable", !.snap = None] \in Unlocks
          /\ [op[h] EXCEPT !.step = "enable", !.snap = None].step = "enable"
      BY <2>1 DEF Unlocks
    <3>2. op' = [op EXCEPT ![h] = [op[h] EXCEPT !.step = "enable", !.snap = None]]
      BY <2>3
    <3> QED
      BY <3>1, <3>2, Becomes
  <2> QED
    BY <1>5, <2>2, <2>3 DEF Check, UnlockFails
<1>6. ASSUME Enable(h)
      PROVE  Moves(h, {})
  BY <1>6, EndsMoves DEF Enable
<1> QED
  BY <1>1, <1>2, <1>3, <1>4, <1>5, <1>6

\* The steps of an import, each with the one before it.
ImportGoes(h) ==
    \/ At(h, "backed_up") /\ Goes(h, "copy")
    \/ At(h, "copy") /\ Goes(h, "copied")
    \/ At(h, "copied") /\ Goes(h, "verify")
    \/ At(h, "verify") /\ Goes(h, "own")
    \/ At(h, "own") /\ Goes(h, "switch")
CleanupGoes(h) ==
    \/ At(h, "authorize") /\ Goes(h, "source")
    \/ At(h, "source") /\ Goes(h, "key")
    \/ At(h, "key") /\ Goes(h, "backup")
    \/ At(h, "backup") /\ Goes(h, "record")
    \/ At(h, "record") /\ Goes(h, "confirm")

\* A step of an import or a clean-up: it was under way, it is of the same source,
\* and it goes on or ends.
LEMMA MigrationMoves ==
    ASSUME Types, NEW h \in Hosts
    PROVE  /\ ImportGoes(h) => /\ Imports(h) /\ op'[h].source = op[h].source
                               /\ Moves(h, {"copy", "copied", "verify", "own", "switch"})
                               /\ At(h, "own")' => At(h, "verify")
           /\ CleanupGoes(h) => /\ Cleans(h) /\ op'[h].source = op[h].source
                                /\ Moves(h, {"source", "key", "backup", "record", "confirm"})
<1>1. Importing \subseteq Migrating /\ Cleaning \subseteq Migrating
  BY DEF Importing, Cleaning, Migrating
<1>2. ASSUME NEW old \in Migrating, At(h, old), NEW step \in Migrating, Goes(h, step)
      PROVE  Moves(h, {step}) /\ op'[h].source = op[h].source
  BY <1>2, GoesMoves
<1>3. ASSUME ImportGoes(h)
      PROVE  /\ Imports(h) /\ op'[h].source = op[h].source
             /\ Moves(h, {"copy", "copied", "verify", "own", "switch"})
             /\ At(h, "own")' => At(h, "verify")
  <2>1. PICK old \in Importing, step \in Importing \ {"backed_up"} :
           At(h, old) /\ Goes(h, step) /\ (step = "own" => old = "verify")
    BY <1>3 DEF ImportGoes, Importing
  <2>2. Moves(h, {step}) /\ op'[h].source = op[h].source
    BY <1>1, <1>2, <2>1
  <2> QED
    BY <2>1, <2>2 DEF Moves, Imports, Importing
<1>4. ASSUME CleanupGoes(h)
      PROVE  /\ Cleans(h) /\ op'[h].source = op[h].source
             /\ Moves(h, {"source", "key", "backup", "record", "confirm"})
  <2>1. PICK old \in Cleaning, step \in Cleaning \ {"authorize"} : At(h, old) /\ Goes(h, step)
    BY <1>4 DEF CleanupGoes, Cleaning
  <2>2. Moves(h, {step}) /\ op'[h].source = op[h].source
    BY <1>1, <1>2, <2>1
  <2> QED
    BY <2>1, <2>2 DEF Moves, Cleans, Cleaning
<1> QED
  BY <1>3, <1>4

\* The first step of an import or a clean-up.
LEMMA MigrationBegins ==
    ASSUME Types, NEW h \in Hosts, NEW s \in Migrating, NEW secrets \in Secrets,
           NEW env \in BOOLEAN,
           op' = [op EXCEPT ![h] = [step |-> s, source |-> secrets, env |-> env]]
    PROVE  Moves(h, {s}) /\ op'[h].source = secrets
<1> DEFINE x == [step |-> s, source |-> secrets, env |-> env]
<1>1. x \in Migrations /\ x.step = s /\ x.source = secrets
  BY DEF Migrations
<1> HIDE DEF x
<1>2. op' = [op EXCEPT ![h] = x]
  BY DEF x
<1>3. Moves(h, {x.step}) /\ op'[h] = x
  BY <1>1, <1>2, Becomes
<1> QED
  BY <1>1, <1>3

-----------------------------------------------------------------------------
(* What the actions do to the vault in memory and on disk. *)

\* The vault of h is closed, and the lock file given back if it was its.
Closes(h) ==
    /\ session' \in [Hosts -> Sessions \cup {None}]
    /\ session'[h] = None /\ holder' = (IF holder = h THEN None ELSE holder)
    /\ \A k \in Hosts : k # h => session'[k] = session[k]

LEMMA LocksCloses ==
    ASSUME Types, NEW h \in Hosts, Locks(h)
    PROVE  Closes(h)
  BY DEF Types, Locks, Closes

\* The vault of h is on disk what it is in memory, with these records.
Writes(h, r) ==
    /\ session' \in [Hosts -> Sessions \cup {None}]
    /\ vault' \in Snapshots /\ vault' # None /\ session'[h] # None
    /\ vault'.recs = r /\ session'[h].recs = r
    /\ session'[h].pw = vault'.pw /\ session'[h].salt = vault'.salt
    /\ session'[h].stale = session[h].stale
    /\ \A k \in Hosts : k # h => session'[k] = session[k]
    /\ UNCHANGED holder

LEMMA PersistsWrites ==
    ASSUME Types, NEW h \in Hosts, session[h] # None, NEW r \in Secrets, Persists(h, r)
    PROVE  Writes(h, r)
<1> DEFINE x == session[h]
           y == [x EXCEPT !.recs = r]
<1>1. x \in Sessions
  BY DEF Types
<1>2. /\ y \in Sessions /\ y.recs = r /\ y.pw = x.pw /\ y.salt = x.salt
      /\ y.stale = x.stale /\ y # None /\ x.pw \in Keys /\ x.salt \in Nat
  BY <1>1, OpenIs
<1>3. /\ vault' \in Snapshots /\ vault' # None
      /\ vault'.recs = r /\ vault'.pw = x.pw /\ vault'.salt = x.salt
  BY <1>2, SnapshotIs DEF Persists, Snapshot
<1>4. session' = [session EXCEPT ![h] = y] /\ UNCHANGED holder
  BY DEF Persists
<1> HIDE DEF y
<1>5. session'[h] = y /\ \A k \in Hosts : k # h => session'[k] = session[k]
  BY <1>4 DEF Types
<1>6. session' \in [Hosts -> Sessions \cup {None}]
  BY <1>2, <1>4 DEF Types
<1> QED
  BY <1>2, <1>3, <1>4, <1>5, <1>6 DEF Writes

\* The epoch of h is bumped: what it has in memory, or is about to, is revoked.
Flags(h) ==
    /\ session' \in [Hosts -> Sessions \cup {None}]
    /\ op' \in [Hosts -> Unlocks \cup Migrations \cup {None}]
    /\ \A k \in Hosts :
          /\ session'[k] = None <=> session[k] = None
          /\ session[k] # None =>
                /\ session'[k].pw = session[k].pw /\ session'[k].salt = session[k].salt
                /\ session'[k].recs = session[k].recs
                /\ session[k].stale \/ k = h => session'[k].stale
          /\ \A s : At(k, s)' => At(k, s)
          /\ Migrates(k) => op'[k].source = op[k].source
          /\ At(k, "check") => op'[k].snap = op[k].snap

LEMMA SignalledFlags ==
    ASSUME Types, NEW h \in Hosts, Signalled(h)
    PROVE  Flags(h)
<1>1. /\ session' \in [Hosts -> Sessions \cup {None}]
      /\ \A k \in Hosts :
            /\ session'[k] = None <=> session[k] = None
            /\ session[k] # None =>
                /\ session'[k].pw = session[k].pw /\ session'[k].salt = session[k].salt
                /\ session'[k].recs = session[k].recs
                /\ session[k].stale \/ k = h => session'[k].stale
  <2>1. CASE session[h] = None
    BY <2>1 DEF Signalled, Types
  <2>2. CASE session[h] # None
    <3> DEFINE z == [session[h] EXCEPT !.stale = TRUE]
    <3>1. session[h] \in Sessions
      BY <2>2 DEF Types
    <3>2. /\ z \in Sessions /\ z.recs = session[h].recs /\ z.pw = session[h].pw
          /\ z.salt = session[h].salt /\ z.stale = TRUE /\ z # None
      BY <3>1, FlaggedIs
    <3>3. session' = [session EXCEPT ![h] = z]
      BY <2>2 DEF Signalled
    <3> HIDE DEF z
    <3> QED
      BY <2>2, <3>2, <3>3 DEF Types
  <2> QED
    BY <2>1, <2>2
<1>2. CASE ~At(h, "load") /\ ~At(h, "check")
  <2>1. UNCHANGED op
    BY <1>2 DEF Signalled
  <2> QED
    BY <1>1, <2>1 DEF Flags, Types, At
<1>3. CASE At(h, "load") \/ At(h, "check")
  <2>1. op[h] \in Unlocks /\ op[h] # None
    BY <1>3, OperationIs DEF Migrating
  <2> DEFINE x == [op[h] EXCEPT !.stale = TRUE]
  <2>2. x \in Unlocks /\ x.step = op[h].step /\ x.snap = op[h].snap
    BY <2>1 DEF Unlocks
  <2>3. op' = [op EXCEPT ![h] = x]
    BY <1>3 DEF Signalled
  <2> HIDE DEF x
  <2>5. /\ op' \in [Hosts -> Unlocks \cup Migrations \cup {None}]
        /\ op'[h] = x /\ \A k \in Hosts : k # h => op'[k] = op[k]
    BY <2>2, <2>3 DEF Types
  <2>6. ~Migrates(h)
    BY <2>1, OperationIs DEF Migrates, Unlocks, Migrating, At
  <2>7. ASSUME NEW k \in Hosts
        PROVE  /\ \A s : At(k, s)' => At(k, s)
               /\ Migrates(k) => op'[k].source = op[k].source
               /\ At(k, "check") => op'[k].snap = op[k].snap
    BY <2>1, <2>2, <2>5, <2>6 DEF At
  <2> QED
    BY <1>1, <2>5, <2>7 DEF Flags
<1> QED
  BY <1>2, <1>3

-----------------------------------------------------------------------------
(* Who has the vault open. *)

\* The operation of h, and of no other, may move, but not into an unlock.
Settles(h) ==
    /\ \A k \in Hosts : k # h => op'[k] = op[k]
    /\ \A k \in Hosts : k # h => \A s : At(k, s)' <=> At(k, s)
    /\ ~At(h, "load")' /\ ~At(h, "check")'

LEMMA MovesSettles ==
    ASSUME NEW h \in Hosts, NEW steps, Moves(h, steps),
           "load" \notin steps, "check" \notin steps
    PROVE  Settles(h)
  BY DEF Moves, Settles

LEMMA HeldQuiet ==
    ASSUME Held, NEW h \in Hosts, Settles(h), UNCHANGED <<vault, holder, session>>
    PROVE  Held'
  BY DEF Held, Settles

\* An unlock begins: it closes what was open.
LEMMA HeldBegins ==
    ASSUME Types, Held, NEW h \in Hosts, NEW p \in Keys, NEW b \in BOOLEAN, BeginUnlock(h, p, b),
           UNCHANGED vault
    PROVE  Held' /\ Moves(h, {"load"}) /\ session' \in [Hosts -> Sessions \cup {None}]
           /\ session'[h] = None
<1>1. Moves(h, {"load"})
  BY UnlockMoves
<1>2. /\ session' \in [Hosts -> Sessions \cup {None}] /\ session'[h] = None
      /\ \A k \in Hosts : k # h => session'[k] = session[k]
      /\ holder' = h /\ holder \in {None, h}
  BY DEF BeginUnlock, Types
<1>3. ~At(h, "check")'
  BY <1>1 DEF Moves
<1>4. \A k \in Hosts : k # h => holder # k
  BY <1>2, NoneIsAbsent
<1>5. \A k \in Hosts : k # h => session[k] = None /\ ~At(k, "load") /\ ~At(k, "check")
  BY <1>4 DEF Held
<1>6. \A k \in Hosts : k # h => ~At(k, "load")' /\ ~At(k, "check")'
  BY <1>1, <1>5 DEF Moves
<1> QED
  BY <1>1, <1>2, <1>3, <1>5, <1>6 DEF Held

\* The vault of h is closed; it may only be replaced while no other has it open.
LEMMA HeldCloses ==
    ASSUME Held, NEW h \in Hosts, Settles(h), Closes(h),
           UNCHANGED vault \/ holder \in {None, h}
    PROVE  Held'
<1>1. ASSUME NEW k \in Hosts, session'[k] # None
      PROVE  k # h /\ session[k] # None /\ holder = k /\ session'[k] = session[k]
  BY <1>1 DEF Held, Closes
<1>2. ASSUME NEW k \in Hosts, At(k, "load")' \/ At(k, "check")'
      PROVE  /\ k # h /\ holder = k /\ session'[k] = None
             /\ At(k, "check")' => op'[k].snap = vault /\ vault # None
  BY <1>2 DEF Held, Closes, Settles
<1>3. ASSUME NEW k \in Hosts, k # h, holder = k
      PROVE  UNCHANGED vault /\ holder' = k
  BY <1>3, NoneIsAbsent DEF Closes
<1> QED
  BY <1>1, <1>2, <1>3 DEF Held

\* The holder writes what it has in memory.
LEMMA HeldWrites ==
    ASSUME Held, NEW h \in Hosts, holder = h, Settles(h), NEW r, Writes(h, r)
    PROVE  Held'
<1>1. \A k \in Hosts : k # h => session'[k] = None /\ ~At(k, "load")' /\ ~At(k, "check")'
  BY DEF Held, Writes, Settles
<1> QED
  BY <1>1 DEF Held, Writes, Settles

LEMMA HeldFlags ==
    ASSUME Held, NEW h \in Hosts, Flags(h), UNCHANGED <<vault, holder>>
    PROVE  Held'
  BY DEF Held, Flags

\* The snapshot an unlock found is the one it opens.
LEMMA HeldLoads ==
    ASSUME Types, Held, NEW h \in Hosts, Load(h)
    PROVE  /\ Held' /\ session' \in [Hosts -> Sessions \cup {None}]
           /\ vault' \in Snapshots \cup {None} /\ salts' \in Nat
           /\ UNCHANGED vault \/ vault = None
<1>1. Moves(h, {"check"})
  BY UnlockMoves
<1>2. /\ op[h] \in Unlocks /\ holder = h /\ session[h] = None
      /\ \A k \in Hosts : k # h => session[k] = None /\ ~At(k, "load") /\ ~At(k, "check")
  BY OperationIs DEF Load, Held, Migrating
<1>3. CASE UnlockFails(h) /\ UNCHANGED <<vault, salts>>
  <2>1. Closes(h)
    BY <1>3, LocksCloses DEF UnlockFails
  <2>2. Settles(h)
    <3>1. Moves(h, {})
      BY <1>3, EndsMoves DEF UnlockFails
    <3> QED
      BY <3>1, MovesSettles
  <2> QED
    BY <1>3, <2>1, <2>2, HeldCloses DEF Closes, Types
<1>4. ASSUME NEW snap \in Snapshots, snap # None, vault' = snap, UNCHANGED <<holder, session>>,
             op' = [op EXCEPT ![h].step = "check", ![h].snap = snap]
      PROVE  Held'
  <2>1. op'[h].snap = snap
    BY <1>2, <1>4 DEF Types, Unlocks
  <2> QED
    BY <1>1, <1>2, <1>4, <2>1 DEF Held, Moves
<1>5. CASE /\ vault # None /\ vault.pw = op[h].pw /\ UNCHANGED <<vault, salts, holder, session>>
           /\ op' = [op EXCEPT ![h].step = "check", ![h].snap = vault]
  BY <1>4, <1>5 DEF Types
<1>6. CASE /\ vault = None /\ vault' = Snapshot(op[h].pw, salts + 1, Empty) /\ salts' = salts + 1
           /\ op' = [op EXCEPT ![h].step = "check", ![h].snap = vault']
           /\ UNCHANGED <<holder, session>>
  <2>1. op[h].pw \in Keys /\ salts + 1 \in Nat /\ Empty \in Secrets
    BY <1>2 DEF Unlocks, Types, Empty, Secrets
  <2>2. PICK snap \in Snapshots : snap = Snapshot(op[h].pw, salts + 1, Empty) /\ snap # None
    BY <2>1, SnapshotIs
  <2> QED
    BY <1>4, <1>6, <2>1, <2>2 DEF Types
<1> QED
  BY <1>3, <1>5, <1>6 DEF Load

LEMMA HeldChecks ==
    ASSUME Types, Held, NEW h \in Hosts, Check(h)
    PROVE  /\ Held' /\ session' \in [Hosts -> Sessions \cup {None}]
           /\ \A k \in Hosts : k # h => session'[k] = session[k]
           /\ op[h].stale => session'[h] = None
<1>1. Moves(h, {"enable"}) /\ Settles(h)
  BY UnlockMoves, MovesSettles
<1>2. CASE op[h].stale
  <2>1. Closes(h)
    BY <1>2, LocksCloses DEF Check, UnlockFails
  <2> QED
    BY <1>1, <1>2, <2>1, HeldCloses DEF Closes, Check, disk
<1>3. CASE ~op[h].stale
  <2>1. /\ holder = h /\ vault # None /\ op[h].snap = vault /\ vault \in Snapshots
        /\ UNCHANGED <<vault, holder>>
    BY <1>3 DEF Check, Held, Types, disk
  <2>2. /\ session' = [session EXCEPT ![h] = SessionOf(vault)]
        /\ SessionOf(vault) \in Sessions
    BY <1>3, <2>1, SessionIs DEF Check
  <2>3. /\ session' \in [Hosts -> Sessions \cup {None}] /\ session'[h] = SessionOf(vault)
        /\ \A k \in Hosts : k # h => session'[k] = session[k]
    BY <2>2 DEF Types
  <2>4. \A k \in Hosts : k # h => session[k] = None /\ ~At(k, "load") /\ ~At(k, "check")
    BY <2>1 DEF Held
  <2>5. /\ session'[h].pw = vault.pw /\ session'[h].salt = vault.salt
        /\ session'[h].recs = vault.recs
    BY <2>1, <2>3, SessionIs
  <2>6. \A k \in Hosts : k # h => session'[k] = None /\ ~At(k, "load")' /\ ~At(k, "check")'
    BY <1>1, <2>3, <2>4 DEF Settles
  <2>7. Held'
    BY <1>1, <2>1, <2>5, <2>6 DEF Held, Settles
  <2> QED
    BY <1>3, <2>3, <2>7
<1> QED
  BY <1>2, <1>3

-----------------------------------------------------------------------------
(* The actions that have no part in the move of the old store. *)

\* Nothing of another host changes, and h does not move the old store afterwards.
Ordinary(h) ==
    /\ op' \in [Hosts -> Unlocks \cup Migrations \cup {None}]
    /\ \A k \in Hosts : k # h => op'[k] = op[k] /\ session'[k] = session[k]
    /\ \A k \in Hosts : k # h => \A s : At(k, s)' <=> At(k, s)
    /\ \A s \in Migrating : ~At(h, s)'
    /\ UNCHANGED owner

\* What was kept is still kept: the records are those of before but for what the
\* user touched, or the old snapshot has a copy.
Stays ==
    /\ copies \subseteq copies' /\ touched \subseteq touched'
    /\ vault # None =>
          \/ vault \in copies'
          \/ vault' # None /\ \A i \in Ids : i \in touched' \/ vault'.recs[i] = vault.recs[i]

Sound(h) == Types' /\ Held' /\ Ordinary(h) /\ Stays

LEMMA MovesOrdinary ==
    ASSUME NEW h \in Hosts, NEW steps, Moves(h, steps), steps \cap Migrating = {}, UNCHANGED owner,
           \A k \in Hosts : k # h => session'[k] = session[k]
    PROVE  Ordinary(h)
  BY DEF Moves, Ordinary

LEMMA BeginsSound ==
    ASSUME Types, Held, NEW h \in Hosts, NEW p \in Keys, NEW b \in BOOLEAN, BeginUnlock(h, p, b),
           UNCHANGED <<vault, copies, salts, source, owner, touched>>, auto' \in Keys \cup {None}
    PROVE  Sound(h)
<1>1. /\ Held' /\ Moves(h, {"load"}) /\ session' \in [Hosts -> Sessions \cup {None}]
      /\ \A k \in Hosts : k # h => session'[k] = session[k]
  BY HeldBegins DEF BeginUnlock, Types
<1>2. {"load"} \cap Migrating = {}
  BY DEF Migrating
<1>3. Ordinary(h)
  BY <1>1, <1>2, MovesOrdinary
<1>4. Types'
  BY <1>1 DEF Types, Moves
<1> QED
  BY <1>1, <1>3, <1>4 DEF Sound, Stays

\* A step that neither opens nor closes a vault.
LEMMA QuietSound ==
    ASSUME Types, Held, NEW h \in Hosts, NEW steps, Moves(h, steps),
           steps \cap (Migrating \cup {"load", "check"}) = {},
           UNCHANGED <<vault, holder, session, salts, source, owner, touched>>,
           auto' \in Keys \cup {None}, copies' \subseteq Snapshots, copies \subseteq copies'
    PROVE  Sound(h)
<1>1. Held'
  BY HeldQuiet, MovesSettles
<1>2. Ordinary(h)
  BY MovesOrdinary
<1>3. Types'
  BY DEF Types, Moves
<1> QED
  BY <1>1, <1>2, <1>3 DEF Sound, Stays

\* A step that closes the vault of h.
LEMMA ClosesSound ==
    ASSUME Types, Held, NEW h \in Hosts, Locks(h), NEW steps, Moves(h, steps),
           steps \cap (Migrating \cup {"load", "check"}) = {},
           UNCHANGED <<auto, salts, owner>>, source' \in Secrets \cup {None},
           copies' \subseteq Snapshots, Stays,
           UNCHANGED vault \/ (holder \in {None, h} /\ vault' \in Snapshots)
    PROVE  Sound(h)
<1>1. Closes(h)
  BY LocksCloses
<1>2. Held'
  BY <1>1, HeldCloses, MovesSettles
<1>3. Ordinary(h)
  BY <1>1, MovesOrdinary DEF Closes
<1>4. Types'
  BY <1>1 DEF Types, Moves, Closes
<1> QED
  BY <1>2, <1>3, <1>4 DEF Sound

LEMMA StartSound ==
    ASSUME Types, Held, NEW h \in Hosts, Start(h)
    PROVE  Sound(h)
<1>0. UNCHANGED <<vault, auto, copies, salts, source, owner, touched>>
  BY DEF Start, disk
<1>1. CASE auto # None /\ BeginUnlock(h, auto, TRUE)
  <2>1. auto \in Keys
    BY <1>1 DEF Types
  <2> QED
    BY <1>0, <1>1, <2>1, BeginsSound
<1>2. CASE UNCHANGED <<holder, session, op>> /\ op[h] = None
  <2>1. Moves(h, {})
    BY <1>2, StaysMoves DEF At
  <2> QED
    BY <1>0, <1>2, <2>1, QuietSound DEF Types
<1>3. CASE /\ op' = [op EXCEPT ![h] = [Unlocking(Secret(h), TRUE) EXCEPT !.step = "save"]]
           /\ UNCHANGED <<holder, session>>
  <2>1. Secret(h) \in Keys
    BY DEF Secret, Keys
  <2>2. Moves(h, {"save"})
    BY <1>3, <2>1, UnlockingIs, Becomes
  <2>3. {"save"} \cap (Migrating \cup {"load", "check"}) = {}
    BY DEF Migrating
  <2> QED
    BY <1>0, <1>3, <2>2, <2>3, QuietSound DEF Types
<1> QED
  BY <1>1, <1>2, <1>3 DEF Start

LEMMA UnlockSound ==
    ASSUME Types, Held, NEW h \in Hosts, UnlockStep(h) \/ \E p \in Passwords : Unlock(h, p)
    PROVE  Sound(h)
<1>1. CASE \E p \in Passwords : Unlock(h, p)
  <2>1. PICK p \in Keys : BeginUnlock(h, p, FALSE) /\ UNCHANGED disk
    BY <1>1 DEF Unlock, Keys
  <2> QED
    BY <2>1, BeginsSound DEF disk, Types
<1>2. CASE SaveSecret(h)
  <2>1. Secret(h) \in Keys
    BY DEF Secret, Keys
  <2>2. CASE BeginUnlock(h, Secret(h), TRUE)
    BY <1>2, <2>1, <2>2, BeginsSound DEF SaveSecret
  <2>3. CASE Ends(h) /\ UNCHANGED <<holder, session>>
    <3>1. Moves(h, {})
      BY <2>3, EndsMoves
    <3> QED
      BY <1>2, <2>1, <2>3, <3>1, QuietSound DEF SaveSecret, Types
  <2> QED
    BY <1>2, <2>2, <2>3 DEF SaveSecret
<1>3. CASE Load(h)
  <2>1. /\ Held' /\ session' \in [Hosts -> Sessions \cup {None}] /\ Moves(h, {"check"})
        /\ vault' \in Snapshots \cup {None} /\ salts' \in Nat
        /\ UNCHANGED vault \/ vault = None
    BY <1>3, HeldLoads, UnlockMoves
  <2>2. \A k \in Hosts : k # h => session'[k] = session[k]
    BY <1>3 DEF Load, UnlockFails, Locks, Types
  <2>3. {"check"} \cap Migrating = {}
    BY DEF Migrating
  <2>4. UNCHANGED <<auto, copies, source, owner, touched>>
    BY <1>3 DEF Load
  <2>5. Ordinary(h)
    BY <2>1, <2>2, <2>3, <2>4, MovesOrdinary
  <2>6. Types' /\ Stays
    BY <2>1, <2>4 DEF Types, Moves, Stays
  <2> QED
    BY <2>1, <2>5, <2>6 DEF Sound
<1>4. CASE Check(h)
  <2>1. /\ Held' /\ session' \in [Hosts -> Sessions \cup {None}] /\ Moves(h, {"enable"})
        /\ \A k \in Hosts : k # h => session'[k] = session[k]
    BY <1>4, HeldChecks, UnlockMoves
  <2>2. {"enable"} \cap Migrating = {}
    BY DEF Migrating
  <2>3. UNCHANGED <<vault, auto, copies, salts, source, owner, touched>>
    BY <1>4 DEF Check, disk
  <2>4. Ordinary(h)
    BY <2>1, <2>2, <2>3, MovesOrdinary
  <2>5. Types' /\ Stays
    BY <2>1, <2>3 DEF Types, Moves, Stays
  <2> QED
    BY <2>1, <2>4, <2>5 DEF Sound
<1>5. CASE Enable(h)
  <2>1. Moves(h, {}) /\ op[h] \in Unlocks
    BY <1>5, UnlockMoves, OperationIs DEF Enable, Migrating
  <2>2. auto' \in Keys \cup {None}
    BY <1>5, <2>1 DEF Enable, Unlocks, Types
  <2> QED
    BY <1>5, <2>1, <2>2, QuietSound DEF Enable, Types
<1> QED
  BY <1>1, <1>2, <1>3, <1>4, <1>5 DEF UnlockStep

LEMMA LockSound ==
    ASSUME Types, Held, NEW h \in Hosts, LockNow(h) \/ Reap(h) \/ Crash(h)
    PROVE  Sound(h)
<1>1. Locks(h) /\ UNCHANGED disk
  BY DEF LockNow, Reap, Crash
<1>2. Moves(h, {})
  <2>1. CASE UNCHANGED op /\ op[h] = None
    BY <2>1, StaysMoves DEF At
  <2>2. CASE Ends(h)
    BY <2>2, EndsMoves
  <2> QED
    BY <2>1, <2>2 DEF LockNow, Reap, Idle, Crash
<1>3. Stays
  BY <1>1 DEF disk, Stays
<1>4. UNCHANGED <<vault, auto, copies, salts, source, owner>>
  BY <1>1 DEF disk
<1>5. source' \in Secrets \cup {None} /\ copies' \subseteq Snapshots
  BY <1>4 DEF Types
<1> QED
  BY <1>1, <1>2, <1>3, <1>4, <1>5, ClosesSound

\* The open vault is written with records that differ from it only in `ids`, or
\* it is closed.
LEMMA StoreSound ==
    ASSUME Types, Held, NEW h \in Hosts, Idle(h), Unlocked(h), NEW r \in Secrets, NEW ids,
           Store(h, r, ids), \A i \in Ids : i \in ids \/ r[i] = session[h].recs[i]
    PROVE  Sound(h)
<1>1. /\ session[h] # None /\ holder = h /\ vault # None /\ vault.recs = session[h].recs
      /\ op[h] = None /\ UNCHANGED op
  BY DEF Held, Unlocked, Idle, Store
<1>2. Moves(h, {})
  BY <1>1, StaysMoves DEF At
<1>3. UNCHANGED <<auto, copies, source, owner, salts>>
  BY DEF Store
<1>4. CASE Locks(h) /\ UNCHANGED <<vault, touched>>
  <2>1. Stays /\ source' \in Secrets \cup {None} /\ copies' \subseteq Snapshots
    BY <1>3, <1>4 DEF Stays, Types
  <2> QED
    BY <1>2, <1>3, <1>4, <2>1, ClosesSound
<1>5. CASE Persists(h, r) /\ touched' = touched \cup ids
  <2>1. Writes(h, r)
    BY <1>1, <1>5, PersistsWrites
  <2>2. Settles(h) /\ Ordinary(h)
    BY <1>2, <1>3, <2>1, MovesSettles, MovesOrdinary DEF Writes
  <2>3. Held'
    BY <1>1, <2>1, <2>2, HeldWrites
  <2>4. Types'
    BY <1>2, <1>3, <2>1 DEF Types, Writes, Moves
  <2>5. Stays
    BY <1>1, <1>3, <1>5, <2>1 DEF Stays, Writes
  <2> QED
    BY <2>2, <2>3, <2>4, <2>5 DEF Sound
<1> QED
  BY <1>4, <1>5 DEF Store

LEMMA RecordsSound ==
    ASSUME Types, Held, NEW h \in Hosts
    PROVE  /\ \A i \in Ids, v \in Values : Put(h, i, v) => Sound(h)
           /\ \A ids \in (SUBSET Ids) \ {{}} : Delete(h, ids) => Sound(h)
           /\ \A ids \in (SUBSET Ids) \ {{}} : \A f \in [ids -> Ids] :
                 MoveMany(h, f) => Sound(h)
<1>0. Unlocked(h) => session[h] \in Sessions /\ session[h].recs \in Secrets
  BY OpenIs DEF Types, Unlocked, Sessions
<1>1. ASSUME NEW i \in Ids, NEW v \in Values, Put(h, i, v)
      PROVE  Sound(h)
  <2>1. PICK r : r = [session[h].recs EXCEPT ![i] = v]
    OBVIOUS
  <2>2. Idle(h) /\ Unlocked(h) /\ Store(h, r, {i})
    BY <1>1, <2>1 DEF Put
  <2>3. r \in Secrets /\ \A j \in Ids : j \in {i} \/ r[j] = session[h].recs[j]
    BY <1>0, <2>1, <2>2 DEF Secrets
  <2> QED
    BY <2>2, <2>3, StoreSound
<1>2. ASSUME NEW ids \in (SUBSET Ids) \ {{}}, Delete(h, ids)
      PROVE  Sound(h)
  <2>1. PICK r : r = [i \in Ids |-> IF i \in ids THEN None ELSE session[h].recs[i]]
    OBVIOUS
  <2>2. Idle(h) /\ Unlocked(h) /\ Store(h, r, ids)
    BY <1>2, <2>1 DEF Delete
  <2>3. r \in Secrets /\ \A j \in Ids : j \in ids \/ r[j] = session[h].recs[j]
    BY <1>0, <2>1, <2>2 DEF Secrets
  <2> QED
    BY <2>2, <2>3, StoreSound
<1>3. ASSUME NEW ids \in (SUBSET Ids) \ {{}}, NEW f \in [ids -> Ids], MoveMany(h, f)
      PROVE  Sound(h)
  <2>1. Idle(h) /\ Unlocked(h)
    BY <1>3 DEF MoveMany
  <2>2. PICK r \in Secrets : r = session[h].recs
    BY <1>0, <2>1
  <2>3. ASSUME NEW n \in AfterMove(r, f), Store(h, n, Moved(r, f) \cup {f[i] : i \in Moved(r, f)})
        PROVE  Sound(h)
    <3>1. n \in Secrets
      BY DEF AfterMove, Secrets
    <3>2. PICK ids2 : ids2 = Moved(r, f) \cup {f[i] : i \in Moved(r, f)}
      OBVIOUS
    <3>3. \A j \in Ids : j \in ids2 \/ n[j] = r[j]
      BY <3>2 DEF AfterMove
    <3> QED
      BY <2>1, <2>2, <2>3, <3>1, <3>2, <3>3, StoreSound
  <2>4. CASE Locks(h) /\ UNCHANGED <<disk, up, op, waiting>>
    <3>1. Moves(h, {})
      BY <2>1, <2>4, StaysMoves DEF Idle, At
    <3>2. Stays /\ UNCHANGED <<vault, auto, copies, salts, source, owner>>
      BY <2>4 DEF disk, Stays
    <3>3. source' \in Secrets \cup {None} /\ copies' \subseteq Snapshots
      BY <3>2 DEF Types
    <3> QED
      BY <2>4, <3>1, <3>2, <3>3, ClosesSound
  <2> QED
    BY <1>3, <2>2, <2>3, <2>4 DEF MoveMany
<1> QED
  BY <1>1, <1>2, <1>3

LEMMA ChangePasswordSound ==
    ASSUME Types, Held, NEW h \in Hosts, NEW p \in Passwords, ChangePassword(h, p)
    PROVE  Sound(h)
<1>1. /\ session[h] # None /\ ~session[h].stale /\ holder = h /\ vault # None
      /\ vault.recs = session[h].recs /\ session[h] \in Sessions
  BY DEF ChangePassword, Unlocked, Held, Types
<1>2. PICK r \in Secrets : r = session[h].recs
  BY <1>1, OpenIs DEF Sessions
<1>3. p \in Keys /\ salts + 1 \in Nat
  BY DEF Types, Keys
<1>4. PICK snap \in Snapshots : /\ snap = Snapshot(p, salts + 1, r) /\ snap.recs = r
  BY <1>2, <1>3, SnapshotIs DEF Snapshot
<1>5. vault' = snap /\ session' = [session EXCEPT ![h] = SessionOf(snap)] /\ salts' = salts + 1
  BY <1>2, <1>4 DEF ChangePassword
<1>6. /\ SessionOf(snap) \in Sessions /\ SessionOf(snap) # None /\ snap # None
      /\ SessionOf(snap).pw = snap.pw /\ SessionOf(snap).salt = snap.salt
      /\ SessionOf(snap).recs = snap.recs /\ SessionOf(snap).stale = FALSE
  BY SessionIs
<1>7. /\ session'[h] = SessionOf(snap) /\ session' \in [Hosts -> Sessions \cup {None}]
      /\ \A k \in Hosts : k # h => session'[k] = session[k]
  BY <1>5, <1>6 DEF Types
<1>8. UNCHANGED <<auto, copies, source, owner, touched, holder>>
  BY DEF ChangePassword
<1>9. Moves(h, {"enable"})
  BY <1>3, UnlockingIs, Becomes DEF ChangePassword
<1>10. {"enable"} \cap (Migrating \cup {"load", "check"}) = {}
  BY DEF Migrating
<1>11. Settles(h) /\ Ordinary(h)
  BY <1>7, <1>8, <1>9, <1>10, MovesSettles, MovesOrdinary
<1>12. \A k \in Hosts : k # h => session'[k] = None /\ ~At(k, "load")' /\ ~At(k, "check")'
  BY <1>1, <1>7, <1>11 DEF Held, Settles
<1>13. Held'
  BY <1>1, <1>5, <1>6, <1>7, <1>8, <1>11, <1>12 DEF Held, Settles
<1>14. Types'
  BY <1>3, <1>5, <1>7, <1>8, <1>9 DEF Types, Moves
<1>15. Stays
  BY <1>1, <1>2, <1>4, <1>5, <1>6, <1>8 DEF Stays
<1> QED
  BY <1>11, <1>13, <1>14, <1>15 DEF Sound

LEMMA CopySound ==
    ASSUME Types, Held, NEW h \in Hosts, Backup(h) \/ \E c \in copies : Restore(h, c)
    PROVE  Sound(h)
<1>1. Moves(h, {})
  BY StaysMoves DEF Backup, Restore, Idle, At
<1>2. CASE Backup(h)
  <2>1. vault # None
    BY <1>2 DEF Backup, Unlocked, Held
  <2>2. UNCHANGED <<vault, holder, session, salts, source, owner, touched, auto>>
    BY <1>2 DEF Backup
  <2>3. copies' \subseteq Snapshots /\ copies \subseteq copies'
    BY <1>2, <2>1 DEF Backup, Types
  <2>4. auto' \in Keys \cup {None}
    BY <2>2 DEF Types
  <2> QED
    BY <1>1, <2>2, <2>3, <2>4, QuietSound
<1>3. ASSUME NEW c \in copies, Restore(h, c)
      PROVE  Sound(h)
  <2>1. UNCHANGED <<auto, salts, owner, source, touched>> /\ holder \in {None, h} /\ Locks(h)
    BY <1>3 DEF Restore
  <2>2. copies' \subseteq Snapshots /\ copies \subseteq copies' /\ (vault # None => vault \in copies')
    BY <1>3 DEF Restore, Types
  <2>3. vault' \in Snapshots \/ UNCHANGED vault
    BY <1>3 DEF Restore, Types
  <2>4. Stays /\ source' \in Secrets \cup {None}
    BY <2>1, <2>2 DEF Stays, Types
  <2>5. UNCHANGED vault \/ (holder \in {None, h} /\ vault' \in Snapshots)
    BY <2>1, <2>3
  <2> QED
    BY <1>1, <2>1, <2>2, <2>4, <2>5, ClosesSound
<1> QED
  BY <1>2, <1>3

LEMMA DirectoryOrdinary ==
    ASSUME Directory, NEW h \in Hosts, Ordinary(h)
    PROVE  Directory'
<1>1. ~Migrates(h)' /\ ~Imports(h)' /\ ~Cleans(h)'
  BY DEF Ordinary, Migrates, Imports, Cleans, Importing, Cleaning, Migrating
<1>2. ASSUME NEW k \in Hosts, k # h
      PROVE  /\ Migrates(k)' <=> Migrates(k)
             /\ Imports(k)' <=> Imports(k)
             /\ Cleans(k)' <=> Cleans(k)
             /\ op'[k] = op[k] /\ session'[k] = session[k]
  BY <1>2 DEF Ordinary, Migrates, Imports, Cleans
<1>3. UNCHANGED owner
  BY DEF Ordinary
<1> QED
  BY <1>1, <1>2, <1>3 DEF Directory

LEMMA KeptStays ==
    ASSUME Stays
    PROVE  \A secrets : Kept(secrets) => Kept(secrets)'
<1> SUFFICES ASSUME NEW secrets, Kept(secrets), NEW i \in Ids,
                    secrets[i] # None, i \notin touched'
             PROVE  \E s \in copies' \cup ({vault'} \ {None}) : s.recs[i] = secrets[i]
  BY DEF Kept
<1>1. PICK s \in copies \cup ({vault} \ {None}) : s.recs[i] = secrets[i]
  BY DEF Kept, Stays
<1>2. CASE s \in copies'
  BY <1>1, <1>2
<1>3. CASE s \notin copies'
  BY <1>1, <1>3 DEF Stays
<1> QED
  BY <1>2, <1>3

\* What a host just verified is what it moves, unless another host moves it.
LEMMA RecoverableOrdinary ==
    ASSUME Recoverable, NEW h \in Hosts, Ordinary(h), Stays
    PROVE  Recoverable'
<1>1. owner' # None => Kept(owner.source)'
  <2>1. PICK o : o = owner /\ owner' = o
    BY DEF Ordinary
  <2>2. o # None => Kept(o.source)
    BY <2>1 DEF Recoverable
  <2>3. o # None => Kept(o.source)'
    BY <2>2, KeptStays
  <2>4. ASSUME o # None
        PROVE  Kept(owner.source)'
    <3>1. Kept(o.source)'
      BY <2>3, <2>4
    <3>2. owner'.source = o.source
      BY <2>1
    <3> QED
      BY <3>1, <3>2 DEF Kept
  <2> QED
    BY <2>1, <2>4
<1>2. ASSUME NEW k \in Hosts, At(k, "own")'
      PROVE  Kept(op[k].source)'
  <2>1. k # h
    BY <1>2 DEF Ordinary, Migrating
  <2>2. At(k, "own") /\ op'[k] = op[k]
    BY <1>2, <2>1 DEF Ordinary
  <2>3. PICK o : o = op[k] /\ op'[k] = o
    BY <2>2
  <2>4. Kept(o.source)
    BY <2>2, <2>3 DEF Recoverable
  <2>5. Kept(o.source)'
    BY <2>4, KeptStays
  <2> QED
    BY <2>3, <2>5 DEF Kept
<1> QED
  BY <1>1, <1>2 DEF Recoverable

LEMMA SoundKeeps ==
    ASSUME VaultInv, NEW h \in Hosts, Sound(h)
    PROVE  VaultInv'
  BY DirectoryOrdinary, RecoverableOrdinary DEF VaultInv, Sound

\* A bump of the epoch has no part in the move of the old store either.
LEMMA FlagsKeep ==
    ASSUME VaultInv, NEW h \in Hosts, Flags(h), UNCHANGED <<disk, holder>>
    PROVE  VaultInv'
<1>1. /\ UNCHANGED <<vault, auto, copies, source, owner, salts, touched, holder>>
      /\ Types /\ Held /\ Directory /\ Recoverable
  BY DEF disk, VaultInv
<1>2. Types' /\ Held'
  BY <1>1, HeldFlags DEF Types, Flags
<1>3. \A k \in Hosts : /\ Migrates(k)' => Migrates(k)
                       /\ Imports(k)' => Imports(k)
                       /\ Cleans(k)' => Cleans(k)
  BY DEF Flags, Migrates, Imports, Cleans
<1>4. Directory'
  BY <1>1, <1>3 DEF Directory, Flags
<1>5. Stays
  BY <1>1 DEF Stays
<1>6. owner' # None => Kept(owner.source)'
  BY <1>1 DEF Recoverable, Kept
<1>7. ASSUME NEW k \in Hosts, At(k, "own")'
      PROVE  Kept(op[k].source)'
  <2>1. At(k, "own") /\ Migrates(k)
    BY <1>7 DEF Flags, Migrates, Migrating
  <2>2. op'[k].source = op[k].source
    BY <2>1 DEF Flags
  <2>3. Kept(op[k].source)
    BY <1>1, <2>1 DEF Recoverable
  <2> QED
    BY <1>1, <2>2, <2>3 DEF Kept
<1>8. Recoverable'
  BY <1>6, <1>7 DEF Recoverable
<1> QED
  BY <1>2, <1>4, <1>8 DEF VaultInv

-----------------------------------------------------------------------------
(* The move of the old store. *)

\* After a step of h, which alone moves the old store.
LEMMA DirectoryAlone ==
    ASSUME NEW h \in Hosts, \A k \in Hosts : k # h => ~Migrates(k)',
           Imports(h)' => session'[h] # None,
           Cleans(h)' => owner' # None,
           Migrates(h)' /\ owner' # None => op'[h].source = owner'.source
    PROVE  Directory'
<1>1. \A k \in Hosts : (Imports(k) \/ Cleans(k) => Migrates(k))'
  BY DEF Imports, Cleans, Migrates, Importing, Cleaning, Migrating
<1> QED
  BY <1>1 DEF Directory

\* The others do not move it while h does.
LEMMA OthersRest ==
    ASSUME Directory, NEW h \in Hosts, Migrates(h) \/ DirectoryFree, NEW steps, Moves(h, steps)
    PROVE  \A k \in Hosts : k # h => ~Migrates(k)'
<1>1. \A k \in Hosts : k # h => ~Migrates(k)
  BY DEF Directory, DirectoryFree, Migrates
<1> QED
  BY <1>1 DEF Moves, Migrates

\* The owner file may be rewritten, for the same source.
OwnerStays == owner' # None => owner # None /\ owner'.source = owner.source

LEMMA RecoverableMoves ==
    ASSUME Recoverable, NEW h \in Hosts, NEW steps, Moves(h, steps), Stays, OwnerStays,
           At(h, "own")' => Kept(op[h].source)'
    PROVE  Recoverable'
<1>1. ASSUME owner' # None
      PROVE  Kept(owner.source)'
  <2>1. owner # None /\ owner'.source = owner.source
    BY <1>1 DEF OwnerStays
  <2>2. PICK secrets : secrets = owner.source /\ owner'.source = secrets
    BY <2>1
  <2>3. Kept(secrets)'
    BY <2>1, <2>2, KeptStays DEF Recoverable
  <2> QED
    BY <2>2, <2>3 DEF Kept
<1>2. ASSUME NEW k \in Hosts, At(k, "own")'
      PROVE  Kept(op[k].source)'
  <2>1. CASE k # h
    <3>1. At(k, "own") /\ op'[k] = op[k]
      BY <1>2, <2>1 DEF Moves
    <3>2. PICK secrets : secrets = op[k].source /\ op'[k].source = secrets
      BY <3>1
    <3>3. Kept(secrets)'
      BY <3>1, <3>2, KeptStays DEF Recoverable
    <3> QED
      BY <3>2, <3>3 DEF Kept
  <2>2. CASE k = h
    BY <1>2, <2>2
  <2> QED
    BY <2>1, <2>2
<1> QED
  BY <1>1, <1>2 DEF Recoverable

LEMMA StateIs ==
    ASSUME NEW s \in States, NEW o \in Migrations
    PROVE  /\ State(s, o) \in StateFiles /\ State(s, o) # None
           /\ State(s, o).source = o.source
  BY NoneIsAbsent DEF State, StateFiles, Migrations

\* A step of the move that leaves the vault alone.
LEMMA MoveKeeps ==
    ASSUME VaultInv, NEW h \in Hosts, NEW steps \in SUBSET Migrating, Moves(h, steps),
           Migrates(h) \/ DirectoryFree,
           UNCHANGED <<vault, auto, copies, salts, holder, session, touched>>,
           source' \in Secrets \cup {None},
           owner' \in StateFiles \cup {None},
           OwnerStays, owner' # None => op'[h].source = owner'.source \/ steps = {},
           Imports(h)' => session[h] # None,
           Cleans(h)' => owner' # None,
           At(h, "own")' => Kept(op[h].source)'
    PROVE  VaultInv'
<1>1. Types /\ Held /\ Directory /\ Recoverable
  BY DEF VaultInv
<1>2. Types'
  BY <1>1 DEF Types, Moves
<1>3. "load" \notin steps /\ "check" \notin steps
  BY DEF Migrating
<1>4. Held'
  BY <1>1, <1>3, MovesSettles, HeldQuiet
<1>5. \A k \in Hosts : k # h => ~Migrates(k)'
  BY <1>1, OthersRest
<1>6. Migrates(h)' /\ owner' # None => op'[h].source = owner'.source
  BY DEF Moves, Migrates
<1>7. Directory'
  BY <1>5, <1>6, DirectoryAlone
<1>8. Stays
  BY DEF Stays
<1>9. Recoverable'
  BY <1>1, <1>8, RecoverableMoves
<1> QED
  BY <1>2, <1>4, <1>7, <1>9 DEF VaultInv

LEMMA ImportBegins ==
    ASSUME VaultInv, NEW h \in Hosts, NEW env \in Environments, Import(h, env)
    PROVE  VaultInv'
<1>1. /\ DirectoryFree /\ source \in Secrets /\ env \in BOOLEAN /\ session[h] # None
      /\ Types /\ "backed_up" \in Migrating
  BY EnvironmentsAssumption DEF Import, VaultInv, Types, Unlocked, Migrating
<1>2. op' = [op EXCEPT ![h] = [step |-> "backed_up", source |-> source, env |-> env]]
  BY DEF Import
<1>3. Moves(h, {"backed_up"}) /\ op'[h].source = source
  BY <1>1, <1>2, MigrationBegins
<1>4. UNCHANGED <<vault, auto, copies, salts, holder, session, touched, source, owner>>
  BY DEF Import
<1>5. owner # None => owner.source = source
  BY DEF Import
<1>6. ~Cleans(h)' /\ ~At(h, "own")'
  BY <1>3 DEF Moves, Cleans, Cleaning
<1>7. OwnerStays /\ (owner' # None => op'[h].source = owner'.source)
  BY <1>3, <1>4, <1>5 DEF OwnerStays
<1>8. /\ source' \in Secrets \cup {None}
      /\ owner' \in StateFiles \cup {None}
  BY <1>1, <1>4 DEF Types
<1>9. {"backed_up"} \in SUBSET Migrating
  BY <1>1
<1> QED
  BY <1>1, <1>3, <1>4, <1>6, <1>7, <1>8, <1>9, MoveKeeps

\* The steps of an import that leave the vault and the owner file alone.
LEMMA ImportGoesOn ==
    ASSUME VaultInv, NEW h \in Hosts, ImportBackedUp(h) \/ ImportCopied(h) \/ ImportVerify(h)
    PROVE  VaultInv'
<1>1. /\ ImportGoes(h)
      /\ UNCHANGED <<vault, auto, copies, salts, holder, session, touched, source, owner>>
      /\ Types /\ Directory /\ Held
  BY DEF ImportBackedUp, ImportCopied, ImportVerify, WritesJournal, ImportGoes, VaultInv
<1>2. /\ Imports(h) /\ op'[h].source = op[h].source
      /\ Moves(h, {"copy", "copied", "verify", "own", "switch"})
      /\ At(h, "own")' => At(h, "verify")
  BY <1>1, MigrationMoves
<1>3. Migrates(h) /\ session[h] # None
  BY <1>1, <1>2 DEF Imports, Migrates, Importing, Migrating, Directory
<1>4. ~Cleans(h)'
  BY <1>2 DEF Moves, Cleans, Cleaning
<1>5. OwnerStays /\ (owner' # None => op'[h].source = owner'.source)
  BY <1>1, <1>2, <1>3 DEF OwnerStays, Directory
<1>6. ASSUME At(h, "own")'
      PROVE  Kept(op[h].source)'
  <2>1. ImportVerify(h)
    BY <1>1, <1>2, <1>6, OperationIs DEF ImportBackedUp, ImportCopied, At
  <2>2. PICK secrets \in Secrets : secrets = op[h].source /\ op'[h].source = secrets
    <3>1. op[h] \in Migrations
      BY <1>1, <2>1, OperationIs DEF ImportVerify, Migrating
    <3> QED
      BY <1>2, <3>1 DEF Migrations
  <2>3. vault # None
    BY <1>1, <1>3 DEF Held
  <2>4. \A i \in Ids : secrets[i] = None \/ vault.recs[i] = secrets[i]
    BY <2>1, <2>2 DEF ImportVerify, Verified, Imported
  <2>5. Kept(secrets)'
    BY <1>1, <2>3, <2>4 DEF Kept
  <2> QED
    BY <2>2, <2>5 DEF Kept
<1>7. /\ source' \in Secrets \cup {None}
      /\ owner' \in StateFiles \cup {None}
  BY <1>1 DEF Types
<1>8. {"copy", "copied", "verify", "own", "switch"} \in SUBSET Migrating
  BY DEF Migrating
<1> QED
  BY <1>1, <1>2, <1>3, <1>4, <1>5, <1>6, <1>7, <1>8, MoveKeeps

\* The records of the old store are written over those of the vault.
LEMMA ImportCopies ==
    ASSUME VaultInv, NEW h \in Hosts, ImportCopy(h)
    PROVE  VaultInv'
<1>1. /\ ImportGoes(h) /\ Types /\ Held /\ Directory /\ Recoverable
      /\ UNCHANGED <<auto, copies, source, owner, salts>>
  BY DEF ImportCopy, ImportGoes, VaultInv
<1>2. /\ Imports(h) /\ op'[h].source = op[h].source
      /\ Moves(h, {"copy", "copied", "verify", "own", "switch"})
      /\ ~At(h, "own")'
  <2>1. /\ Imports(h) /\ op'[h].source = op[h].source
        /\ Moves(h, {"copy", "copied", "verify", "own", "switch"})
        /\ At(h, "own")' => At(h, "verify")
    BY <1>1, MigrationMoves
  <2>2. ~At(h, "verify")
    BY OperationIs DEF ImportCopy, At
  <2> QED
    BY <2>1, <2>2
<1>3. Migrates(h) /\ session[h] # None /\ holder = h /\ vault # None
  BY <1>1, <1>2 DEF Imports, Migrates, Importing, Migrating, Directory, Held
<1>4. PICK secrets \in Secrets : secrets = op[h].source /\ op'[h].source = secrets
  <2>1. op[h] \in Migrations
    BY <1>1, OperationIs DEF ImportCopy, Migrating
  <2> QED
    BY <1>2, <2>1 DEF Migrations
<1>5. PICK old \in Secrets : old = session[h].recs /\ vault.recs = old
  BY <1>1, <1>3, OpenIs DEF Types, Held, Sessions
<1>6. PICK r : r = [i \in Ids |-> IF secrets[i] = None THEN old[i] ELSE secrets[i]]
  OBVIOUS
<1>7. r \in Secrets
  BY <1>4, <1>5, <1>6 DEF Secrets
<1>8. Persists(h, r)
  BY <1>4, <1>5, <1>6 DEF ImportCopy, Imported
<1>9. Writes(h, r)
  BY <1>1, <1>3, <1>7, <1>8, PersistsWrites
<1>10. Held'
  <2>1. Settles(h)
    BY <1>2, MovesSettles
  <2> QED
    BY <1>1, <1>3, <1>9, <2>1, HeldWrites
<1>11. Types'
  BY <1>1, <1>2, <1>9 DEF Types, Moves, Writes
<1>12. Directory'
  <2>1. \A k \in Hosts : k # h => ~Migrates(k)'
    BY <1>1, <1>2, <1>3, OthersRest
  <2>2. ~Cleans(h)' /\ session'[h] # None
    BY <1>2, <1>9 DEF Moves, Cleans, Cleaning, Writes
  <2>3. owner' # None => op'[h].source = owner'.source
    BY <1>1, <1>2, <1>3 DEF Directory
  <2> QED
    BY <2>1, <2>2, <2>3, DirectoryAlone
<1>13. touched' = {i \in touched : secrets[i] = None}
  BY <1>4 DEF ImportCopy
<1>14. owner # None => owner.source = secrets /\ Kept(secrets)
  BY <1>1, <1>3, <1>4 DEF Directory, Recoverable
<1>15. ASSUME owner # None
       PROVE  Kept(secrets)'
  <2>1. ASSUME NEW i \in Ids, secrets[i] # None
        PROVE  \E s \in copies' \cup ({vault'} \ {None}) : s.recs[i] = secrets[i]
    BY <1>6, <1>9, <2>1 DEF Writes
  <2> QED
    BY <2>1 DEF Kept
<1>16. Recoverable'
  <2>1. owner' # None => Kept(owner.source)'
    BY <1>1, <1>14, <1>15 DEF Kept
  <2>2. \A k \in Hosts : ~At(k, "own")'
    <3>1. \A k \in Hosts : k # h => ~Migrates(k)
      BY <1>1, <1>3 DEF Directory
    <3>2. \A k \in Hosts : k # h => ~At(k, "own")
      BY <3>1 DEF Migrates, Migrating
    <3> QED
      BY <1>2, <3>2 DEF Moves
  <2> QED
    BY <2>1, <2>2 DEF Recoverable
<1> QED
  BY <1>10, <1>11, <1>12, <1>16 DEF VaultInv

\* The new store takes over what was verified.
LEMMA ImportOwns ==
    ASSUME VaultInv, NEW h \in Hosts, ImportOwn(h)
    PROVE  VaultInv'
<1>1. /\ ImportGoes(h) /\ Types /\ Held /\ Directory /\ Recoverable /\ At(h, "own")
      /\ UNCHANGED <<vault, auto, copies, source, salts, holder, session, touched>>
      /\ owner' = State("switched", op[h])
  BY DEF ImportOwn, WritesOwner, ImportGoes, VaultInv
<1>2. /\ Imports(h) /\ op'[h].source = op[h].source
      /\ Moves(h, {"copy", "copied", "verify", "own", "switch"})
      /\ ~At(h, "own")'
  <2>1. /\ Imports(h) /\ op'[h].source = op[h].source
        /\ Moves(h, {"copy", "copied", "verify", "own", "switch"})
        /\ At(h, "own")' => At(h, "verify")
    BY <1>1, MigrationMoves
  <2>2. ~At(h, "verify")
    BY <1>1 DEF At
  <2> QED
    BY <2>1, <2>2
<1>3. op[h] \in Migrations
  BY <1>1, OperationIs DEF Migrating
<1>4. /\ owner' \in StateFiles
      /\ owner'.source = op[h].source
  BY <1>1, <1>3, StateIs DEF States
<1>5. Migrates(h) /\ session[h] # None
  BY <1>1, <1>2 DEF Imports, Migrates, Importing, Migrating, Directory
<1>6. Types'
  BY <1>1, <1>2, <1>4 DEF Types, Moves
<1>7. Held'
  <2>1. Settles(h)
    BY <1>2, MovesSettles
  <2> QED
    BY <1>1, <2>1, HeldQuiet
<1>8. \A k \in Hosts : k # h => ~Migrates(k) /\ ~Migrates(k)'
  BY <1>1, <1>2, <1>5, OthersRest DEF Directory
<1>9. Directory'
  <2>1. ~Cleans(h)' /\ session'[h] # None
    BY <1>1, <1>2, <1>5 DEF Moves, Cleans, Cleaning
  <2> QED
    BY <1>2, <1>4, <1>8, <2>1, DirectoryAlone
<1>10. Recoverable'
  <2>1. PICK secrets : secrets = op[h].source /\ owner'.source = secrets /\ Kept(secrets)
    BY <1>1, <1>4 DEF Recoverable
  <2>2. Kept(secrets)'
    BY <1>1, <2>1 DEF Kept
  <2>3. Kept(owner.source)'
    BY <2>1, <2>2 DEF Kept
  <2>4. \A k \in Hosts : ~At(k, "own")'
    BY <1>2, <1>8 DEF Migrates, Migrating
  <2> QED
    BY <2>3, <2>4 DEF Recoverable
<1> QED
  BY <1>6, <1>7, <1>9, <1>10 DEF VaultInv

\* An import or a clean-up ends, also by an error, which may close the vault.
LEMMA MoveEnds ==
    ASSUME VaultInv, NEW h \in Hosts,
           ImportSwitch(h) \/ ImportFails(h) \/ CleanupFails(h)
    PROVE  Sound(h)
<1>1. Types /\ Held /\ Moves(h, {})
  BY EndsMoves DEF VaultInv, ImportSwitch, ImportFails, CleanupFails
<1>2. /\ UNCHANGED <<vault, auto, copies, salts, source, owner, touched>>
      /\ UNCHANGED <<session, holder>> \/ Locks(h)
  BY DEF ImportSwitch, ImportFails, CleanupFails, WritesJournal, disk
<1>3. auto' \in Keys \cup {None} /\ copies' \subseteq Snapshots /\ source' \in Secrets \cup {None}
  BY <1>1, <1>2 DEF Types
<1>4. Stays
  BY <1>2 DEF Stays
<1>5. CASE Locks(h)
  BY <1>1, <1>2, <1>3, <1>4, <1>5, ClosesSound
<1>6. CASE UNCHANGED <<session, holder>>
  BY <1>1, <1>2, <1>3, <1>6, QuietSound
<1> QED
  BY <1>2, <1>5, <1>6

-----------------------------------------------------------------------------
(* The clean-up of the old store. *)

LEMMA CleanupBegins ==
    ASSUME VaultInv, NEW h \in Hosts, Cleanup(h)
    PROVE  VaultInv'
<1>1. /\ Types /\ DirectoryFree /\ owner # None
      /\ owner \in StateFiles
      /\ UNCHANGED <<vault, auto, copies, salts, holder, session, touched, source>>
  BY DEF Cleanup, CleanupAllowed, VaultInv, Types
<1>2. PICK secrets \in Secrets, env \in BOOLEAN : secrets = owner.source /\ env = owner.env
  BY <1>1 DEF StateFiles
<1>3. PICK s \in {"authorize", "source"} :
         /\ op' = [op EXCEPT ![h] = [step |-> s, source |-> secrets, env |-> env]]
         /\ \/ UNCHANGED owner
            \/ owner' = [state |-> "cleanup_authorized", source |-> secrets, env |-> env]
  BY <1>2 DEF Cleanup, State
<1>4. s \in Migrating /\ {s} \in SUBSET Migrating
  BY DEF Migrating
<1>5. Moves(h, {s}) /\ op'[h].source = secrets
  BY <1>1, <1>3, <1>4, MigrationBegins
<1>6. /\ owner' \in StateFiles
      /\ owner'.source = secrets
  BY <1>1, <1>2, <1>3 DEF States, StateFiles
<1>7. ~Imports(h)' /\ ~At(h, "own")'
  BY <1>5 DEF Moves, Imports, Importing
<1>8. owner' # None
  BY <1>1, <1>6, NoneIsAbsent
<1>9. OwnerStays /\ source' \in Secrets \cup {None}
  BY <1>1, <1>2, <1>6 DEF OwnerStays, Types
<1> QED
  BY <1>1, <1>4, <1>5, <1>6, <1>7, <1>8, <1>9, MoveKeeps

\* The clean-up goes on, or a part of the backup cannot be removed.
LEMMA CleanupGoesOn ==
    ASSUME VaultInv, NEW h \in Hosts,
           \/ CleanupAuthorized(h) \/ CleanupSource(h) \/ CleanupKey(h)
           \/ CleanupBackup(h) \/ CleanupRecord(h)
    PROVE  VaultInv'
<1>1. /\ Types /\ Directory /\ Held
      /\ UNCHANGED <<vault, auto, copies, salts, holder, session, touched, owner>>
      /\ source' \in Secrets \cup {None}
  BY DEF CleanupAuthorized, CleanupSource, CleanupKey, CleanupBackup, CleanupRecord,
         WritesJournal, VaultInv, Types
<1>2. CASE CleanupGoes(h)
  <2>1. /\ Cleans(h) /\ op'[h].source = op[h].source
        /\ Moves(h, {"source", "key", "backup", "record", "confirm"})
    BY <1>1, <1>2, MigrationMoves
  <2>2. Migrates(h) /\ owner # None
    BY <1>1, <2>1 DEF Cleans, Migrates, Cleaning, Migrating, Directory
  <2>3. ~Imports(h)' /\ ~At(h, "own")'
    BY <2>1 DEF Moves, Imports, Importing
  <2>4. OwnerStays /\ (owner' # None => op'[h].source = owner'.source) /\ owner' # None
    BY <1>1, <2>1, <2>2 DEF OwnerStays, Directory
  <2>5. owner' \in StateFiles \cup {None}
    BY <1>1 DEF Types
  <2>6. {"source", "key", "backup", "record", "confirm"} \in SUBSET Migrating
    BY DEF Migrating
  <2> QED
    BY <1>1, <2>1, <2>2, <2>3, <2>4, <2>5, <2>6, MoveKeeps
<1>3. CASE Ends(h) /\ UNCHANGED source
  <2>1. Moves(h, {})
    BY <1>1, <1>3, EndsMoves
  <2>2. auto' \in Keys \cup {None} /\ copies' \subseteq Snapshots /\ copies \subseteq copies'
    BY <1>1 DEF Types
  <2> QED
    BY <1>1, <1>3, <2>1, <2>2, QuietSound, SoundKeeps
<1> QED
  BY <1>2, <1>3 DEF CleanupAuthorized, CleanupSource, CleanupKey, CleanupBackup, CleanupRecord,
                    CleanupGoes

\* The owner file says that the clean-up is done.
LEMMA CleanupDone ==
    ASSUME VaultInv, NEW h \in Hosts, CleanupConfirm(h)
    PROVE  VaultInv'
<1>1. /\ Types /\ Directory /\ At(h, "confirm") /\ Ends(h)
      /\ UNCHANGED <<vault, auto, copies, salts, holder, session, touched, source>>
      /\ owner' = State("cleanup_confirmed", op[h])
  BY DEF CleanupConfirm, WritesOwner, VaultInv
<1>2. op[h] \in Migrations
  BY <1>1, OperationIs DEF Migrating
<1>3. Migrates(h) /\ owner # None /\ op[h].source = owner.source
  BY <1>1 DEF Migrates, Migrating, Cleans, Cleaning, Directory
<1>4. owner' \in StateFiles /\ owner' # None /\ owner'.source = op[h].source
  BY <1>1, <1>2, StateIs DEF States
<1>5. Moves(h, {})
  BY <1>1, EndsMoves
<1>6. ~Imports(h)' /\ ~At(h, "own")'
  BY <1>5 DEF Moves, Imports
<1>7. OwnerStays /\ source' \in Secrets \cup {None}
  BY <1>1, <1>3, <1>4 DEF OwnerStays, Types
<1> QED
  BY <1>1, <1>3, <1>4, <1>5, <1>6, <1>7, MoveKeeps

-----------------------------------------------------------------------------
(* The theorems. *)

LEMMA InitVault == Init => VaultInv
<1> SUFFICES ASSUME Init
             PROVE  VaultInv
  OBVIOUS
<1>1. \A h \in Hosts : op[h] = None /\ session[h] = None /\ \A s : ~At(h, s)
  BY DEF Init, At
<1>2. vault \in Snapshots \cup {None} /\ salts \in Nat
  <2>1. Empty \in Secrets
    BY DEF Empty, Secrets
  <2>2. \A p \in Passwords : Snapshot(p, 1, Empty) \in Snapshots
    BY <2>1, SnapshotIs DEF Keys
  <2> QED
    BY <2>2 DEF Init
<1>3. Types
  <2>1. source \in Secrets
    BY DEF Init, Secrets
  <2> QED
    BY <1>2, <2>1 DEF Init, Types
<1>4. Held /\ Directory /\ Recoverable
  BY <1>1 DEF Init, Held, Directory, Migrates, Imports, Cleans, Recoverable
<1> QED
  BY <1>3, <1>4 DEF VaultInv

\* What every host can do, by what it does to the move of the old store.
LEMMA HostSteps ==
    ASSUME VaultInv, NEW h \in Hosts
    PROVE  /\ Start(h) \/ UnlockStep(h) \/ Crash(h) => VaultInv'
           /\ SessionLock(h) \/ LockCommand(h) \/ LockNow(h) \/ Reap(h) => VaultInv'
           /\ \A p \in Passwords : Unlock(h, p) \/ ChangePassword(h, p) => VaultInv'
           /\ \A i \in Ids, v \in Values : Put(h, i, v) => VaultInv'
           /\ \A ids \in (SUBSET Ids) \ {{}} : Delete(h, ids) => VaultInv'
           /\ \A ids \in (SUBSET Ids) \ {{}} : \A f \in [ids -> Ids] :
                 MoveMany(h, f) => VaultInv'
           /\ Backup(h) \/ (\E c \in copies : Restore(h, c)) => VaultInv'
           /\ \A env \in Environments : Import(h, env) => VaultInv'
           /\ ImportStep(h) \/ ImportFails(h) => VaultInv'
           /\ Cleanup(h) \/ CleanupStep(h) \/ CleanupFails(h) => VaultInv'
<1>1. Types /\ Held
  BY DEF VaultInv
<1>2. Start(h) \/ UnlockStep(h) \/ Crash(h) => VaultInv'
  BY <1>1, StartSound, UnlockSound, LockSound, SoundKeeps
<1>3. SessionLock(h) \/ LockCommand(h) \/ LockNow(h) \/ Reap(h) => VaultInv'
  <2>1. SessionLock(h) \/ LockCommand(h) => Signalled(h) /\ UNCHANGED <<disk, holder>>
    BY DEF SessionLock, LockCommand
  <2> QED
    BY <1>1, <2>1, SignalledFlags, FlagsKeep, LockSound, SoundKeeps
<1>4. \A p \in Passwords : Unlock(h, p) \/ ChangePassword(h, p) => VaultInv'
  BY <1>1, UnlockSound, ChangePasswordSound, SoundKeeps
<1>5. /\ \A i \in Ids, v \in Values : Put(h, i, v) => VaultInv'
      /\ \A ids \in (SUBSET Ids) \ {{}} : Delete(h, ids) => VaultInv'
      /\ \A ids \in (SUBSET Ids) \ {{}} : \A f \in [ids -> Ids] :
            MoveMany(h, f) => VaultInv'
  BY <1>1, RecordsSound, SoundKeeps
<1>6. Backup(h) \/ (\E c \in copies : Restore(h, c)) => VaultInv'
  BY <1>1, CopySound, SoundKeeps
<1>7. /\ \A env \in Environments : Import(h, env) => VaultInv'
      /\ ImportStep(h) \/ ImportFails(h) => VaultInv'
  BY ImportBegins, ImportGoesOn, ImportCopies, ImportOwns, MoveEnds, SoundKeeps DEF ImportStep
<1>8. Cleanup(h) \/ CleanupStep(h) \/ CleanupFails(h) => VaultInv'
  BY CleanupBegins, CleanupGoesOn, CleanupDone, MoveEnds, SoundKeeps DEF CleanupStep
<1> QED
  BY <1>2, <1>3, <1>4, <1>5, <1>6, <1>7, <1>8

\* What stays when only the old store or nothing changes.
LEMMA NothingKeeps ==
    ASSUME VaultInv, UNCHANGED vars \/ \E i \in Ids, v \in Values : LegacyPut(i, v)
    PROVE  VaultInv'
<1>1. /\ UNCHANGED <<vault, auto, copies, owner, salts, touched, holder, session, op>>
      /\ source' \in Secrets \cup {None}
  <2>1. CASE UNCHANGED vars
    BY <2>1 DEF vars, disk, VaultInv, Types
  <2>2. ASSUME NEW i \in Ids, NEW v \in Values, LegacyPut(i, v)
        PROVE  /\ UNCHANGED <<vault, auto, copies, owner, salts, touched, holder, session, op>>
               /\ source' \in Secrets \cup {None}
    BY <2>2 DEF LegacyPut, VaultInv, Types, Secrets
  <2> QED
    BY <2>1, <2>2
<1>2. Types' /\ Held'
  BY <1>1 DEF VaultInv, Types, Held, At
<1>3. Directory'
  BY <1>1 DEF VaultInv, Directory, Migrates, Imports, Cleans, At
<1>4. Recoverable'
  BY <1>1 DEF VaultInv, Recoverable, Kept, At
<1> QED
  BY <1>2, <1>3, <1>4 DEF VaultInv

LEMMA VaultStep == VaultInv /\ [Next]_vars => VaultInv'
<1> SUFFICES ASSUME VaultInv, [Next]_vars
             PROVE  VaultInv'
  OBVIOUS
<1>1. CASE UNCHANGED vars \/ \E i \in Ids, v \in Values : LegacyPut(i, v)
  BY <1>1, NothingKeeps
<1>2. ASSUME NEW h \in Hosts,
             \/ Start(h) \/ UnlockStep(h) \/ Crash(h)
             \/ SessionLock(h) \/ LockCommand(h) \/ LockNow(h) \/ Reap(h)
             \/ \E p \in Passwords : Unlock(h, p) \/ ChangePassword(h, p)
             \/ \E i \in Ids, v \in Values : Put(h, i, v)
             \/ \E ids \in (SUBSET Ids) \ {{}} : Delete(h, ids)
             \/ \E ids \in (SUBSET Ids) \ {{}} : \E f \in [ids -> Ids] : MoveMany(h, f)
             \/ Backup(h) \/ (\E c \in copies : Restore(h, c))
             \/ \E env \in Environments : Import(h, env)
             \/ ImportStep(h) \/ ImportFails(h)
             \/ Cleanup(h) \/ CleanupStep(h) \/ CleanupFails(h)
      PROVE  VaultInv'
  BY <1>2, HostSteps
<1> QED
  BY <1>1, <1>2 DEF Next

\* The lock file, the vault in memory and on disk, the move of the old store and
\* its secrets agree in every behaviour of any number of hosts (credentials.rs).
THEOREM VaultInvariant == Spec => []VaultInv
<1> QED
  BY InitVault, VaultStep, PTL DEF Spec

\* A broker that answers requests answers from what is on disk (put, persist).
THEOREM ServesCommittedHolds == Spec => []ServesCommitted
<1>1. VaultInv => ServesCommitted
  <2>1. SUFFICES ASSUME Types, Held, NEW h \in Hosts, Unlocked(h)
                 PROVE  session[h] = [SessionOf(vault) EXCEPT !.stale = FALSE]
    BY DEF VaultInv, ServesCommitted
  <2>2. /\ session[h] \in Sessions /\ ~session[h].stale
        /\ session[h].pw = vault.pw /\ session[h].salt = vault.salt
        /\ session[h].recs = vault.recs
    BY <2>1 DEF Unlocked, Types, Held
  <2> QED
    BY <2>2 DEF Sessions, SessionOf
<1> QED
  BY <1>1, VaultInvariant, PTL

\* A secret of the old store, once its file is removed, is in the vault or in a
\* kept copy of it, unless the user has changed it since (cleanup_fernet).
THEOREM SecretsRecoverableHolds == Spec => []SecretsRecoverable
<1>1. VaultInv => SecretsRecoverable
  BY DEF VaultInv, Recoverable, Kept, SecretsRecoverable
<1> QED
  BY <1>1, VaultInvariant, PTL

\* Everything a host does but for a bump of its epoch.
Acts(h) ==
    \/ Start(h) \/ UnlockStep(h) \/ Crash(h) \/ LockNow(h) \/ Reap(h)
    \/ \E p \in Passwords : Unlock(h, p) \/ ChangePassword(h, p)
    \/ \E i \in Ids, v \in Values : Put(h, i, v)
    \/ \E ids \in (SUBSET Ids) \ {{}} : Delete(h, ids)
    \/ \E ids \in (SUBSET Ids) \ {{}} : \E f \in [ids -> Ids] : MoveMany(h, f)
    \/ Backup(h) \/ (\E c \in copies : Restore(h, c))
    \/ \E env \in Environments : Import(h, env)
    \/ ImportStep(h) \/ ImportFails(h)
    \/ Cleanup(h) \/ CleanupStep(h) \/ CleanupFails(h)

\* What keeps the vault of k from answering: nothing happens to it, it is closed,
\* or it stays revoked.
Silent(k) ==
    \/ session'[k] = session[k] \/ session'[k] = None
    \/ session[k] # None /\ (session[k].stale => session'[k].stale)
    \/ Idle(k) /\ Unlocked(k)

\* Every action of h itself: the only one that opens a vault is the check of an
\* unlock, which compares the epoch.
LEMMA OwnSilent ==
    ASSUME VaultInv, NEW h \in Hosts, Acts(h), Revoked(h)
    PROVE  Silent(h) \/ ~Unlocked(h)'
<1>0. Types /\ Held /\ Directory /\ session \in [Hosts -> Sessions \cup {None}]
  BY DEF VaultInv, Types
<1>1. Locks(h) => session'[h] = None
  BY <1>0 DEF Locks
<1>2. \A p, b : BeginUnlock(h, p, b) => session'[h] = None
  BY <1>0 DEF BeginUnlock
<1>3. UNCHANGED session => Silent(h)
  BY DEF Silent
<1>4. CASE Start(h) \/ \E p \in Passwords : Unlock(h, p)
  BY <1>2, <1>3, <1>4 DEF Start, Unlock, Silent
<1>5. CASE UnlockStep(h)
  <2>1. CASE SaveSecret(h) \/ Enable(h)
    BY <1>2, <1>3, <2>1 DEF SaveSecret, Enable, Silent
  <2>2. CASE Load(h)
    BY <1>1, <1>3, <2>2 DEF Load, UnlockFails, Silent
  <2>3. CASE Check(h)
    <3>1. session[h] = None /\ op[h].stale
      BY <1>0, <2>3 DEF Held, Check, Revoked, Unlocked, At
    <3> QED
      BY <1>0, <2>3, <3>1, HeldChecks DEF Silent
  <2> QED
    BY <1>5, <2>1, <2>2, <2>3 DEF UnlockStep
<1>6. CASE Crash(h) \/ LockNow(h) \/ Reap(h) \/ ImportFails(h) \/ \E c \in copies : Restore(h, c)
  BY <1>1, <1>3, <1>6 DEF Crash, LockNow, Reap, ImportFails, Restore, Silent
<1>7. CASE \/ \E p \in Passwords : ChangePassword(h, p)
           \/ \E i \in Ids, v \in Values : Put(h, i, v)
           \/ \E ids \in (SUBSET Ids) \ {{}} : Delete(h, ids)
           \/ \E ids \in (SUBSET Ids) \ {{}} : \E f \in [ids -> Ids] : MoveMany(h, f)
  BY <1>7 DEF ChangePassword, Put, Delete, MoveMany, Silent
<1>8. CASE \/ Backup(h) \/ (\E env \in Environments : Import(h, env)) \/ Cleanup(h)
           \/ CleanupStep(h) \/ CleanupFails(h)
  BY <1>3, <1>8 DEF Backup, Import, Cleanup, CleanupStep, CleanupAuthorized, CleanupSource,
                    CleanupKey, CleanupBackup, CleanupRecord, CleanupConfirm, CleanupFails,
                    WritesJournal, WritesOwner
<1>9. CASE ImportStep(h)
  <2>1. CASE ImportCopy(h)
    <3>1. session[h] # None
      BY <1>0, <2>1 DEF Directory, ImportCopy, Imports, Importing
    <3>2. session[h] \in Sessions
      BY <1>0, <3>1
    <3>3. PICK r : session' = [session EXCEPT ![h].recs = r]
      BY <2>1 DEF ImportCopy, Persists
    <3>4. session'[h] = [session[h] EXCEPT !.recs = r]
      BY <1>0, <3>3
    <3>5. session'[h].stale = session[h].stale
      BY <3>2, <3>4 DEF Sessions
    <3> QED
      BY <3>1, <3>5 DEF Silent
  <2>2. CASE ~ImportCopy(h)
    BY <1>3, <1>9, <2>2 DEF ImportStep, ImportBackedUp, ImportCopied, ImportVerify, ImportOwn,
                            ImportSwitch, WritesJournal, WritesOwner
  <2> QED
    BY <2>1, <2>2
<1> QED
  BY <1>4, <1>5, <1>6, <1>7, <1>8, <1>9 DEF Acts

\* A step of h leaves the vaults of the others as they are.
LEMMA OthersKept ==
    ASSUME VaultInv, NEW h \in Hosts, Acts(h)
    PROVE  \A k \in Hosts : k # h => session'[k] = session[k]
<1>0. Types /\ Held /\ session \in [Hosts -> Sessions \cup {None}]
  BY DEF VaultInv, Types
<1>1. Sound(h) => \A k \in Hosts : k # h => session'[k] = session[k]
  BY DEF Sound, Ordinary
<1>2. CASE \/ Start(h) \/ UnlockStep(h) \/ Crash(h) \/ LockNow(h) \/ Reap(h)
           \/ \E p \in Passwords : Unlock(h, p) \/ ChangePassword(h, p)
           \/ Backup(h) \/ (\E c \in copies : Restore(h, c))
           \/ ImportFails(h) \/ CleanupFails(h)
  BY <1>0, <1>1, <1>2, StartSound, UnlockSound, LockSound, ChangePasswordSound, CopySound,
     MoveEnds
<1>3. CASE \/ \E i \in Ids, v \in Values : Put(h, i, v)
           \/ \E ids \in (SUBSET Ids) \ {{}} : Delete(h, ids)
           \/ \E ids \in (SUBSET Ids) \ {{}} : \E f \in [ids -> Ids] : MoveMany(h, f)
  BY <1>0, <1>1, <1>3, RecordsSound
<1>4. CASE (\E env \in Environments : Import(h, env)) \/ Cleanup(h) \/ CleanupStep(h)
  BY <1>4 DEF Import, Cleanup, CleanupStep, CleanupAuthorized, CleanupSource,
              CleanupKey, CleanupBackup, CleanupRecord, CleanupConfirm, WritesJournal, WritesOwner
<1>5. CASE ImportStep(h)
  <2>1. CASE ImportCopy(h)
    BY <1>0, <2>1 DEF ImportCopy, Persists
  <2>2. CASE ~ImportCopy(h)
    BY <1>5, <2>2 DEF ImportStep, ImportBackedUp, ImportCopied, ImportVerify, ImportOwn,
                      ImportSwitch, WritesJournal, WritesOwner
  <2> QED
    BY <2>1, <2>2
<1> QED
  BY <1>2, <1>3, <1>4, <1>5 DEF Acts

\* A vault that was revoked and is silent does not answer.
LEMMA SilentIsLocked ==
    ASSUME VaultInv, NEW k \in Hosts, Revoked(k), Silent(k)
    PROVE  ~Unlocked(k)'
<1>1. Held /\ (At(k, "load") \/ At(k, "check") => session[k] = None)
  BY DEF VaultInv, Held
<1>2. \/ session[k] # None /\ session[k].stale
      \/ session[k] = None /\ op[k] # None
  BY <1>1 DEF Revoked, Unlocked, At
<1> QED
  BY <1>2 DEF Silent, Unlocked, Idle

\* Once the session monitor or the lock command has spoken, nothing that was
\* under way makes the vault answer again (signal, session, unlock).
THEOREM RevocationWinsHolds == Spec => RevocationWins
<1>1. VaultInv /\ [Next]_vars => [\A h \in Hosts : Revoked(h) => ~Unlocked(h)']_vars
  <2>1. SUFFICES ASSUME VaultInv, Next, NEW k \in Hosts, Revoked(k)
                 PROVE  ~Unlocked(k)'
    OBVIOUS
  <2>2. CASE \E i \in Ids, v \in Values : LegacyPut(i, v)
    BY <2>1, <2>2, SilentIsLocked DEF LegacyPut, Silent
  <2>3. ASSUME NEW h \in Hosts, SessionLock(h) \/ LockCommand(h)
        PROVE  ~Unlocked(k)'
    <3>1. Signalled(h) /\ Types
      BY <2>1, <2>3 DEF SessionLock, LockCommand, VaultInv
    <3> QED
      BY <2>1, <3>1, SignalledFlags, SilentIsLocked DEF Flags, Silent
  <2>4. ASSUME NEW h \in Hosts, Acts(h)
        PROVE  ~Unlocked(k)'
    <3>1. CASE k = h
      BY <2>1, <2>4, <3>1, OwnSilent, SilentIsLocked
    <3>2. CASE k # h
      <4>1. session'[k] = session[k]
        BY <2>1, <2>4, <3>2, OthersKept
      <4> QED
        BY <2>1, <4>1, SilentIsLocked DEF Silent
    <3> QED
      BY <3>1, <3>2
  <2> QED
    BY <2>1, <2>2, <2>3, <2>4 DEF Next, Acts
<1> QED
  BY <1>1, VaultInvariant, PTL DEF Spec, RevocationWins
=============================================================================

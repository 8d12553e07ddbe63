-------------------------- MODULE ExperimentImport --------------------------
(***************************************************************************)
(* Importing the outputs of an experiment into the vault                   *)
(* (experiment_import.rs, the proposals of experiment_agent.rs, and the    *)
(* write journal of workspace.rs that carries each file).                  *)
(*                                                                         *)
(* A plan freezes, for every selected output, the file it will create or   *)
(* replace.  The user confirms exactly that plan; then each call of        *)
(* import_next commits one file through the vault's write journal, which   *)
(* also settles the item and the import in its own transaction, whether    *)
(* the write finishes at once or in a recovery after a crash.              *)
(*                                                                         *)
(* The vault's mutex makes every operation atomic for the application;     *)
(* edits by other programs, failing I/O and the end of the process are     *)
(* possible between the steps of a write (`applying'), between its look at *)
(* the file and the replacement too.  Quotas refuse nondeterministically.  *)
(***************************************************************************)
EXTENDS Naturals, FiniteSets

CONSTANTS
    Imports,       \* operation ids of imports
    Paths,         \* destinations; the plan's order is the order of `Rank'
    Rank,          \* ordinal of a destination
    Nil,           \* no file, no id, no write
    FreshPaths,    \* destinations that have no file yet
    FaultPaths,    \* destinations whose write may fail while the process goes on
    MaxIncidents   \* edits, deletions, faults and process deaths

ASSUME ImportBounds ==
    /\ Nil \notin Imports \cup {"discovered"} \cup (Imports \X Paths)
    /\ Nil \notin ({"output"} \X Paths) \cup ({"edit"} \X {0, 1})
    /\ Rank \in [Paths -> Nat]
    /\ FreshPaths \subseteq Paths /\ FaultPaths \subseteq Paths
    /\ MaxIncidents \in Nat

VARIABLES
    disk,          \* content of each file, as other programs see it
    files,         \* files table: [id, revision, hash]; hash None is a tombstone
    imports,       \* experiment_imports and experiment_import_items
    journal,       \* journal rows of the items' writes
    receipts,      \* operations in state committed
    applying,      \* the write the running call applies
    current,       \* the content it found at its path, <<>> before it looked
    unseen,        \* files with a content the application never looked at
    vaultOpen,     \* the vault is open
    incidents

importingVars == <<disk, files, imports, journal, receipts, applying, current, unseen,
                  vaultOpen, incidents>>

Writes == Imports \X Paths
Output(p) == <<"output", p>>
Edited(n) == <<"edit", n>>

NoImport == [state |-> "none"]
Planned(i) == imports[i].state \notin {"none", "forgotten"}
Items(i) == DOMAIN imports[i].items
Item(i, p) == imports[i].items[p]
Pending(i) == {p \in Items(i) : Item(i, p).state = "pending"}
Committed(i) == {p \in Items(i) : Item(i, p).state = "committed"}
Failed(i) == {p \in Items(i) : Item(i, p).state = "failed"}
VaultIdle == vaultOpen /\ applying = Nil
AllSeen == unseen' = {}

-----------------------------------------------------------------------------
(* The catalogue and what a plan froze of it.                              *)

\* scan: the catalogue takes over what other programs did to the files.
Scanned ==
    [p \in Paths |->
        IF disk[p] = files[p].hash THEN files[p]
        ELSE [id |-> IF files[p].id = Nil THEN "discovered" ELSE files[p].id,
              revision |-> files[p].revision + 1, hash |-> disk[p]]]

\* target: the file as it is, or a new identity for a path never used.
Target(i, p) ==
    LET f == Scanned[p] IN
    IF f.hash # Nil THEN f
    ELSE [id |-> IF f.id = Nil THEN i ELSE f.id, revision |-> 0, hash |-> Nil]

\* check_target, after the scan.
AsPlanned(t, p) ==
    LET f == Scanned[p] IN
    IF t.hash = Nil THEN f.hash = Nil /\ f.id \in {Nil, t.id}
    ELSE f = t

-----------------------------------------------------------------------------
(* Plans and the user's decisions.                                         *)

Plan(i, ps) ==
    [state |-> "awaiting_confirmation", confirmed |-> FALSE,
     items |-> [p \in ps |-> [state |-> "pending", target |-> Target(i, p)]]]

\* experiment_import_prepare.
PrepareImport(i, ps) ==
    /\ VaultIdle
    /\ imports[i] = NoImport
    /\ files' = Scanned
    /\ imports' = [imports EXCEPT ![i] = Plan(i, ps)]
    /\ AllSeen /\ UNCHANGED <<disk, journal, receipts, applying, current, vaultOpen, incidents>>

RetiredImport(i) ==
    [imports[i] EXCEPT !.state = "rejected",
        !.items = [p \in Items(i) |-> IF p \in Pending(i)
                                      THEN [Item(i, p) EXCEPT !.state = "rejected"]
                                      ELSE Item(i, p)]]

\* prepare_import of the agent: a proposal whose targets changed is replaced;
\* a stop between the new record and its publication leaves both.
Replace(i, j) ==
    /\ VaultIdle
    /\ imports[i].state = "awaiting_confirmation"
    /\ imports[j] = NoImport
    /\ \E p \in Items(i) : ~AsPlanned(Item(i, p).target, p)
    /\ files' = Scanned
    /\ \E published \in BOOLEAN :
          imports' = [imports EXCEPT ![j] = Plan(j, Items(i)),
                                     ![i] = IF published THEN RetiredImport(i) ELSE @]
    /\ AllSeen /\ UNCHANGED <<disk, journal, receipts, applying, current, vaultOpen, incidents>>

\* experiment_import_approve: all targets are as the plan says.
ApproveImport(i) ==
    /\ VaultIdle
    /\ imports[i].state = "awaiting_confirmation"
    /\ files' = Scanned
    /\ imports' = IF \A p \in Items(i) : AsPlanned(Item(i, p).target, p)
                  THEN [imports EXCEPT ![i].state = "approved", ![i].confirmed = TRUE]
                  ELSE imports
    /\ AllSeen /\ UNCHANGED <<disk, journal, receipts, applying, current, vaultOpen, incidents>>

DefectStops(i, p) == p \in Pending(i)

\* An accepted write is not taken back: its item stays pending.
Stops(i, p) == p \in Pending(i) /\ journal[<<i, p>>] # "pending"

\* experiment_import_cancel.
CancelImport(i) ==
    /\ VaultIdle
    /\ imports[i].state \in {"awaiting_confirmation", "approved"}
    /\ LET state == IF imports[i].state = "approved" THEN "cancelled" ELSE "rejected" IN
       imports' = [imports EXCEPT
           ![i].state = state,
           ![i].items = [p \in Items(i) |-> IF Stops(i, p) THEN [Item(i, p) EXCEPT !.state = state]
                                            ELSE Item(i, p)]]
    /\ UNCHANGED <<disk, files, journal, receipts, applying, current, unseen, vaultOpen, incidents>>

\* experiment_import_forget: not while it runs or one of its writes may still
\* be recovered; the receipts of the writes stay.
ForgetImport(i) ==
    /\ VaultIdle
    /\ Planned(i)
    /\ imports[i].state \notin {"awaiting_confirmation", "approved"}
    /\ \A p \in Items(i) : journal[<<i, p>>] # "pending"
    /\ imports' = [imports EXCEPT ![i] = [state |-> "forgotten"]]
    /\ UNCHANGED <<disk, files, journal, receipts, applying, current, unseen, vaultOpen, incidents>>

-----------------------------------------------------------------------------
(* One file per call.                                                      *)

\* The import after one of its items failed.
DefectAfterFailure(i) == "failed"

AfterFailure(i) == IF Committed(i) # {} THEN "partial" ELSE "failed"

\* The item fails, and with it an import that is still approved.
Fail(i, p) ==
    [imports EXCEPT ![i].items[p].state = "failed",
                    ![i].state = IF @ = "approved" THEN AfterFailure(i) ELSE @]

First(i) == {p \in Pending(i) : \A q \in Pending(i) : Rank[p] <= Rank[q]}

\* Defect: whatever is found at the path is replaced.
DefectFits(w, content) == TRUE

\* The file is what the write expects, or already what it writes.
Fits(w, content) == content \in {Item(w[1], w[2]).target.hash, Output(w[2])}

\* import_next up to the journal row.  Earlier writes have been recovered.  A
\* target that changed, or a refused write, ends the item.
NextFile(i) ==
    /\ VaultIdle
    /\ imports[i].state = "approved"
    /\ \A w \in Writes : journal[w] # "pending"
    /\ files' = Scanned
    /\ \E p \in First(i) :
          IF AsPlanned(Item(i, p).target, p)
          THEN /\ journal' = [journal EXCEPT ![<<i, p>>] = "pending"]
               /\ applying' = <<i, p>>
               /\ UNCHANGED imports
          ELSE /\ imports' = Fail(i, p)
               /\ UNCHANGED <<journal, applying>>
    /\ AllSeen /\ UNCHANGED <<disk, receipts, current, vaultOpen, incidents>>

\* recover, from the opening of the vault or the next call: the pending rows
\* are applied one after the other.
Recover(w) ==
    /\ applying = Nil
    /\ journal[w] = "pending"
    /\ applying' = w
    /\ UNCHANGED <<disk, files, imports, journal, receipts, current, unseen, vaultOpen, incidents>>

\* apply_stored_journal looks at the file first.
ReadFile ==
    /\ applying # Nil /\ current = <<>>
    /\ current' = <<disk[applying[2]]>>
    /\ unseen' = unseen \ {applying[2]}
    /\ UNCHANGED <<disk, files, imports, journal, receipts, applying, vaultOpen, incidents>>

\* What it found decides: the file is put in place, over what is there by now.
PutFile ==
    /\ applying # Nil /\ current # <<>>
    /\ Fits(applying, current[1])
    /\ current[1] # Output(applying[2])
    /\ disk' = [disk EXCEPT ![applying[2]] = Output(applying[2])]
    /\ current' = <<Output(applying[2])>>
    /\ unseen' = unseen \ {applying[2]}
    /\ UNCHANGED <<files, imports, journal, receipts, applying, vaultOpen, incidents>>

\* conflict_write: the row, the receipt and the item say so.
Conflict ==
    /\ applying # Nil /\ current # <<>>
    /\ ~Fits(applying, current[1])
    /\ journal' = [journal EXCEPT ![applying] = "conflict"]
    /\ imports' = Fail(applying[1], applying[2])
    /\ applying' = Nil /\ current' = <<>>
    /\ UNCHANGED <<disk, files, receipts, unseen, vaultOpen, incidents>>

\* The identity a file gets when it is written: the catalogue keeps the one
\* its path has, a tombstone's too.
Identity(i, p) == IF files[p].id = Nil THEN Item(i, p).target.id ELSE files[p].id

\* complete_write accepts the receipt of this write.
Completable(w) ==
    /\ Planned(w[1])
    /\ imports[w[1]].confirmed
    /\ w[2] \in Pending(w[1])
    /\ Identity(w[1], w[2]) = Item(w[1], w[2]).target.id

\* The import once the last pending item committed, if none failed.
Settled(i, p) ==
    IF imports[i].state = "approved" /\ Pending(i) = {p} /\ Failed(i) = {}
    THEN "completed" ELSE imports[i].state

\* apply_stored_journal, complete_write: catalogue, item, import and receipt in
\* one transaction.
Commit ==
    /\ applying # Nil /\ current = <<Output(applying[2])>>
    /\ Completable(applying)
    /\ LET i == applying[1]
           p == applying[2]
       IN  /\ files' = [files EXCEPT ![p] = [id |-> Identity(i, p),
                                             revision |-> @.revision + 1, hash |-> Output(p)]]
           /\ imports' = [imports EXCEPT ![i].items[p].state = "committed",
                                         ![i].state = Settled(i, p)]
    /\ journal' = [journal EXCEPT ![applying] = "none"]
    /\ receipts' = receipts \cup {applying}
    /\ applying' = Nil /\ current' = <<>>
    /\ UNCHANGED <<disk, unseen, vaultOpen, incidents>>

\* The call ends with an error: before the row nothing was accepted and the
\* item fails, after it the item stays pending with the row.
WriteFails ==
    /\ incidents < MaxIncidents
    /\ applying # Nil
    /\ applying[2] \in FaultPaths
    /\ applying' = Nil /\ current' = <<>>
    /\ incidents' = incidents + 1
    /\ UNCHANGED <<disk, files, imports, journal, receipts, unseen, vaultOpen>>

RefuseWrite(i) ==
    /\ incidents < MaxIncidents
    /\ VaultIdle
    /\ imports[i].state = "approved"
    /\ \A w \in Writes : journal[w] # "pending"
    /\ files' = Scanned
    /\ \E p \in First(i) : imports' = Fail(i, p)
    /\ incidents' = incidents + 1
    /\ AllSeen /\ UNCHANGED <<disk, journal, receipts, applying, current, vaultOpen>>

-----------------------------------------------------------------------------
(* Everything else that happens to the vault.                              *)

\* The application scans, then writes or deletes a file in one journalled operation.
UserWrites(p, content) ==
    /\ incidents < MaxIncidents
    /\ VaultIdle
    /\ content = Nil => disk[p] # Nil
    /\ disk' = [disk EXCEPT ![p] = content]
    /\ files' = [Scanned EXCEPT ![p] = [id |-> IF @.id = Nil THEN "discovered" ELSE @.id,
                                        revision |-> @.revision + 1, hash |-> content]]
    /\ incidents' = incidents + 1
    /\ AllSeen /\ UNCHANGED <<imports, journal, receipts, applying, current, vaultOpen>>

\* Another program changes a file, at any moment.
ExternalEdit(p, content) ==
    /\ incidents < MaxIncidents
    /\ disk[p] # content
    /\ disk' = [disk EXCEPT ![p] = content]
    /\ incidents' = incidents + 1
    /\ unseen' = unseen \cup {p}
    /\ UNCHANGED <<files, imports, journal, receipts, applying, current, vaultOpen>>

VaultCrash ==
    /\ incidents < MaxIncidents
    /\ vaultOpen' = FALSE
    /\ applying' = Nil /\ current' = <<>>
    /\ incidents' = incidents + 1
    /\ UNCHANGED <<disk, files, imports, journal, receipts, unseen>>

\* Workspace::open, once its recovery has settled every row; it then scans.
Reopen ==
    /\ ~vaultOpen
    /\ applying = Nil
    /\ \A w \in Writes : journal[w] # "pending"
    /\ vaultOpen' = TRUE
    /\ files' = Scanned
    /\ AllSeen /\ UNCHANGED <<disk, imports, journal, receipts, applying, current, incidents>>

-----------------------------------------------------------------------------
ImportingInit ==
    /\ disk = [p \in Paths |-> IF p \in FreshPaths THEN Nil ELSE Edited(0)]
    /\ files = [p \in Paths |-> [id |-> IF p \in FreshPaths THEN Nil ELSE "discovered",
                                 revision |-> IF p \in FreshPaths THEN 0 ELSE 1,
                                 hash |-> disk[p]]]
    /\ imports = [i \in Imports |-> NoImport]
    /\ journal = [w \in Writes |-> "none"]
    /\ receipts = {}
    /\ applying = Nil /\ current = <<>> /\ unseen = {}
    /\ vaultOpen = TRUE
    /\ incidents = 0

ImportNext == (\E i \in Imports : NextFile(i)) \/ (\E w \in Writes : Recover(w))
Apply == ReadFile \/ PutFile \/ Conflict \/ Commit

ImportingNext ==
    \/ \E i \in Imports :
          \/ \E ps \in (SUBSET Paths) \ {{}} : PrepareImport(i, ps)
          \/ \E j \in Imports : Replace(i, j)
          \/ ApproveImport(i) \/ CancelImport(i) \/ ForgetImport(i) \/ RefuseWrite(i)
    \/ ImportNext
    \/ Apply
    \/ WriteFails
    \/ \E p \in Paths, content \in {Edited(0), Nil} : UserWrites(p, content)
    \/ \E p \in Paths, content \in {Edited(1), Nil} : ExternalEdit(p, content)
    \/ VaultCrash
    \/ Reopen

\* The view calls import_next until the import is no longer approved, an
\* accepted write is carried out, and a vault that was closed is opened again.
ImportingFairness ==
    /\ WF_importingVars(ImportNext) /\ WF_importingVars(Apply)
    /\ WF_importingVars(Reopen)

ImportingSpec == ImportingInit /\ [][ImportingNext]_importingVars /\ ImportingFairness

-----------------------------------------------------------------------------
(* Properties.                                                             *)

\* A write that was accepted can always be completed: neither a cancellation,
\* a replaced proposal, a forgotten record nor a failed neighbour leaves a
\* journal row that complete_write would refuse, which would make every later
\* recovery, and so the opening of the vault, fail. Where a write to a path that
\* was new may fail, the code does not keep this (README, section 7).
RecoverySucceeds ==
    \A w \in Writes : journal[w] = "pending" => Completable(w)

\* What the import record tells is what happened to the files: an item is
\* committed exactly if its write has a receipt, a completed import has all
\* its files, a failed or rejected one none, a partial one some and a failure,
\* whichever of the calls, recoveries and cancellations came in between.
OutcomeTold ==
    \A i \in Imports : Planned(i) =>
        /\ \A p \in Items(i) : Item(i, p).state = "committed" <=> <<i, p>> \in receipts
        /\ imports[i].state = "completed" => Committed(i) = Items(i)
        /\ imports[i].state \in {"failed", "rejected"} => Committed(i) = {}
        /\ imports[i].state = "failed" => Failed(i) # {}
        /\ imports[i].state = "partial" => Committed(i) # {} /\ Failed(i) # {}

\* An import that was confirmed replaces only what its plan showed, or what
\* another program wrote after the last look at the file: nothing that the
\* application wrote, catalogued or read since the plan is lost, whichever
\* failures, stops and recoveries the accepted write goes through (check_target,
\* apply_stored_journal).
ReplacesOnlyReviewed ==
    [][\A p \in Paths :
          disk'[p] # disk[p] /\ disk'[p] = Output(p) /\ applying # Nil =>
             /\ imports[applying[1]].confirmed
             /\ disk[p] = Item(applying[1], p).target.hash \/ p \in unseen]_importingVars

\* An approved import comes to an end: every item is committed or one fails.
ImportsSettle ==
    \A i \in Imports : imports[i].state = "approved" ~> imports[i].state # "approved"
=============================================================================

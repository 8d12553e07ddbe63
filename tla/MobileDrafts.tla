---------------------------- MODULE MobileDrafts ----------------------------
(***************************************************************************)
(* The drafts of the mobile application (mobile_drafts.rs,                 *)
(* mobile_mutations.rs, mobile_images.rs, mobile_workspace.rs): text that  *)
(* is typed, and frozen intents to save it, to insert an image, to rename  *)
(* or to delete a note.  An intent is carried out by a journalled          *)
(* operation of the vault with the same id; its receipt, not the reply to  *)
(* the call, tells what happened.                                          *)
(*                                                                         *)
(* One mutex serialises the commands, so each is one step; a stop of the   *)
(* application or a failed call cuts a command between the two databases.  *)
(* Texts are numbers; `from` keeps which texts a text was typed over.      *)
(***************************************************************************)
EXTENDS Naturals, FiniteSets

CONSTANTS
    DraftIds, Views, IntentIds, FileIds, Paths,
    Images,     \* image contents: an image is stored under its digest
    None,
    First,      \* the identity and the path of the note the vault starts with
    Home,
    MaxTexts,   \* bound on the texts that are ever written
    MaxMishaps  \* bound on stops, failures, lost replies and remote changes

(* The rows of table drafts *)
Rows == [file : FileIds \cup {None}, path : Paths, base : Nat, gen : Nat, saved : Nat,
         text : Nat, session : Views]

ASSUME DraftsAssumption ==
    /\ First \in FileIds /\ Home \in Paths
    /\ None \notin DraftIds \cup Views \cup IntentIds \cup FileIds \cup Paths \cup Images
    /\ None \notin Rows
    /\ MaxTexts \in Nat /\ MaxMishaps \in Nat

VARIABLES
    vault,      \* the catalogue of the vault, in step with its disk
    operations, \* the journal of the vault
    assets,     \* images that are stored in the vault
    drafts,     \* table drafts
    frozen,     \* tables save_intents, mutation_intents and image_intents
    views,      \* the editors: what each one shows
    from,       \* every text so far, and the texts it descends from
    written,    \* texts that were in the vault
    dropped,    \* texts that the user discarded
    mishaps

vaultVars == <<vault, operations, assets, written>>
draftingVars == <<vaultVars, drafts, frozen, views, from, dropped, mishaps>>

Mishap == mishaps < MaxMishaps /\ mishaps' = mishaps + 1
Calm == UNCHANGED mishaps

NoFile == [path |-> None, text |-> 0, live |-> FALSE]
NoOperation == [state |-> "none", file |-> None]
BlankIntent == [kind |-> "none", state |-> "none", draft |-> None, gen |-> 0, file |-> None,
                path |-> None, dest |-> None, expected |-> 0, text |-> 0, image |-> None]

(* A fresh text, typed over another one *)
Texts == DOMAIN from
NextText == Cardinality(Texts) + 1
CanType == NextText <= MaxTexts
Typed(base) == [t \in Texts \cup {NextText} |->
                   IF t = NextText THEN IF base = 0 THEN {} ELSE {base} \cup from[base]
                   ELSE from[t]]

-----------------------------------------------------------------------------
(* The vault: what WorkspaceJournal details, seen from its callers. *)

RowsAt(p) == {f \in FileIds : vault[f].path = p}
LiveAt(p) == {f \in RowsAt(p) : vault[f].live}
TextAt(p) == IF LiveAt(p) = {} THEN 0 ELSE vault[CHOOSE f \in LiveAt(p) : TRUE].text
PathOf(f) == IF vault[f].live THEN vault[f].path ELSE None

(* The identity that a write to a path will have *)
Owner(p) == IF RowsAt(p) # {} THEN CHOOSE f \in RowsAt(p) : TRUE
            ELSE CHOOSE f \in FileIds : vault[f] = NoFile
HasOwner(p) == RowsAt(p) # {} \/ \E f \in FileIds : vault[f] = NoFile

Applied(i) ==
    CASE i.kind = "save" ->
            [vault EXCEPT ![Owner(i.path)] = [path |-> i.path, text |-> i.text, live |-> TRUE]]
      [] i.kind = "rename" -> [vault EXCEPT ![i.file].path = i.dest]
      [] i.kind = "delete" -> [vault EXCEPT ![i.file].live = FALSE]
      [] OTHER -> vault
ResultFile(i) == IF i.kind = "save" THEN Owner(i.path) ELSE i.file

(* write_source and prepare_file_op_with_id: what is there is expected *)
Accepts(i) ==
    CASE i.kind = "save" -> TextAt(i.path) = i.expected /\ HasOwner(i.path)
      [] i.kind = "rename" -> TextAt(i.path) = i.expected /\ RowsAt(i.dest) = {}
      [] i.kind = "delete" -> TextAt(i.path) = i.expected
      [] OTHER -> TRUE

(* recover: an accepted operation is applied, or ends as a conflict *)
StillFits(i) ==
    CASE i.kind = "save" -> TextAt(i.path) \in {i.expected, i.text} /\ HasOwner(i.path)
      [] OTHER -> Accepts(i)
Commit(op) ==
    /\ vault' = Applied(frozen[op])
    /\ operations' = [operations EXCEPT ![op] = [state |-> "committed",
                                                 file |-> ResultFile(frozen[op])]]
    /\ assets' = IF frozen[op].kind = "image" THEN assets \cup {frozen[op].image} ELSE assets
    /\ written' = written \cup {vault'[f].text : f \in FileIds}
RecoverIntent(op) ==
    IF StillFits(frozen[op]) THEN Commit(op)
    ELSE /\ operations' = [operations EXCEPT ![op].state = "conflict"]
         /\ UNCHANGED <<vault, assets, written>>
Admit(op) ==
    /\ operations' = [operations EXCEPT ![op].state = "pending"]
    /\ UNCHANGED <<vault, assets, written>>

Unsettled == {op \in IntentIds : operations[op].state = "pending"}

(* Changes that the sync brings to the vault *)
RemoteEdit(f) ==
    /\ Mishap /\ CanType /\ vault[f].live
    /\ vault' = [vault EXCEPT ![f].text = NextText] /\ from' = Typed(vault[f].text)
    /\ written' = written \cup {NextText}
    /\ UNCHANGED <<operations, assets, drafts, frozen, views, dropped>>
RemoteMove(f, p) ==
    /\ Mishap /\ vault[f].live /\ RowsAt(p) = {}
    /\ vault' = [vault EXCEPT ![f].path = p]
    /\ UNCHANGED <<operations, assets, written, drafts, frozen, views, from, dropped>>

-----------------------------------------------------------------------------
(* Drafts and the editors that show them. *)

Exists(d) == drafts[d] # None
Dirty(x) == x.gen # x.saved
InTheVault == UNCHANGED vaultVars
DraftAt(p) == {d \in DraftIds : IF Exists(d) THEN drafts[d].path = p ELSE FALSE}
DraftOf(f) == {d \in DraftIds : IF Exists(d) THEN drafts[d].file = f ELSE FALSE}
Prepared(kinds) == {op \in IntentIds : frozen[op].state = "prepared" /\ frozen[op].kind \in kinds}
PendingSave(d) == {op \in Prepared({"save"}) : frozen[op].draft = d}
PendingImage(d) == {op \in Prepared({"image"}) : frozen[op].draft = d}
PendingMutation(f) == {op \in Prepared({"rename", "delete"}) : frozen[op].file = f}

Closed == [draft |-> None, gen |-> 0, text |-> 0]
Unopened(v) == views[v] = Closed /\ \A d \in DraftIds : Exists(d) => drafts[d].session # v

(* The view's lease on the draft: writes of older views are refused. *)
Current(v) == LET d == views[v].draft IN
                  IF d = None THEN FALSE ELSE IF Exists(d) THEN drafts[d].session = v ELSE FALSE

(* A draft of a note that is not in the vault yet, by create_with_content  *)
(* or by copy_as                                                           *)
NewDraft(p, v, text) == [file |-> None, path |-> p, base |-> 0, gen |-> 1, saved |-> 0,
                         text |-> text, session |-> v]
Free(p) == LiveAt(p) = {} /\ DraftAt(p) = {}
Shown(v, d, x) == [views EXCEPT ![v] = [draft |-> d, gen |-> x.gen, text |-> x.text]]
Create(d, p, v) ==
    /\ ~Exists(d) /\ Unopened(v) /\ Free(p) /\ CanType
    /\ drafts' = [drafts EXCEPT ![d] = NewDraft(p, v, NextText)]
    /\ from' = Typed(0)
    /\ views' = Shown(v, d, drafts'[d])
    /\ InTheVault /\ UNCHANGED <<frozen, dropped>> /\ Calm
CopyAs(w, d, p, v) ==
    /\ Current(w) /\ ~Exists(d) /\ Unopened(v) /\ Free(p)
    /\ drafts' = [drafts EXCEPT ![d] = NewDraft(p, v, drafts[views[w].draft].text)]
    /\ views' = Shown(v, d, drafts'[d])
    /\ InTheVault /\ UNCHANGED <<frozen, from, dropped>> /\ Calm

(* open_note: a recovered draft with changes is not replaced by the disk *)
Reusable(d) == Dirty(drafts[d]) \/ PendingSave(d) # {}
(* Defect: a draft that is kept takes the present file as its base. *)
DefectKept(d, f, v) == [drafts EXCEPT ![d].session = v, ![d].base = vault[f].text]
Kept(d, f, v) == [drafts EXCEPT ![d].session = v]
FromDisk(f, v) == [file |-> f, path |-> vault[f].path, base |-> vault[f].text, gen |-> 0,
                   saved |-> 0, text |-> vault[f].text, session |-> v]
OpenNote(f, v) ==
    /\ Unopened(v)
    /\ InTheVault /\ UNCHANGED <<frozen, from, dropped>> /\ Calm
    /\ \/ \E d \in DraftOf(f) :
            /\ \/ Reusable(d) /\ drafts' = Kept(d, f, v)
               \/ /\ ~Reusable(d) /\ PathOf(f) # None /\ DraftAt(PathOf(f)) \subseteq {d}
                  /\ drafts' = [drafts EXCEPT ![d].path = vault[f].path, ![d].base = vault[f].text,
                                              ![d].text = vault[f].text, ![d].session = v]
            /\ views' = Shown(v, d, drafts'[d])
       \/ /\ DraftOf(f) = {} /\ PathOf(f) # None /\ DraftAt(PathOf(f)) = {}
          /\ \E d \in DraftIds :
               /\ ~Exists(d) /\ drafts' = [drafts EXCEPT ![d] = FromDisk(f, v)]
               /\ views' = Shown(v, d, drafts'[d])

(* persist: a newer generation of the view's text; the reply may be lost *)
Persist(v) ==
    /\ CanType /\ Current(v)
    /\ LET d == views[v].draft
           gen == views[v].gen + 1
       IN /\ gen > drafts[d].gen
          /\ drafts' = [drafts EXCEPT ![d].gen = gen, ![d].text = NextText]
          /\ from' = Typed(views[v].text)
          /\ \/ Calm /\ views' = [views EXCEPT ![v].gen = gen, ![v].text = NextText]
             \/ Mishap /\ UNCHANGED views
    /\ InTheVault /\ UNCHANGED <<frozen, dropped>>

-----------------------------------------------------------------------------
(* Receipts. *)

(* Defect: a receipt acknowledges what was typed since. *)
DefectSavedAs(x, i) == x.gen
SavedAs(x, i) == i.gen
(* A late receipt may acknowledge old text, but not a newer base. *)
Acknowledges(x, i) == x.base = i.expected /\ x.saved <= i.gen

(* Defect: a late receipt of a deletion removes later typing. *)
DefectRemovable(x) == TRUE
Removable(x) == ~Dirty(x)

AckedAs(op, f) ==
    LET i == frozen[op] IN
    [d \in DraftIds |->
        IF ~Exists(d) THEN None ELSE
        LET x == drafts[d] IN
        CASE i.kind = "save" /\ d = i.draft /\ Acknowledges(x, i) ->
                [x EXCEPT !.file = f, !.base = i.text, !.saved = SavedAs(x, i)]
          [] i.kind = "rename" /\ x.file = f /\ x.path = i.path -> [x EXCEPT !.path = i.dest]
          [] i.kind = "delete" /\ x.file = f /\ Removable(x) -> None
          [] OTHER -> x]
Acked(op) == AckedAs(op, operations[op].file)

(* path and file_id are UNIQUE columns: the transaction may be refused. *)
Unique(ds) == \A d, e \in DraftIds :
    d # e /\ ds[d] # None /\ ds[e] # None =>
        /\ ds[d].path # ds[e].path
        /\ ds[d].file = None \/ ds[d].file # ds[e].file

(* observe_save and observe_mutation read the receipt and run nothing. *)
Receipt(op) == operations[op].state = "committed" /\ frozen[op].state # "committed"
                 /\ frozen[op].kind # "image"
Marked(op, state) == [frozen EXCEPT ![op].state = state]
Acknowledge(op) == drafts' = Acked(op) /\ frozen' = Marked(op, "committed")
Observe(op) ==
    /\ Receipt(op) /\ Unique(Acked(op)) /\ Acknowledge(op)
    /\ InTheVault /\ UNCHANGED <<views, from, dropped>> /\ Calm

(* draft_view, once the receipts are observed: the editor takes the draft, *)
(* with a new lease when it is opened and with its own when it only asks.  *)
Settled(d) ==
    \A op \in PendingSave(d) \cup (IF drafts[d].file = None THEN {}
                                   ELSE PendingMutation(drafts[d].file)) : ~Receipt(op)
OpenDraft(d, v) ==
    /\ Exists(d) /\ Unopened(v) /\ Settled(d)
    /\ drafts' = [drafts EXCEPT ![d].session = v]
    /\ views' = Shown(v, d, drafts'[d])
    /\ InTheVault /\ UNCHANGED <<frozen, from, dropped>> /\ Calm
DraftStatus(v) ==
    /\ Current(v) /\ Settled(views[v].draft)
    /\ views' = Shown(v, views[v].draft, drafts[views[v].draft])
    /\ InTheVault /\ UNCHANGED <<drafts, frozen, from, dropped>> /\ Calm

-----------------------------------------------------------------------------
(* Saving. *)

Insert(op, i) == frozen' = [frozen EXCEPT ![op] = i]
MayFreeze(d) == PendingImage(d) = {} /\ PendingSave(d) = {}
(* prepare_save freezes the text, and at most one save of a draft. *)
PrepareSave(v, op) ==
    /\ frozen[op] = BlankIntent /\ Current(v)
    /\ LET d == views[v].draft
           x == drafts[d]
       IN /\ MayFreeze(d) /\ views[v].gen = x.gen /\ Dirty(x)
          /\ Insert(op, [BlankIntent EXCEPT !.kind = "save", !.state = "prepared", !.draft = d,
                         !.gen = x.gen, !.file = x.file, !.path = x.path, !.expected = x.base,
                         !.text = x.text])
    /\ InTheVault /\ UNCHANGED <<drafts, views, from, dropped>> /\ Calm

(* The vault carries the operation out.  The receipt is acknowledged at    *)
(* once unless the application stops, or the second database refuses; a    *)
(* stop or a failure may also come between acceptance and commit.          *)
CarryOut(op, done) ==
    \/ Calm /\ Commit(op) /\ drafts' = done.drafts /\ frozen' = done.frozen
    \/ Mishap /\ Commit(op) /\ UNCHANGED <<drafts, frozen>>
    \/ Mishap /\ Admit(op) /\ UNCHANGED <<drafts, frozen>>

Acknowledged(op) ==
    LET ds == AckedAs(op, ResultFile(frozen[op])) IN
    IF Unique(ds) THEN [drafts |-> ds, frozen |-> Marked(op, "committed")]
    ELSE [drafts |-> drafts, frozen |-> frozen]

(* apply_save, first attempt: a known rejection ends the intent *)
ApplySave(op) ==
    /\ op \in Prepared({"save"}) /\ operations[op].state = "none"
    /\ LET i == frozen[op] IN
       /\ i.file # None => PathOf(i.file) = i.path
       /\ \/ Accepts(i) /\ CarryOut(op, Acknowledged(op))
          \/ /\ TextAt(i.path) # i.expected /\ Calm
             /\ frozen' = Marked(op, "rejected") /\ UNCHANGED <<drafts, vaultVars>>
    /\ UNCHANGED <<views, from, dropped>>

(* The same call again, or the next start: recover() settles the journal. *)
ResumeIntent(op) ==
    /\ op \in Unsettled /\ RecoverIntent(op) /\ Calm
    /\ UNCHANGED <<drafts, frozen, views, from, dropped>>

(* Defect: an operation that the vault has accepted can be cancelled.      *)
DefectCancellable(op) == TRUE
(* cancel_save, cancel_mutation: never once the vault knows the operation; *)
(* cancel_image: always, and its object stays.                             *)
Cancellable(op) == operations[op].state = "none" \/ frozen[op].kind = "image"
CancelIntent(op) ==
    /\ frozen[op].state = "prepared" /\ Cancellable(op)
    /\ frozen' = Marked(op, "cancelled")
    /\ InTheVault /\ UNCHANGED <<drafts, views, from, dropped>> /\ Calm

(* discard: with its intents, or not at all *)
Discard(v) ==
    /\ Current(v)
    /\ LET d == views[v].draft
           pending == PendingSave(d) \cup PendingImage(d)
       IN /\ \A op \in pending : Cancellable(op) \/ (Receipt(op) /\ Unique(Acked(op)))
          /\ frozen' = [op \in IntentIds |-> IF op \notin pending THEN frozen[op] ELSE
                 [frozen[op] EXCEPT !.state = IF Receipt(op) THEN "committed" ELSE "cancelled"]]
          /\ drafts' = [drafts EXCEPT ![d] = None]
          /\ dropped' = dropped \cup {drafts[d].text}
    /\ InTheVault /\ UNCHANGED <<views, from>> /\ Mishap

-----------------------------------------------------------------------------
(* Renaming and deleting a note. *)

(* require_clean_file *)
Clean(f) == \A d \in DraftOf(f) :
    ~Dirty(drafts[d]) /\ PendingSave(d) = {} /\ PendingImage(d) = {}

PrepareMutation(kind, f, p, op) ==
    /\ frozen[op] = BlankIntent /\ PendingMutation(f) = {} /\ Clean(f) /\ vault[f].live
    /\ Insert(op, [BlankIntent EXCEPT !.kind = kind, !.state = "prepared", !.file = f,
                   !.path = vault[f].path, !.dest = p, !.expected = vault[f].text])
    /\ InTheVault /\ UNCHANGED <<drafts, views, from, dropped>> /\ Calm

ApplyMutation(op) ==
    /\ op \in Prepared({"rename", "delete"}) /\ operations[op].state = "none"
    /\ LET i == frozen[op] IN
       /\ Clean(i.file) /\ PathOf(i.file) = i.path
       /\ \/ Accepts(i) /\ CarryOut(op, Acknowledged(op))
          \/ /\ TextAt(i.path) # i.expected /\ Calm
             /\ frozen' = Marked(op, "rejected") /\ UNCHANGED <<drafts, vaultVars>>
    /\ UNCHANGED <<views, from, dropped>>

-----------------------------------------------------------------------------
(* Inserting an image. *)

PrepareImage(v, op, image) ==
    /\ frozen[op] = BlankIntent /\ Current(v) /\ CanType
    /\ LET d == views[v].draft
           x == drafts[d]
       IN /\ MayFreeze(d) /\ views[v].gen = x.gen
          /\ x.file # None => PendingMutation(x.file) = {}
          /\ Insert(op, [BlankIntent EXCEPT !.kind = "image", !.state = "prepared", !.draft = d,
                         !.gen = x.gen, !.path = x.path, !.expected = x.text, !.text = NextText,
                         !.image = image])
          /\ from' = Typed(x.text)
    /\ InTheVault /\ UNCHANGED <<drafts, views, dropped>> /\ Calm

(* Later text is never replaced by the frozen one. *)
Untouched(x, i) == x.gen = i.gen /\ x.text = i.expected /\ x.path = i.path
Linked(op) ==
    [drafts |-> [drafts EXCEPT ![frozen[op].draft].text = frozen[op].text,
                               ![frozen[op].draft].gen = @ + 1],
     frozen |-> Marked(op, "committed")]
Link(op) == drafts' = Linked(op).drafts /\ frozen' = Linked(op).frozen
(* apply_image: an operation that the vault knows is repeated; otherwise   *)
(* workspace.assets.write stores the image, or answers that it is there    *)
(* already and leaves no operation.                                        *)
HasImage(op) == frozen[op].image \in assets
ApplyImage(op) ==
    /\ op \in Prepared({"image"}) /\ Exists(frozen[op].draft)
    /\ Untouched(drafts[frozen[op].draft], frozen[op])
    /\ \/ operations[op].state = "none" /\ ~HasImage(op) /\ CarryOut(op, Linked(op))
       \/ operations[op].state = "none" /\ HasImage(op) /\ Calm /\ Link(op) /\ UNCHANGED vaultVars
       \/ operations[op].state = "pending" /\ Calm /\ Commit(op) /\ Link(op)
       \/ operations[op].state = "committed" /\ Calm /\ Link(op) /\ UNCHANGED vaultVars
    /\ UNCHANGED <<views, from, dropped>>

-----------------------------------------------------------------------------
(* The application starts again: its editors are gone. *)
Restart ==
    /\ Mishap
    /\ views' = [v \in Views |-> Closed]
    /\ InTheVault /\ UNCHANGED <<drafts, frozen, from, dropped>>

-----------------------------------------------------------------------------
DraftingInit ==
    /\ vault = [f \in FileIds |-> IF f = First THEN [path |-> Home, text |-> 1, live |-> TRUE]
                                  ELSE NoFile]
    /\ operations = [op \in IntentIds |-> NoOperation] /\ assets \in SUBSET Images
    /\ drafts = [d \in DraftIds |-> None] /\ frozen = [op \in IntentIds |-> BlankIntent]
    /\ views = [v \in Views |-> Closed]
    /\ from = [t \in {1} |-> {}] /\ written = {1} /\ dropped = {} /\ mishaps = 0

Editing ==
    \/ \E d \in DraftIds, v \in Views :
          \/ OpenDraft(d, v)
          \/ \E p \in Paths : Create(d, p, v) \/ \E w \in Views : CopyAs(w, d, p, v)
    \/ \E v \in Views : \/ Persist(v) \/ DraftStatus(v) \/ Discard(v)
                        \/ \E f \in FileIds : OpenNote(f, v)
Intending ==
    \/ \E op \in IntentIds :
          \/ Observe(op) \/ ApplySave(op) \/ ResumeIntent(op) \/ CancelIntent(op)
          \/ ApplyMutation(op) \/ ApplyImage(op)
          \/ \E v \in Views : PrepareSave(v, op) \/ \E image \in Images : PrepareImage(v, op, image)
          \/ \E f \in FileIds : PrepareMutation("delete", f, None, op)
                                \/ \E p \in Paths : PrepareMutation("rename", f, p, op)
World ==
    \/ \E f \in FileIds : RemoteEdit(f) \/ \E p \in Paths : RemoteMove(f, p)
    \/ Restart
DraftingNext == Editing \/ Intending \/ World
DraftingSpec == DraftingInit /\ [][DraftingNext]_draftingVars

-----------------------------------------------------------------------------
(* The shape of the state, with what the unique columns and the partial    *)
(* indexes of the database keep: one draft per path and per file, one      *)
(* prepared save or image per draft, one prepared mutation per file.       *)
DraftTypeOK ==
    /\ \A d \in DraftIds : Exists(d) =>
          /\ drafts[d].path \in Paths /\ drafts[d].file \in FileIds \cup {None}
          /\ drafts[d].saved <= drafts[d].gen /\ drafts[d].session \in Views
          /\ Cardinality(PendingSave(d) \cup PendingImage(d)) <= 1
    /\ Unique(drafts)
    /\ \A f \in FileIds : Cardinality(PendingMutation(f)) <= 1
    /\ \A op \in IntentIds :
          /\ frozen[op].state \in {"none", "prepared", "committed", "rejected", "cancelled"}
          /\ operations[op].state \in {"none", "pending", "committed", "conflict"}

(* Text that a draft holds is never lost: a draft changes by typing over   *)
(* its text or by inserting an image into it, and goes away, or is read    *)
(* again from the disk, only when its text is in the vault or the user     *)
(* discarded it - however late a receipt of a save, a rename or a deletion *)
(* arrives (observe_save, observe_mutation, open_note, apply_image).       *)
TextsSurvive ==
    [][\A d \in DraftIds : Exists(d) =>
          LET t == drafts[d].text IN
          \/ t \in written' \cup dropped'
          \/ IF drafts'[d] = None THEN FALSE
             ELSE t \in {drafts'[d].text} \cup from'[drafts'[d].text]]_draftingVars

(* Whatever replaces the text of a note was typed over that text: a save   *)
(* never overwrites a version that its author has not had in the editor.   *)
NoSilentOverwrite ==
    [][\A f \in FileIds : vault[f].live /\ vault'[f].live =>
          vault[f].text \in {vault'[f].text} \cup from'[vault'[f].text]]_draftingVars

(* A draft that is shown as saved is in the vault, down to its last        *)
(* character typed while the save was on its way.                          *)
SavedMeansStored == \A d \in DraftIds : Exists(d) =>
    Dirty(drafts[d]) \/ drafts[d].text \in written

(* The intent tells what the vault did: one that was cancelled or rejected *)
(* is never carried out; one that is committed was, or is an image that    *)
(* the vault had already.  A committed image is in the vault and leaves no *)
(* operation half-way.                                                     *)
IntentsTellTheTruth == \A op \in IntentIds :
    /\ frozen[op].state \in {"cancelled", "rejected"} /\ frozen[op].kind # "image" =>
          operations[op].state = "none"
    /\ frozen[op].state = "committed" =>
          IF frozen[op].kind = "image"
          THEN frozen[op].image \in assets /\ operations[op].state \in {"none", "committed"}
          ELSE operations[op].state = "committed"
=============================================================================

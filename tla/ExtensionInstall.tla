-------------------------- MODULE ExtensionInstall --------------------------
(***************************************************************************)
(* Installing extensions: staged packages, reviewed groups, the pointer    *)
(* switch and its health check, rollback, removal and recovery             *)
(* (extension_store.rs, extension_store/, extension_transaction.rs,        *)
(* extension_activation.rs, extension_commands.rs).                        *)
(*                                                                         *)
(* A package model value stands for one release together with one          *)
(* configuration, so it is also the revision of a pointer: the code's      *)
(* revision is the hash of the target.  Database transactions are atomic;  *)
(* the worker that installs a group (`act`) takes many steps, and other    *)
(* commands, the instances themselves and crashes come in between.         *)
(***************************************************************************)
EXTENDS Naturals, FiniteSets, Sequences

CONSTANTS
    Slots,          \* one per (vault, source, namespace, package id)
    Packages,       \* releases with their configuration
    Roots,          \* the packages the user asks for (others come as dependencies)
    SlotOf,         \* the slot a package belongs to
    Version,        \* the order of the releases of a slot
    Needs,          \* the slots of the dependencies of a package
    Accepts,        \* pairs <<p, q>>: q is in the range p asks for
    Programs,       \* packages that run a process (requires_runtime)
    Ops,            \* operation ids
    Ids,            \* names of instances (a bound on those alive at once)
    None,
    Shipped,        \* packages staged by an earlier session
    Installed,      \* those of them that are installed and prepared
    MaxEvents       \* bound on crashes, removals, stops and faults

Pointers == [pkg : Packages, pending : Ops \cup {None}]
Changes == UNION {[D -> [to : Packages, expected : Packages \cup {None}]] : D \in SUBSET Slots}
Transactions == [changes : Changes, state : {"checking", "complete", "rolled_back"}]
Reviews == [root : Packages, changes : Changes]
Instances == [slot : Slots, pkg : Packages, op : Ops \cup {None}, valid : BOOLEAN,
              state : {"starting", "ready", "stopping", "stopped", "failed", "dirty"}]
Downloads == [pkg : Packages, pc : {"download", "record"}]
Groups == [to : UNION {[D -> Packages] : D \in SUBSET Slots},
           base : UNION {[D -> Packages \cup {None}] : D \in SUBSET Slots},
           state : {"offered", "installed", "dropped"}]
Removals == [kind : {"vault", "uninstall"}, slot : Slots \cup {None}, pkg : Packages \cup {None}]

ASSUME InstallAssumption ==
    /\ SlotOf \in [Packages -> Slots]
    /\ Version \in [Packages -> Nat]
    /\ Needs \in [Packages -> SUBSET Slots]
    /\ Programs \subseteq Packages /\ Roots \subseteq Packages
    /\ Shipped \subseteq Packages /\ Installed \subseteq Shipped
    /\ \A p, q \in Installed : SlotOf[p] = SlotOf[q] => p = q
    /\ MaxEvents \in Nat

\* No row, handle or name is absent.
ASSUME NoneIsAbsent ==
    /\ None \notin Packages \cup Ops \cup Slots \cup Ids
    /\ None \notin Pointers \cup Transactions \cup Reviews \cup Groups
    /\ None \notin Instances \cup Downloads \cup Removals

VARIABLES
    objects,    \* archives in objects/
    staged,     \* rows of versions
    prepared,   \* rows of prepared_packages, each with its verified tree
    trusted,    \* the confirmed setting of the source enables its key
    blocked,    \* extension_blocks: releases known to be withdrawn
    active,     \* extension_active: pointer and pending operation of a slot
    txns,       \* extension_transactions
    confirmed,  \* extension_confirmations
    withdrawn,  \* releases the source withdrew
    shown,      \* the preview the user last looked at
    staging,    \* the download that holds the store, and how far it is
    act,        \* the installing worker (it holds the activation lock)
    endpoints,  \* the published instance of a slot
    inst,       \* the instances
    registry,   \* the instances the registry still owns
    vault,      \* the vault of the slots is the open one
    removal,    \* the running extension_uninstall, and how far it is
    removed,    \* some package was ever removed
    events      \* how many of the bounded events happened

durable == <<objects, staged, prepared, trusted, blocked, active, txns, confirmed>>
runtime == <<endpoints, inst, registry>>
background == <<withdrawn, shown, staging, vault, removal, removed, events>>
vars == <<durable, runtime, act, background>>

Idle == [pc |-> "idle", op |-> None, changes |-> None, todo |-> {}, started |-> {},
         required |-> {}, stopped |-> {}, slot |-> None, id |-> None, permit |-> FALSE]

Alive(i) == inst[i] # None /\ inst[i].state \in {"starting", "ready", "stopping"}
Executing(i) == inst[i] # None /\ inst[i].state = "ready"
StoreFree == staging = None /\ act.pc \notin {"check", "switch"}
Leaving == removal # None /\ removal.kind = "vault"     \* holds the workspace lock
Pkg(s) == IF active[s] = None THEN None ELSE active[s].pkg
PendingOp(s) == IF active[s] = None THEN None ELSE active[s].pending
----------------------------------------------------------------------------
(* Staging: an online check, the archive on disk, then one transaction.    *)

Event == events < MaxEvents /\ events' = events + 1

\* The source's setting and the remembered withdrawals (check_not_revoked).
Permitted(p) == trusted /\ p \notin blocked

\* remember_revocation: a withdrawal the source reports is kept for ever.
Remember(p) == blocked' = blocked \cup {p}

\* Defect: the row is written before the archive.
DefectStageCheck(p) ==
    /\ StoreFree /\ p \notin staged
    /\ staging' = [pkg |-> p, pc |-> "record"]
    /\ UNCHANGED <<durable, runtime, withdrawn, shown, act, vault, removal, removed, events>>

StageCheck(p) ==
    /\ StoreFree /\ p \notin staged
    /\ Permitted(p)
    /\ IF p \in withdrawn
       THEN Remember(p) /\ UNCHANGED staging
       ELSE staging' = [pkg |-> p, pc |-> "download"] /\ UNCHANGED blocked
    /\ UNCHANGED <<objects, staged, prepared, trusted, active, txns, confirmed,
                   runtime, withdrawn, shown, act, vault, removal, removed, events>>

StoreObject ==
    /\ staging # None /\ staging.pc = "download"
    /\ objects' = objects \cup {staging.pkg}
    /\ staging' = [staging EXCEPT !.pc = "record"]
    /\ UNCHANGED <<staged, prepared, trusted, blocked, active, txns, confirmed,
                   runtime, withdrawn, shown, act, vault, removal, removed, events>>

RecordStage ==
    /\ staging # None /\ staging.pc = "record"
    /\ staged' = staged \cup {staging.pkg}
    /\ staging' = None
    /\ UNCHANGED <<objects, prepared, trusted, blocked, active, txns, confirmed,
                   runtime, withdrawn, shown, act, vault, removal, removed, events>>

\* The request is cancelled, times out, or the source does not answer.
StageFails ==
    /\ staging # None
    /\ staging' = None
    /\ UNCHANGED <<durable, runtime, withdrawn, shown, act, vault, removal, removed, events>>
----------------------------------------------------------------------------
(* The plan of a group and its review.                                     *)

Plans(root) ==
    {g \in SUBSET staged :
        /\ root \in g
        /\ \A p, q \in g : SlotOf[p] = SlotOf[q] => p = q
        /\ \A p \in g : \A s \in Needs[p] :
             \E q \in g : SlotOf[q] = s /\ <<p, q>> \in Accepts
        /\ \A q \in g \ {root} : \E p \in g : SlotOf[q] \in Needs[p]}

\* The solver tries the newest releases first.
Newer(h, g) ==
    /\ \A p \in g, q \in h : SlotOf[p] = SlotOf[q] => Version[q] >= Version[p]
    /\ \E p \in g, q \in h : SlotOf[p] = SlotOf[q] /\ Version[q] > Version[p]
Newest(root) == {g \in Plans(root) : \A h \in Plans(root) : ~Newer(h, g)}
Plan(root) == CHOOSE g \in Plans(root) : Newest(root) # {} => g \in Newest(root)

Usable(p) == p \in staged \cap prepared /\ Permitted(p)

PlannedChanges(g) ==
    [s \in {SlotOf[p] : p \in g} |->
        [to |-> CHOOSE p \in g : SlotOf[p] = s, expected |-> Pkg(s)]]

Previewable(root) ==
    /\ root \in staged /\ Plans(root) # {}
    /\ \A p \in Plan(root) : Permitted(p)
    /\ \A p \in Plan(root) : PendingOp(SlotOf[p]) = None

\* prepare: trees are unpacked and verified one by one; a failure or a stop
\* leaves some of them.
Prepare(g) == \E some \in SUBSET (g \ prepared) : prepared' = prepared \cup some

Preview(root) ==
    /\ StoreFree /\ vault
    /\ Previewable(root)
    /\ Prepare(Plan(root))
    /\ shown' = IF Plan(root) \subseteq prepared'
                THEN [root |-> root, changes |-> PlannedChanges(Plan(root))] ELSE None
    /\ UNCHANGED <<objects, staged, trusted, blocked, active, txns, confirmed,
                   runtime, withdrawn, staging, act, vault, removal, removed, events>>
----------------------------------------------------------------------------
(* Confirming a review: the plan is locked to the operation id, checked    *)
(* online package by package, and switched in one transaction.            *)

Worker(op, changes) ==
    act' = [Idle EXCEPT !.pc = "check", !.op = op, !.todo = DOMAIN changes, !.changes = changes]

\* lock_confirmed_plan: the review the user looked at must still describe the
\* store; a repeated id keeps the plan that was confirmed with it.
LockPlan(op) ==
    /\ act.pc = "idle" /\ StoreFree /\ vault
    /\ confirmed[op] = None /\ shown # None
    /\ Previewable(shown.root) /\ PlannedChanges(Plan(shown.root)) = shown.changes
    /\ confirmed' = [confirmed EXCEPT ![op] = shown]
    /\ shown' = None
    /\ Worker(op, shown.changes)
    /\ UNCHANGED <<objects, staged, prepared, trusted, blocked, active, txns,
                   runtime, withdrawn, staging, vault, removal, removed, events>>

RepeatConfirm(op) ==
    /\ act.pc = "idle" /\ StoreFree /\ vault
    /\ confirmed[op] # None
    /\ Worker(op, confirmed[op].changes)
    /\ UNCHANGED <<durable, runtime, background>>

\* rollback_changes: every slot of a completed group still has what it installed.
Reversible(op) ==
    /\ txns[op] # None /\ txns[op].state = "complete"
    /\ \A s \in DOMAIN txns[op].changes :
         /\ txns[op].changes[s].expected # None
         /\ active[s] # None /\ active[s].pending = None
         /\ active[s].pkg = txns[op].changes[s].to

RollbackChanges(op) ==
    [s \in DOMAIN txns[op].changes |->
        [to |-> txns[op].changes[s].expected, expected |-> Pkg(s)]]

\* rollback_reviewed, confirmed with the preview of the moment.
Rollback(op, installed) ==
    /\ act.pc = "idle" /\ StoreFree /\ vault
    /\ op # installed
    /\ Reversible(installed)
    /\ \A s \in DOMAIN RollbackChanges(installed) : Usable(RollbackChanges(installed)[s].to)
    /\ Worker(op, RollbackChanges(installed))
    /\ UNCHANGED <<durable, runtime, background>>

CheckOnline(s) ==
    /\ act.pc = "check" /\ s \in act.todo
    /\ Permitted(act.changes[s].to)
    /\ IF act.changes[s].to \in withdrawn
       THEN /\ Remember(act.changes[s].to)
            /\ act' = [act EXCEPT !.pc = "failed"]
       ELSE /\ act' = [act EXCEPT !.todo = @ \ {s},
                                  !.pc = IF act.todo = {s} THEN "switch" ELSE "check"]
            /\ UNCHANGED blocked
    /\ UNCHANGED <<objects, staged, prepared, trusted, active, txns, confirmed,
                   runtime, background>>

\* The source is unreachable, the answer is stale, trust or a block refuses,
\* or the request is cancelled: the outcome is an error.
CheckFails ==
    /\ act.pc \in {"check", "switch"}
    /\ act' = [act EXCEPT !.pc = "failed"]
    /\ UNCHANGED <<durable, runtime, background>>

\* Defect: the base of the review is not compared again.
DefectSwitchable == \A s \in DOMAIN act.changes : PendingOp(s) = None

Switchable ==
    \A s \in DOMAIN act.changes :
        /\ PendingOp(s) = None
        /\ Pkg(s) = act.changes[s].expected

Verified == \A s \in DOMAIN act.changes :
              act.changes[s].to \in (staged \cap prepared) \ blocked

\* A known operation id answers with its receipt, whatever happened since.
Replayed ==
    /\ txns[act.op] # None
    /\ txns[act.op].changes = act.changes
    /\ UNCHANGED <<active, txns>>
    /\ act' = IF txns[act.op].state = "checking" THEN [act EXCEPT !.pc = "verify"] ELSE Idle

Switched ==
    /\ txns[act.op] = None
    /\ Switchable
    /\ txns' = [txns EXCEPT ![act.op] = [changes |-> act.changes, state |-> "checking"]]
    /\ active' = [s \in Slots |-> IF s \in DOMAIN act.changes
                                  THEN [pkg |-> act.changes[s].to, pending |-> act.op]
                                  ELSE active[s]]
    \* A cancellation may still overtake the committed switch.
    /\ \E pc \in {"verify", "failed"} : act' = [act EXCEPT !.pc = pc]

Switch ==
    /\ act.pc = "switch" /\ Verified
    /\ Replayed \/ Switched
    /\ UNCHANGED <<objects, staged, prepared, trusted, blocked, confirmed,
                   runtime, background>>
----------------------------------------------------------------------------
(* extension_transaction::finish: the whole group, in one transaction.     *)

FinishedPointers(op, healthy) ==
    [s \in Slots |->
        IF s \notin DOMAIN txns[op].changes THEN active[s]
        ELSE IF healthy THEN [active[s] EXCEPT !.pending = None]
        ELSE IF txns[op].changes[s].expected = None THEN None
        ELSE [pkg |-> txns[op].changes[s].expected, pending |-> None]]

Finish(op, healthy) ==
    /\ active' = FinishedPointers(op, healthy)
    /\ txns' = [txns EXCEPT ![op].state = IF healthy THEN "complete" ELSE "rolled_back"]

Unfinished(op) == txns[op] # None /\ txns[op].state = "checking"

\* finish_reviewed with an error: only a pending switch is restored.
AbandonReview ==
    /\ act.pc = "failed" /\ staging = None
    /\ IF Unfinished(act.op) THEN Finish(act.op, FALSE) ELSE UNCHANGED <<active, txns>>
    /\ act' = Idle
    /\ UNCHANGED <<objects, staged, prepared, trusted, blocked, confirmed,
                   runtime, background>>
----------------------------------------------------------------------------
(* Instances.  The registry names one instance per slot; a handle is        *)
(* forgotten (None) once nothing refers to it.                             *)

Referenced(i) == \/ i \in registry \cup act.started \cup act.required \cup {act.id}
                 \/ \E s \in Slots : endpoints[s] = i
Kept(new) == [i \in Ids |-> IF Referenced(i)' THEN new[i] ELSE None]

ReadyFor(i, p) == inst[i] # None /\ inst[i].pkg = p /\ inst[i].state = "ready"

\* stop_and_join waits 20 s for the worker: it may end cleanly, end with its
\* sandbox not cleaned up, or not end.  A foreign handle is only inspected.
JoinStates(i) ==
    IF i \notin registry \/ ~Alive(i) THEN {inst[i].state}
    ELSE {"stopped", "stopping"} \cup (IF events < MaxEvents THEN {"dirty"} ELSE {})
Joined(state) == state \in {"stopped", "failed"}

\* Registry::start: reap, refuse a second instance of the slot, spawn.
Reaped == {i \in registry : ~Joined(inst[i].state)}
Occupied(s) == \E i \in Reaped : inst[i].slot = s
Quarantined(s) == \E i \in Reaped : inst[i].slot = s /\ inst[i].state \in {"stopping", "dirty"}
Fresh(s, p, op, valid) ==
    [slot |-> s, pkg |-> p, op |-> op, valid |-> valid, state |-> "starting"]

Started(s, p, op, valid, pc) ==
    \E i \in Ids :
        /\ ~Referenced(i)
        /\ registry' = Reaped \cup {i}
        /\ act' = [act EXCEPT !.pc = pc, !.slot = s, !.id = i]
        /\ inst' = Kept([inst EXCEPT ![i] = Fresh(s, p, op, valid)])

\* The worker checks the pointer, trust and permit again before it resumes the
\* process; initialising it fails as EndInstance does.
ResumeInstance(i) ==
    /\ inst[i] # None /\ inst[i].state = "starting" /\ staging = None
    /\ act.pc \notin {"check", "switch"}
    /\ active[inst[i].slot] = [pkg |-> inst[i].pkg, pending |-> inst[i].op]
    /\ Usable(inst[i].pkg) /\ inst[i].valid
    /\ inst' = [inst EXCEPT ![i].state = "ready"]
    /\ UNCHANGED <<durable, endpoints, registry, withdrawn, shown, staging, act,
                   vault, removal, removed, events>>

\* The process ends, a check of its worker fails, or a requested stop is done.
EndInstance(i) ==
    /\ Alive(i)
    /\ inst' = [inst EXCEPT ![i].state = IF @ = "stopping" THEN "stopped" ELSE "failed"]
    /\ UNCHANGED <<durable, endpoints, registry, withdrawn, shown, staging, act,
                   vault, removal, removed, events>>
----------------------------------------------------------------------------
(* activate_pending: verify the group, replace its instances one slot at a *)
(* time, commit it as a whole, or undo.                                     *)

Targets(op) == Unfinished(op) /\ \A s \in DOMAIN txns[op].changes :
                 active[s] = [pkg |-> txns[op].changes[s].to, pending |-> op]
Healthy(op) == \A s \in DOMAIN txns[op].changes : Usable(txns[op].changes[s].to)

Verify ==
    /\ act.pc = "verify" /\ staging = None /\ ~Leaving
    /\ act' = IF vault /\ Targets(act.op) /\ Healthy(act.op)
              THEN [act EXCEPT !.pc = "slots", !.todo = DOMAIN act.changes, !.permit = TRUE]
              ELSE [act EXCEPT !.pc = "undo"]
    /\ UNCHANGED <<durable, runtime, background>>

Target == act.changes[act.slot].to

\* Pick the next slot: a ready instance of the same revision is kept.
NextSlot(s) ==
    /\ act.pc = "slots" /\ s \in act.todo /\ vault /\ ~Leaving
    /\ LET keep == endpoints[s] # None /\ act.changes[s].to \in Programs
                   /\ ReadyFor(endpoints[s], act.changes[s].to)
           skip == endpoints[s] = None /\ act.changes[s].to \notin Programs
       IN act' = [act EXCEPT !.todo = @ \ {s},
                             !.required = IF keep THEN @ \cup {endpoints[s]} ELSE @,
                             !.slot = s,
                             !.pc = IF keep \/ skip THEN "slots"
                                    ELSE IF endpoints[s] # None THEN "replace" ELSE "start"]
    /\ UNCHANGED <<durable, runtime, background>>

CountDirty(state, i) ==
    events' = IF state = "dirty" /\ inst[i].state # "dirty" THEN events + 1 ELSE events

\* stop the predecessor of act.slot; pc is where a clean stop continues.
StopOld(pc) ==
    LET i == endpoints[act.slot] IN
    \E state \in JoinStates(i) :
        /\ CountDirty(state, i)
        /\ registry' = IF Joined(state) THEN registry \ {i} ELSE registry
        /\ endpoints' = IF Joined(state) THEN [endpoints EXCEPT ![act.slot] = None] ELSE endpoints
        /\ act' = IF Joined(state)
                  THEN [act EXCEPT !.pc = pc, !.stopped = @ \cup {act.slot}]
                  ELSE IF act.pc = "unload" THEN Idle
                  ELSE [act EXCEPT !.pc = IF i \in registry THEN "cleanup" ELSE "undo"]
        /\ inst' = Kept([inst EXCEPT ![i].state = state])

StopPredecessor ==
    /\ act.pc = "replace" /\ endpoints[act.slot] # None
    /\ UNCHANGED <<durable, withdrawn, shown, staging, vault, removal, removed>>
    /\ StopOld(IF Target \in Programs THEN "start" ELSE "slots")

\* The endpoint was disabled or cleared in the meantime.
PredecessorGone ==
    /\ act.pc = "replace" /\ endpoints[act.slot] = None
    /\ act' = [act EXCEPT !.pc = IF Target \in Programs THEN "start" ELSE "slots"]
    /\ UNCHANGED <<durable, runtime, background>>

StartTarget ==
    /\ act.pc = "start"
    /\ UNCHANGED <<durable, endpoints, background>>
    /\ IF act.permit /\ ~Occupied(act.slot)
       THEN Started(act.slot, Target, act.op, TRUE, "await")
       ELSE /\ registry' = Reaped
            /\ act' = [act EXCEPT !.pc = IF act.permit /\ Quarantined(act.slot)
                                         THEN "cleanup" ELSE "undo"]
            /\ inst' = Kept(inst)

TargetReady ==
    /\ act.pc = "await" /\ inst[act.id].state = "ready"
    /\ act' = [act EXCEPT !.pc = "slots", !.id = None, !.started = @ \cup {act.id},
                          !.required = @ \cup {act.id}]
    /\ UNCHANGED <<durable, runtime, background>>

\* The new instance failed, took 15 s, or the request was cancelled.
TargetFails ==
    /\ act.pc = "await"
    /\ UNCHANGED <<durable, endpoints, withdrawn, shown, staging, vault, removal, removed>>
    /\ \E state \in JoinStates(act.id) :
         /\ CountDirty(state, act.id)
         /\ registry' = IF Joined(state) THEN registry \ {act.id} ELSE registry
         /\ act' = [act EXCEPT !.id = None,
                      !.pc = IF Joined(state) \/ act.id \notin registry THEN "undo" ELSE "cleanup"]
         /\ inst' = Kept([inst EXCEPT ![act.id].state = state])

\* Under the workspace, endpoint and store locks.
CommitGroup ==
    /\ act.pc = "slots" /\ act.todo = {} /\ staging = None /\ ~Leaving
    /\ vault /\ Targets(act.op) /\ Healthy(act.op)
    /\ \A s \in DOMAIN act.changes : act.changes[s].to \in Programs =>
         \E i \in act.required : inst[i].slot = s /\ ReadyFor(i, act.changes[s].to)
    /\ Finish(act.op, TRUE)
    /\ UNCHANGED <<objects, staged, prepared, trusted, blocked, confirmed,
                   registry, background>>
    /\ endpoints' = [s \in Slots |-> IF \E i \in act.started : inst[i].slot = s
                                     THEN CHOOSE i \in act.started : inst[i].slot = s
                                     ELSE endpoints[s]]
    /\ act' = Idle /\ inst' = Kept(inst)

\* A cancelled request, another vault, or a group that is not healthy.
ActivationFails ==
    /\ act.pc \in {"slots", "replace", "start"}
    /\ act' = [act EXCEPT !.pc = "undo"]
    /\ UNCHANGED <<durable, runtime, background>>

\* Stop everything this attempt started; the error stays when one cannot be
\* shown to be gone ("cleanup").
UndoStarted ==
    /\ act.pc \in {"undo", "cleanup"}
    /\ UNCHANGED <<durable, endpoints, withdrawn, shown, staging, vault, removal, removed>>
    /\ IF act.started = {}
       THEN /\ act' = IF act.pc = "undo" THEN [act EXCEPT !.pc = "unpoint"] ELSE Idle
            /\ UNCHANGED <<registry, events>> /\ inst' = Kept(inst)
       ELSE \E i \in act.started : \E state \in JoinStates(i) :
              /\ CountDirty(state, i)
              /\ registry' = IF Joined(state) THEN registry \ {i} ELSE registry
              /\ act' = [act EXCEPT !.started = @ \ {i}, !.required = @ \ {i},
                                    !.pc = IF Joined(state) THEN @ ELSE "cleanup"]
              /\ inst' = Kept([inst EXCEPT ![i].state = state])

\* Restore the pointers, then the predecessors that were stopped.
RestorePointers ==
    /\ act.pc = "unpoint" /\ staging = None /\ ~Leaving
    /\ UNCHANGED <<objects, staged, prepared, trusted, blocked, confirmed, endpoints,
                   registry, background>>
    /\ IF Unfinished(act.op)
       THEN /\ Finish(act.op, FALSE)
            /\ act' = IF vault /\ act.stopped # {}
                      THEN [Idle EXCEPT !.pc = "restore", !.todo = act.stopped] ELSE Idle
       ELSE act' = Idle /\ UNCHANGED <<active, txns>>
    /\ inst' = Kept(inst)
----------------------------------------------------------------------------
(* enable_committed, asked for by the user or by an undone installation.   *)

Enabled(s) == active[s] # None /\ active[s].pending = None /\ Usable(active[s].pkg)
             /\ active[s].pkg \in Programs

BeginEnable(s) ==
    /\ staging = None /\ ~Leaving
    /\ \/ act.pc = "idle"
       \/ act.pc = "restore" /\ s \in act.todo
    /\ IF vault /\ Enabled(s) /\ ~(endpoints[s] # None /\ ReadyFor(endpoints[s], active[s].pkg))
       THEN act' = [act EXCEPT !.pc = IF endpoints[s] = None THEN "launch" ELSE "unload",
                               !.slot = s, !.todo = @ \ {s},
                               !.changes = [t \in {s} |-> [to |-> active[s].pkg, expected |-> None]]]
       ELSE /\ act.pc = "restore"
            /\ act' = IF vault /\ Enabled(s) /\ act.todo # {s}
                      THEN [act EXCEPT !.todo = @ \ {s}] ELSE Idle
    /\ UNCHANGED <<durable, runtime, background>>

StopLoaded ==
    /\ act.pc = "unload" /\ endpoints[act.slot] # None
    /\ UNCHANGED <<durable, withdrawn, shown, staging, vault, removal, removed>>
    /\ StopOld("launch")

\* spec issues the permit for the vault that is still open.
IssuePermit ==
    /\ \/ act.pc = "launch"
       \/ act.pc = "unload" /\ endpoints[act.slot] = None
    /\ ~Leaving
    /\ act' = IF vault THEN [act EXCEPT !.pc = "spawn", !.permit = TRUE] ELSE Idle
    /\ UNCHANGED <<durable, runtime, background>>

\* Defect: the permit is not verified again when the instance starts.
DefectLaunch ==
    /\ act.pc = "spawn" /\ ~Occupied(act.slot)
    /\ UNCHANGED <<durable, endpoints, background>>
    /\ Started(act.slot, Target, None, TRUE, "loading")

LaunchCommitted ==
    /\ act.pc = "spawn"
    /\ UNCHANGED <<durable, endpoints, background>>
    /\ IF act.permit /\ ~Occupied(act.slot)
       THEN Started(act.slot, Target, None, TRUE, "loading")
       ELSE registry' = Reaped /\ act' = Idle /\ inst' = Kept(inst)

\* The pointer is read again, and the endpoint published after the store is released.
CheckLoaded ==
    /\ act.pc = "loading" /\ staging = None /\ ~Leaving
    /\ vault /\ Enabled(act.slot) /\ active[act.slot].pkg = Target
    /\ ReadyFor(act.id, Target)
    /\ act' = [act EXCEPT !.pc = "publish"]
    /\ UNCHANGED <<durable, runtime, background>>

PublishLoaded ==
    /\ act.pc = "publish"
    /\ UNCHANGED <<durable, registry, background>>
    /\ endpoints' = [endpoints EXCEPT ![act.slot] = act.id]
    /\ act' = IF act.todo = {} THEN Idle
              ELSE [Idle EXCEPT !.pc = "restore", !.todo = act.todo]
    /\ inst' = Kept(inst)

LoadFails ==
    /\ act.pc = "loading"
    /\ UNCHANGED <<durable, endpoints, withdrawn, shown, staging, vault, removal, removed>>
    /\ \E state \in JoinStates(act.id) :
         /\ CountDirty(state, act.id)
         /\ registry' = IF Joined(state) THEN registry \ {act.id} ELSE registry
         /\ act' = Idle
         /\ inst' = Kept([inst EXCEPT ![act.id].state = state])

\* extension_enable with an operation: retry the activation of a pending group.
RetryActivation(op) ==
    /\ act.pc = "idle" /\ staging = None
    /\ Targets(op)
    /\ act' = [Idle EXCEPT !.pc = "verify", !.op = op, !.changes = txns[op].changes]
    /\ UNCHANGED <<durable, runtime, background>>

Disable(s) ==
    /\ endpoints[s] # None
    /\ UNCHANGED <<durable, registry, withdrawn, shown, staging, act, vault, removal, removed, events>>
    /\ endpoints' = [endpoints EXCEPT ![s] = None]
    /\ inst' = Kept([inst EXCEPT ![endpoints[s]].state =
                        IF @ \in {"starting", "ready"} THEN "stopping" ELSE @])
----------------------------------------------------------------------------
(* Commands that do not take the activation lock: locking the credentials, *)
(* changing the vault and uninstalling all revoke every permit, stop and   *)
(* join every instance, forget the endpoints, and then do their own work.  *)

StopAll ==
    /\ registry' = {}
    /\ endpoints' = [s \in Slots |-> None]
    /\ act' = [act EXCEPT !.permit = FALSE]
    /\ inst' = Kept([i \in Ids |->
                 IF inst[i] = None THEN None
                 ELSE [inst[i] EXCEPT !.valid = FALSE,
                         !.state = IF Alive(i) THEN "stopped" ELSE @]])

LockCredentials ==
    /\ removal = None
    /\ UNCHANGED <<durable, withdrawn, shown, staging, vault, removal, removed>>
    /\ StopAll /\ Event

LeaveVault ==
    /\ removal = None
    /\ act.pc \notin {"check", "switch"}          \* the confirm command holds the workspace
    /\ UNCHANGED <<durable, withdrawn, shown, staging, vault, removed>>
    /\ StopAll /\ Event
    /\ removal' = [kind |-> "vault", slot |-> None, pkg |-> None]

ReplaceVault ==
    /\ removal # None /\ removal.kind = "vault"
    /\ vault' = ~vault /\ removal' = None
    /\ UNCHANGED <<durable, runtime, withdrawn, shown, staging, act, removed, events>>

Uninstall(s) ==
    /\ removal = None
    /\ active[s] # None
    /\ UNCHANGED <<durable, withdrawn, shown, staging, vault, removed>>
    /\ StopAll /\ Event
    /\ removal' = [kind |-> "uninstall", slot |-> s, pkg |-> active[s].pkg]

RemovePointer ==
    /\ removal # None /\ removal.kind = "uninstall" /\ StoreFree
    /\ active' = IF active[removal.slot] = [pkg |-> removal.pkg, pending |-> None]
                 THEN [active EXCEPT ![removal.slot] = None] ELSE active
    /\ removal' = None /\ removed' = TRUE
    /\ UNCHANGED <<objects, staged, prepared, trusted, blocked, txns, confirmed,
                   runtime, withdrawn, shown, staging, act, vault, events>>

\* A confirmed review of the source's setting.
ChangeTrust ==
    /\ StoreFree
    /\ trusted' = ~trusted /\ Event
    /\ UNCHANGED <<objects, staged, prepared, blocked, active, txns, confirmed,
                   runtime, withdrawn, shown, staging, act, vault, removal, removed>>

Withdraw(p) ==
    /\ p \notin withdrawn
    /\ withdrawn' = withdrawn \cup {p} /\ Event
    /\ UNCHANGED <<durable, runtime, shown, staging, act, vault, removal, removed>>

\* The process ends, and with it every instance; opening the store again
\* rolls every unfinished transaction back.
Restart ==
    /\ Event
    /\ LET open == {op \in Ops : Unfinished(op)}
       IN /\ active' = [s \in Slots |->
                IF \E op \in open : s \in DOMAIN txns[op].changes
                THEN FinishedPointers(CHOOSE op \in open : s \in DOMAIN txns[op].changes, FALSE)[s]
                ELSE active[s]]
          /\ txns' = [op \in Ops |-> IF op \in open
                                    THEN [txns[op] EXCEPT !.state = "rolled_back"] ELSE txns[op]]
    /\ endpoints' = [s \in Slots |-> None] /\ registry' = {}
    /\ inst' = [i \in Ids |-> None]
    /\ shown' = None /\ staging' = None /\ act' = Idle /\ removal' = None /\ vault' = TRUE
    /\ UNCHANGED <<objects, staged, prepared, trusted, blocked, confirmed, withdrawn, removed>>
----------------------------------------------------------------------------
Init ==
    /\ objects = Shipped /\ staged = Shipped /\ prepared = Installed
    /\ trusted = TRUE /\ blocked = {} /\ withdrawn = {}
    /\ active = [s \in Slots |->
                   IF \E p \in Installed : SlotOf[p] = s
                   THEN [pkg |-> CHOOSE p \in Installed : SlotOf[p] = s, pending |-> None]
                   ELSE None]
    /\ txns = [op \in Ops |-> None] /\ confirmed = [op \in Ops |-> None]
    /\ shown = None /\ staging = None /\ act = Idle /\ removal = None /\ vault = TRUE
    /\ endpoints = [s \in Slots |-> None] /\ inst = [i \in Ids |-> None] /\ registry = {}
    /\ removed = FALSE /\ events = 0

Store ==
    \/ \E p \in Packages : StageCheck(p) \/ Withdraw(p)
    \/ \E p \in Roots : Preview(p)
    \/ StoreObject \/ RecordStage \/ StageFails \/ ChangeTrust
    \/ \E op \in Ops : LockPlan(op) \/ RepeatConfirm(op) \/ RetryActivation(op)
    \/ \E op, installed \in Ops : Rollback(op, installed)
Activation ==
    \/ \E s \in Slots : CheckOnline(s) \/ NextSlot(s) \/ BeginEnable(s)
    \/ CheckFails \/ Switch \/ AbandonReview \/ Verify
    \/ StopPredecessor \/ PredecessorGone \/ StartTarget \/ TargetReady \/ TargetFails
    \/ CommitGroup \/ ActivationFails \/ UndoStarted \/ RestorePointers
    \/ StopLoaded \/ IssuePermit \/ LaunchCommitted \/ CheckLoaded \/ PublishLoaded \/ LoadFails
Others ==
    \/ \E i \in Ids : ResumeInstance(i) \/ EndInstance(i)
    \/ \E s \in Slots : Disable(s) \/ Uninstall(s)
    \/ LockCredentials \/ LeaveVault \/ ReplaceVault \/ RemovePointer \/ Restart
Next == Store \/ Activation \/ Others

Spec == Init /\ [][Next]_vars
----------------------------------------------------------------------------
(* Properties.                                                             *)

\* The type of every variable: rows, handles and the stages of the workers.
TypeOK ==
    /\ objects \subseteq Packages /\ staged \subseteq Packages /\ prepared \subseteq Packages
    /\ blocked \subseteq Packages /\ withdrawn \subseteq Packages /\ trusted \in BOOLEAN
    /\ \A s \in Slots : active[s] = None \/ active[s] \in Pointers
    /\ \A op \in Ops : txns[op] = None \/ txns[op] \in Transactions
    /\ \A op \in Ops : confirmed[op] = None \/ confirmed[op] \in Reviews
    /\ endpoints \in [Slots -> Ids \cup {None}] /\ registry \subseteq Ids
    /\ \A i \in Ids : inst[i] = None \/ inst[i] \in Instances

\* A pending pointer always belongs to an unfinished transaction, and every
\* slot of an unfinished transaction is pending and points to its target:
\* finish, recover and switch never leave part of a group behind
\* (extension_transaction.rs).
PendingMatchesGroup ==
    /\ \A op \in Ops : Unfinished(op) => Targets(op)
    /\ \A s \in Slots : PendingOp(s) # None =>
         Unfinished(active[s].pending) /\ s \in DOMAIN txns[active[s].pending].changes

\* What a slot uses once the unfinished transactions are set aside.
Committed(s) == IF PendingOp(s) # None
                THEN txns[active[s].pending].changes[s].expected ELSE Pkg(s)
Fate == [checking |-> "offered", complete |-> "installed", rolled_back |-> "dropped"]
GroupOf(t) == [to |-> [s \in DOMAIN t.changes |-> t.changes[s].to],
               base |-> [s \in DOMAIN t.changes |-> t.changes[s].expected],
               state |-> Fate[t.state]]
Catalogue == INSTANCE GroupCatalogue
             WITH live <- [s \in Slots |-> Committed(s)],
                  group <- [op \in Ops |-> IF txns[op] = None THEN None ELSE GroupOf(txns[op])],
                  NoPackage <- None, NoGroup <- None

\* Seen without its pending switches, the store changes by whole groups, over
\* the packages the group was confirmed for and once per operation id, or by
\* one removal, through every cancellation, repeated confirmation, failed
\* health check, crash and recovery (switch, finish, recover, uninstall).
AtomicGroups == Catalogue!Spec

\* A process that got past its last check runs the package its slot points
\* to, or the one that an unfinished update of the slot is about to replace;
\* nobody else's vault is open meanwhile.  Removal is excepted: see
\* RemovedPackagesAreStopped.
ExecutingIsInstalled ==
    ~removed =>
        \A i \in Ids : Executing(i) =>
            vault /\ inst[i].pkg \in {Pkg(inst[i].slot), Committed(inst[i].slot)}

\* Every pointer, and every package an undone switch would go back to, has
\* its archive and its verified tree: the files are written before the rows.
PointersAreBacked ==
    /\ staged \subseteq objects
    /\ \A s \in Slots : {Pkg(s), Committed(s)} \ {None} \subseteq staged \cap prepared

\* extension_transaction.rs says of uninstall that the pointer is removed
\* after the instance stopped: the published instance of a slot without
\* pointer does not execute. The code does not keep this: the slot
\* can be activated again between the stop and the removal (README, section 7).
RemovedPackagesAreStopped ==
    \A s \in Slots : endpoints[s] # None /\ Executing(endpoints[s]) => active[s] # None
=============================================================================
